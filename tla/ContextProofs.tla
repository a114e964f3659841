---------------------------- MODULE ContextProofs ----------------------------
(***************************************************************************)
(* Proofs about what a turn rests on, for any number of turns, windows,    *)
(* memories, documents, skills and changes: the curation of conversations, *)
(* the memories and their files, the skills and the context of a step.     *)
(***************************************************************************)
EXTENDS TurnContext, WellFoundedInduction, TLAPS

-----------------------------------------------------------------------------
(* Numbers.                                                                 *)

LEMMA LessThan ==
  \E R : IsWellFoundedOn(R, Nat) /\ \A x, y \in Nat : y < x => <<y, x>> \in R
<1>1. IsWellFoundedOn(OpToRel(<, Nat), Nat)
  BY NatLessThanWellFounded
<1>2. \A x, y \in Nat : y < x => <<y, x>> \in OpToRel(<, Nat)
  BY DEF OpToRel
<1> QED
  BY <1>1, <1>2, Zenon

LEMMA LeastNumber ==
  ASSUME NEW T, T \subseteq Nat, T # {}
  PROVE  \E n \in T : \A m \in T : n <= m
<1>1. PICK R : IsWellFoundedOn(R, Nat) /\ \A x, y \in Nat : y < x => <<y, x>> \in R
  BY LessThan
<1>2. PICK n \in T : \A y \in T : ~ (<<y, n>> \in R)
  BY <1>1, WFMin
<1>3. ASSUME NEW y \in T PROVE n <= y
  <2>1. n \in Nat /\ y \in Nat /\ ~(y < n)
    BY <1>1, <1>2
  <2> QED
    BY <2>1
<1> QED
  BY <1>3

(* Last is the greatest of some messages, and 0 if there are none.          *)
LEMMA LastIsGreatest ==
  ASSUME NEW N \in Nat, NEW S, S \subseteq 1 .. N
  PROVE  Last(S) \in S \cup {0} /\ \A k \in S : k <= Last(S)
<1> DEFINE T == {n \in 0 .. N : \A k \in S : k <= n}
<1>1. T \subseteq Nat /\ T # {}
  <2>1. N \in T
    OBVIOUS
  <2>2. T \subseteq Nat
    OBVIOUS
  <2> HIDE DEF T
  <2> QED
    BY <2>1, <2>2
<1>2. PICK m \in T : \A j \in T : m <= j
  BY <1>1, LeastNumber
<1>3. m \in S \cup {0}
  <2> SUFFICES ASSUME m \notin S, m # 0 PROVE FALSE
    OBVIOUS
  <2>1. m \in 0 .. N /\ \A k \in S : k <= m
    OBVIOUS
  <2>2. m \in Int /\ m - 1 \in 0 .. N
    BY <2>1
  <2> HIDE DEF T
  <2>3. ASSUME NEW k \in S PROVE k <= m - 1
    <3>1. k \in Int /\ k <= m
      BY <2>1
    <3>2. k # m
      OBVIOUS
    <3> QED
      BY <3>1, <3>2, <2>2
  <2>4. m - 1 \in T
    BY <2>2, <2>3 DEF T
  <2>5. m <= m - 1
    BY <1>2, <2>4
  <2> QED
    BY <2>2, <2>5
<1>4. \E n \in S \cup {0} : \A k \in S : k <= n
  BY <1>2, <1>3
<1> QED
  BY <1>4 DEF Last

-----------------------------------------------------------------------------
(* The curator.                                                             *)

Live(e) ==
    \/ jobs[e].status \in {"pending", "prepared", "dispatched"}
    \/ jobs[e].status = "failed" /\ jobs[e].attempts < MaxAttempts

IsWindow(start, end) == end \in Messages /\ start \in 1 .. end /\ end - start < WindowLimit

(* One job at a time can still be sent, and it begins behind all that is    *)
(* completed.                                                               *)
JobsIInv ==
    /\ messages \in 0 .. MaxMessages /\ ended \subseteq 1 .. messages
    /\ jobs \in [Messages -> Job]
    /\ \A e \in Messages : jobs[e].status # "none" => IsWindow(jobs[e].start, e)
    /\ \A e \in Messages : jobs[e].status = "pending" => jobs[e].attempts < MaxAttempts
    /\ \A e, f \in Messages : Live(e) /\ Live(f) => e = f
    /\ \A e \in Messages : Live(e) => \A d \in Completed : d < jobs[e].start
    /\ CuratedOnce

(* So does the window that the task is about to make a job of; and the job  *)
(* that it prepared or sent is its own.                                     *)
TaskIInv ==
    /\ maintenance \in [at : Places, start : 0 .. MaxMessages, end : 0 .. MaxMessages,
                        decays : {maintenance.decays}]
    /\ At("enqueue") =>
          /\ InFlight = {} /\ maintenance.end \in Messages
          /\ jobs[maintenance.end].status = "none" =>
                /\ IsWindow(maintenance.start, maintenance.end)
                /\ \A e \in Messages : ~Live(e)
                /\ \A d \in Completed : d < maintenance.start
    /\ At("prepare") =>
          /\ InFlight = {} /\ maintenance.end \in Messages
          /\ jobs[maintenance.end].attempts < MaxAttempts
    /\ At("dispatch") =>
          maintenance.end \in Messages /\ jobs[maintenance.end].status = "prepared"
    /\ At("send") =>
          maintenance.end \in Messages /\ jobs[maintenance.end].status = "dispatched"

CuratorIInv == JobsIInv /\ TaskIInv

LEMMA CuratorConstants ==
  /\ MaxMessages \in Nat /\ WindowLimit \in Nat \ {0} /\ MaxAttempts \in Nat \ {0}
  /\ Messages = 1 .. MaxMessages
BY CuratorAssumption DEF Messages

LEMMA CuratorBegin == CuratorInit => CuratorIInv
<1> SUFFICES ASSUME CuratorInit PROVE CuratorIInv
  OBVIOUS
<1>1. /\ messages = 0 /\ ended = {} /\ maintenance = Idle
      /\ jobs = [e \in Messages |-> [status |-> "none", start |-> 0, attempts |-> 0]]
  BY DEF CuratorInit
<1>2. jobs \in [Messages -> Job]
  BY <1>1, CuratorConstants DEF Job, JobStatuses
<1>3. \A e \in Messages : jobs[e].status = "none" /\ ~Live(e)
  BY <1>1 DEF Live
<1>4. Completed = {}
  BY <1>3 DEF Completed
<1>5. JobsIInv
  BY <1>1, <1>2, <1>3, <1>4, CuratorConstants DEF JobsIInv, CuratedOnce
<1>6. TaskIInv
  BY <1>1, CuratorConstants DEF TaskIInv, Idle, Places, At
<1> QED
  BY <1>5, <1>6 DEF CuratorIInv

(* The one job that can be sent moves on, or a new one takes its place.     *)
LEMMA JobMoved ==
  ASSUME JobsIInv, UNCHANGED <<messages, ended>>,
         NEW e \in Messages, NEW job \in Job, SetJob(e, job),
         job.status # "none", job.status = "pending" => job.attempts < MaxAttempts,
         \/ Live(e) /\ job.start = jobs[e].start
         \/ /\ jobs[e].status = "none" /\ IsWindow(job.start, e)
            /\ \A f \in Messages : ~Live(f)
            /\ \A d \in Completed : d < job.start
            /\ job.status # "completed"
  PROVE  /\ JobsIInv' /\ jobs'[e] = job
         /\ \A f \in Messages : f # e => jobs'[f] = jobs[f]
<1>1. /\ jobs \in [Messages -> Job]
      /\ \A f \in Messages : jobs[f].status # "none" => IsWindow(jobs[f].start, f)
      /\ \A f \in Messages : jobs[f].status = "pending" => jobs[f].attempts < MaxAttempts
  BY DEF JobsIInv
<1>2. /\ jobs' \in [Messages -> Job] /\ jobs'[e] = job
      /\ \A f \in Messages : f # e => jobs'[f] = jobs[f]
  BY <1>1 DEF SetJob
<1>3. /\ IsWindow(job.start, e) /\ e \notin Completed
      /\ \A f \in Messages : Live(f) => f = e
      /\ \A d \in Completed : d < job.start
  BY <1>1 DEF JobsIInv, Live, Completed
<1>4. \A f \in Messages : Live(f)' => f = e
  BY <1>2, <1>3 DEF Live
<1>5. Completed' = IF job.status = "completed" THEN Completed \cup {e} ELSE Completed
  BY <1>2, <1>3 DEF Completed
<1>6. Live(e)' => Completed' = Completed
  BY <1>2, <1>5 DEF Live
<1>7. CuratedOnce'
  <2> SUFFICES ASSUME NEW d \in Completed', NEW f \in Completed', d < f
               PROVE  d < jobs'[f].start
    BY DEF CuratedOnce
  <2>1. Completed \subseteq Messages /\ Completed' \subseteq Completed \cup {e}
    BY <1>5 DEF Completed
  <2>2. d \in Int /\ f \in Int /\ e \in Int /\ job.start \in 1 .. e
    BY <1>3, <2>1, CuratorConstants DEF IsWindow
  <2>3. CASE f = e
    BY <1>2, <1>3, <2>1, <2>2, <2>3
  <2>4. CASE f # e /\ d = e
    BY <1>3, <2>1, <2>2, <2>4
  <2>5. CASE f # e /\ d # e
    BY <1>2, <2>1, <2>5 DEF JobsIInv, CuratedOnce
  <2> QED
    BY <2>3, <2>4, <2>5
<1>8. JobsIInv'
  <2>1. \A f \in Messages : /\ jobs'[f].status # "none" => IsWindow(jobs'[f].start, f)
                            /\ jobs'[f].status = "pending" => jobs'[f].attempts < MaxAttempts
    BY <1>1, <1>2, <1>3
  <2>2. \A f \in Messages : Live(f)' => \A d \in Completed' : d < jobs'[f].start
    BY <1>2, <1>3, <1>4, <1>6
  <2> QED
    BY <1>2, <1>4, <1>7, <2>1, <2>2 DEF JobsIInv
<1> QED
  BY <1>2, <1>8

(* Another message, or the end of a turn: no job changes.                   *)
LEMMA JobsKept ==
  ASSUME JobsIInv, UNCHANGED jobs, messages' \in 0 .. MaxMessages, ended' \subseteq 1 .. messages'
  PROVE  /\ JobsIInv' /\ InFlight' = InFlight /\ Completed' = Completed
         /\ \A e : Live(e)' <=> Live(e)
<1>1. \A e : Live(e)' <=> Live(e)
  BY DEF Live
<1>2. InFlight' = InFlight /\ Completed' = Completed
  BY DEF InFlight, Completed
<1> QED
  BY <1>1, <1>2 DEF JobsIInv, CuratedOnce

LEMMA TaskKept ==
  ASSUME CuratorIInv, UNCHANGED <<jobs, maintenance>>,
         messages' \in 0 .. MaxMessages, ended' \subseteq 1 .. messages'
  PROVE  CuratorIInv'
BY JobsKept DEF CuratorIInv, TaskIInv, At

(* The task is done with a window, for good or for now.                     *)
LEMMA TaskLeft ==
  ASSUME JobsIInv',
         \/ maintenance' = Idle
         \/ \E D : maintenance' = [at |-> "decay", start |-> 0, end |-> 0, decays |-> D]
  PROVE  CuratorIInv'
<1>1. maintenance' \in [at : Places, start : 0 .. MaxMessages, end : 0 .. MaxMessages,
                        decays : {maintenance'.decays}]
  BY CuratorConstants DEF Idle, Places
<1>2. maintenance'.at \in {"idle", "decay"}
  BY DEF Idle
<1> QED
  BY <1>1, <1>2 DEF CuratorIInv, TaskIInv, At

LEMMA RecoverInterruptedKeeps ==
  ASSUME CuratorIInv, RecoverInterrupted, UNCHANGED <<messages, ended>>
  PROVE  CuratorIInv'
<1>1. PICK e \in InFlight : SetJob(e, [jobs[e] EXCEPT !.status = Interrupted(e)])
  BY DEF RecoverInterrupted
<1> DEFINE job == [jobs[e] EXCEPT !.status = Interrupted(e)]
<1>2. /\ e \in Messages /\ jobs[e].status \in {"prepared", "dispatched"} /\ jobs[e] \in Job /\ Live(e)
  BY DEF CuratorIInv, JobsIInv, InFlight, Live
<1>3. job \in Job /\ job.status \in {"failed", "delivery_unknown"} /\ job.start = jobs[e].start
  BY <1>2 DEF Job, JobStatuses, Interrupted
<1> HIDE DEF job
<1>4. JobsIInv'
  BY <1>1, <1>2, <1>3, JobMoved DEF CuratorIInv, job
<1>5. maintenance' = maintenance /\ maintenance.at = "idle"
  BY DEF RecoverInterrupted, At
<1> QED
  BY <1>4, <1>5 DEF CuratorIInv, TaskIInv, At

(* The window that is looked for begins behind all that is completed.       *)
LEMMA WindowFound ==
  ASSUME CuratorIInv, InFlight = {}, Retryable = {}, Eligible # {},
         NEW start, start = NextStart, NEW end, end = Cut(start, Last(Eligible))
  PROVE  /\ IsWindow(start, end) /\ \A d \in Completed : d < start
         /\ \A e \in Messages : ~Live(e)
<1> DEFINE l == Last(Eligible)
           p == Processed
<1>0. /\ messages \in 0 .. MaxMessages /\ ended \subseteq 1 .. messages
      /\ jobs \in [Messages -> Job]
  BY DEF CuratorIInv, JobsIInv
<1>1. Completed \subseteq 1 .. MaxMessages /\ Eligible \subseteq 1 .. MaxMessages
  <2>1. Completed \subseteq 1 .. MaxMessages
    BY CuratorConstants DEF Completed
  <2>2. messages \in Int /\ messages <= MaxMessages /\ ended \subseteq 1 .. messages
    BY <1>0, CuratorConstants
  <2>3. Eligible \subseteq ended
    BY DEF Eligible
  <2>4. 1 .. messages \subseteq 1 .. MaxMessages
    BY <2>2, CuratorConstants
  <2> QED
    BY <2>1, <2>2, <2>3, <2>4
<1>2. p \in Completed \cup {0} /\ \A d \in Completed : d <= p
  BY <1>1, CuratorConstants, LastIsGreatest DEF Processed
<1>3. l \in Eligible \cup {0} /\ \A d \in Eligible : d <= l
  BY <1>1, CuratorConstants, LastIsGreatest
<1>4. l \in Eligible /\ l \in 1 .. MaxMessages /\ p \in 0 .. MaxMessages
  <2>1. PICK n \in Eligible : n <= l
    BY <1>3
  <2>2. n \in 1 .. MaxMessages
    BY <2>1, <1>1
  <2>3. \A k \in 1 .. MaxMessages : ~(k <= 0)
    BY CuratorConstants
  <2> HIDE DEF l, p
  <2>4. l # 0
    BY <2>1, <2>2, <2>3
  <2>5. l \in Eligible
    BY <2>4, <1>3
  <2>6. p \in 0 .. MaxMessages
    BY <1>1, <1>2, CuratorConstants
  <2> QED
    BY <2>5, <2>6, <1>1
<1>5. p < l
  BY <1>4 DEF Eligible
<1>6. start = p + 1 /\ end = IF l - start >= WindowLimit THEN start + WindowLimit - 1 ELSE l
  BY DEF NextStart, Cut
<1> HIDE DEF l, p
<1>7. IsWindow(start, end)
  BY <1>4, <1>5, <1>6, CuratorConstants DEF IsWindow
<1>8. \A d \in Completed : d < start
  <2> SUFFICES ASSUME NEW d \in Completed PROVE d < start
    OBVIOUS
  <2>1. d \in 1 .. MaxMessages /\ d <= p
    BY <1>1, <1>2
  <2> QED
    BY <2>1, <1>4, <1>6, CuratorConstants
<1>9. \A e \in Messages : ~Live(e)
  BY DEF Live, InFlight, Retryable
<1> QED
  BY <1>7, <1>8, <1>9

LEMMA DiscoverWindowKeeps ==
  ASSUME CuratorIInv, DiscoverWindow, UNCHANGED <<messages, ended>>
  PROVE  CuratorIInv'
<1>1. At("idle") /\ InFlight = {} /\ UNCHANGED jobs
  BY DEF DiscoverWindow, Choose
<1>2. /\ JobsIInv' /\ InFlight' = {} /\ Completed' = Completed
      /\ \A e : Live(e)' <=> Live(e)
  BY <1>1, JobsKept DEF CuratorIInv, JobsIInv
<1>3. PICK start, end :
         /\ maintenance' = [at |-> "enqueue", start |-> start, end |-> end, decays |-> {}]
         /\ start \in 0 .. MaxMessages /\ end \in Messages
         /\ jobs[end].status = "none" =>
               /\ IsWindow(start, end) /\ \A e \in Messages : ~Live(e)
               /\ \A d \in Completed : d < start
  <2>1. CASE Retryable # {}
    <3>1. PICK e \in Retryable : Window(jobs[e].start, e)
      BY <2>1 DEF DiscoverWindow, Choose
    <3>2. /\ e \in Messages /\ jobs[e] \in Job /\ jobs[e].status \in {"pending", "failed"}
          /\ IsWindow(jobs[e].start, e)
      BY DEF Retryable, CuratorIInv, JobsIInv
    <3>3. Cut(jobs[e].start, e) = e
      BY <3>2, CuratorConstants DEF Cut, IsWindow
    <3> QED
      BY <3>1, <3>2, <3>3 DEF Window, Job
  <2>2. CASE Retryable = {}
    <3> DEFINE end == Cut(NextStart, Last(Eligible))
    <3>1. Eligible # {} /\ Window(NextStart, Last(Eligible))
      BY <2>2 DEF DiscoverWindow, Choose
    <3>2. /\ IsWindow(NextStart, end) /\ \A d \in Completed : d < NextStart
          /\ \A e \in Messages : ~Live(e)
      BY <1>1, <2>2, <3>1, WindowFound
    <3>3. maintenance' = [at |-> "enqueue", start |-> NextStart, end |-> end, decays |-> {}]
      BY <3>1 DEF Window
    <3> HIDE DEF end
    <3>4. NextStart \in 0 .. MaxMessages /\ end \in Messages
      BY <3>2, CuratorConstants DEF IsWindow
    <3> QED
      BY <3>2, <3>3, <3>4
  <2> QED
    BY <2>1, <2>2
<1>4. maintenance' \in [at : Places, start : 0 .. MaxMessages, end : 0 .. MaxMessages,
                        decays : {maintenance'.decays}]
  BY <1>3, CuratorConstants DEF Places
<1>5. TaskIInv'
  BY <1>1, <1>2, <1>3, <1>4 DEF TaskIInv, At
<1> QED
  BY <1>2, <1>5 DEF CuratorIInv

(* A task that goes on with its window.                                     *)
LEMMA TaskGoesOn ==
  ASSUME TaskIInv, NEW place \in Places, GoTo(place)
  PROVE  /\ maintenance'.at = place /\ maintenance'.end = maintenance.end
         /\ maintenance' \in [at : Places, start : 0 .. MaxMessages, end : 0 .. MaxMessages,
                              decays : {maintenance'.decays}]
BY DEF TaskIInv, GoTo

LEMMA EnqueueKeeps ==
  ASSUME CuratorIInv, Enqueue, UNCHANGED <<messages, ended>>
  PROVE  CuratorIInv'
<1> DEFINE e == maintenance.end
           job == [status |-> "pending", start |-> maintenance.start, attempts |-> 0]
<1>0. At("enqueue") /\ e \in Messages /\ InFlight = {} /\ JobsIInv /\ TaskIInv
  BY DEF Enqueue, CuratorIInv, TaskIInv
<1>p. "prepare" \in Places
  BY DEF Places
<1>1. CASE jobs[e].status = "none"
  <2>1. /\ SetJob(e, job) /\ GoTo("prepare")
        /\ IsWindow(maintenance.start, e) /\ \A f \in Messages : ~Live(f)
        /\ \A d \in Completed : d < maintenance.start
    BY <1>0, <1>1 DEF Enqueue, TaskIInv
  <2>2. job \in Job /\ job.start = maintenance.start /\ job.status = "pending" /\ job.attempts = 0
    BY <1>0, CuratorConstants DEF Job, JobStatuses, TaskIInv
  <2> HIDE DEF job
  <2>3. /\ JobsIInv' /\ jobs'[e] = job
        /\ \A f \in Messages : f # e => jobs'[f] = jobs[f]
    BY <1>0, <1>1, <2>1, <2>2, CuratorConstants, JobMoved
  <2>4. InFlight' = {}
    BY <1>0, <2>2, <2>3 DEF InFlight
  <2>5. TaskIInv'
    BY <1>0, <1>p, <2>1, <2>2, <2>3, <2>4, TaskGoesOn, CuratorConstants DEF TaskIInv, At
  <2> QED
    BY <2>3, <2>5 DEF CuratorIInv
<1>2. CASE jobs[e].status # "none"
  <2>1. UNCHANGED jobs
    BY <1>2 DEF Enqueue
  <2>2. JobsIInv' /\ InFlight' = {}
    BY <1>0, <2>1, JobsKept DEF JobsIInv
  <2>3. CASE jobs[e].attempts >= MaxAttempts
    BY <1>2, <2>2, <2>3, TaskLeft DEF Enqueue, Stop
  <2>4. CASE ~(jobs[e].attempts >= MaxAttempts)
    <3>1. GoTo("prepare")
      BY <1>2, <2>4 DEF Enqueue
    <3>2. jobs[e].attempts < MaxAttempts
      BY <1>0, <2>4, CuratorConstants DEF JobsIInv, Job
    <3>3. TaskIInv'
      BY <1>0, <1>p, <2>1, <2>2, <3>1, <3>2, TaskGoesOn DEF TaskIInv, At
    <3> QED
      BY <2>2, <3>3 DEF CuratorIInv
  <2> QED
    BY <2>3, <2>4
<1> QED
  BY <1>1, <1>2

LEMMA PrepareAttemptKeeps ==
  ASSUME CuratorIInv, PrepareAttempt, UNCHANGED <<messages, ended>>
  PROVE  CuratorIInv'
<1> DEFINE e == maintenance.end
           job == [jobs[e] EXCEPT !.status = "prepared", !.attempts = @ + 1]
<1>0. /\ At("prepare") /\ e \in Messages /\ InFlight = {} /\ JobsIInv /\ TaskIInv
      /\ jobs[e].attempts < MaxAttempts /\ jobs[e] \in Job
  BY DEF PrepareAttempt, CuratorIInv, TaskIInv, JobsIInv
<1>p. "dispatch" \in Places
  BY DEF Places
<1>1. CASE Dispatchable(e)
  <2>1. SetJob(e, job) /\ GoTo("dispatch") /\ Live(e)
    BY <1>0, <1>1 DEF PrepareAttempt, Dispatchable, Live
  <2>2. job \in Job /\ job.start = jobs[e].start /\ job.status = "prepared"
    <3> DEFINE sent == [jobs[e] EXCEPT !.status = "prepared"]
    <3>1. /\ sent \in Job /\ sent.start = jobs[e].start /\ sent.status = "prepared"
          /\ sent.attempts = jobs[e].attempts
      BY <1>0 DEF Job, JobStatuses
    <3>2. jobs[e].attempts + 1 \in 0 .. MaxAttempts
      BY <1>0, CuratorConstants DEF Job
    <3>3. job = [sent EXCEPT !.attempts = jobs[e].attempts + 1]
      BY <1>0 DEF Job
    <3> HIDE DEF sent, job
    <3> QED
      BY <3>1, <3>2, <3>3 DEF Job
  <2> HIDE DEF job
  <2>3. /\ JobsIInv' /\ jobs'[e] = job
    BY <1>0, <2>1, <2>2, JobMoved
  <2>4. TaskIInv'
    BY <1>0, <1>p, <2>1, <2>2, <2>3, TaskGoesOn DEF TaskIInv, At
  <2> QED
    BY <2>3, <2>4 DEF CuratorIInv
<1>2. CASE ~Dispatchable(e)
  <2>1. maintenance' = Idle /\ UNCHANGED jobs
    BY <1>2 DEF PrepareAttempt, Stop
  <2>2. JobsIInv'
    BY <1>0, <2>1, JobsKept DEF JobsIInv
  <2> QED
    BY <2>1, <2>2, TaskLeft
<1> QED
  BY <1>1, <1>2

(* The job that was sent gets an outcome.                                   *)
LEMMA SentJob ==
  ASSUME CuratorIInv, UNCHANGED <<messages, ended>>,
         NEW place \in {"dispatch", "send"}, At(place),
         NEW status \in {"dispatched", "completed", "failed", "delivery_unknown"},
         SetJob(maintenance.end, [jobs[maintenance.end] EXCEPT !.status = status])
  PROVE  /\ maintenance.end \in Messages /\ JobsIInv'
         /\ jobs'[maintenance.end].status = status
         /\ Live(maintenance.end)
<1> DEFINE e == maintenance.end
           job == [jobs[e] EXCEPT !.status = status]
<1>1. e \in Messages /\ jobs[e].status \in {"prepared", "dispatched"} /\ JobsIInv
  BY DEF CuratorIInv, TaskIInv, At
<1>2. jobs[e] \in Job /\ Live(e)
  BY <1>1 DEF JobsIInv, Live
<1>3. job \in Job /\ job.status = status /\ job.start = jobs[e].start
  BY <1>2 DEF Job, JobStatuses
<1>4. SetJob(e, job)
  OBVIOUS
<1> HIDE DEF job
<1> QED
  BY <1>1, <1>2, <1>3, <1>4, JobMoved

LEMMA MarkDispatchStartedKeeps ==
  ASSUME CuratorIInv, MarkDispatchStarted, UNCHANGED <<messages, ended>>
  PROVE  CuratorIInv'
<1>1. At("dispatch") /\ GoTo("send") /\ TaskIInv /\ "send" \in Places
  BY DEF MarkDispatchStarted, CuratorIInv, Places
<1>2. /\ maintenance.end \in Messages /\ JobsIInv'
      /\ jobs'[maintenance.end].status = "dispatched"
  BY <1>1, SentJob DEF MarkDispatchStarted
<1>3. TaskIInv'
  BY <1>1, <1>2, TaskGoesOn DEF TaskIInv, At
<1> QED
  BY <1>2, <1>3 DEF CuratorIInv

LEMMA FailKeeps ==
  ASSUME CuratorIInv, Fail, UNCHANGED <<messages, ended>>
  PROVE  CuratorIInv'
<1>1. PICK outcome \in {"failed", "delivery_unknown"} :
         SetJob(maintenance.end, [jobs[maintenance.end] EXCEPT !.status = outcome])
  BY DEF Fail
<1>2. At("send") /\ maintenance' = Idle
  BY DEF Fail, Stop
<1>3. JobsIInv'
  BY <1>1, <1>2, SentJob
<1> QED
  BY <1>2, <1>3, TaskLeft

LEMMA FinalizeWindowKeeps ==
  ASSUME CuratorIInv, FinalizeWindow, UNCHANGED <<messages, ended>>
  PROVE  CuratorIInv'
<1>1. /\ At("send") /\ GoTo("decay") /\ TaskIInv /\ "decay" \in Places
      /\ SetJob(maintenance.end, [jobs[maintenance.end] EXCEPT !.status = "completed"])
  BY DEF FinalizeWindow, CuratorIInv, Places
<1>2. JobsIInv'
  BY <1>1, SentJob
<1>3. TaskIInv'
  BY <1>1, TaskGoesOn DEF TaskIInv, At
<1> QED
  BY <1>2, <1>3 DEF CuratorIInv

LEMMA ScanRetentionKeeps ==
  ASSUME CuratorIInv, ScanRetention, UNCHANGED <<messages, ended>>
  PROVE  CuratorIInv'
<1>1. PICK S \in SUBSET Decaying :
        maintenance' = IF S = {} THEN Idle ELSE
             [Idle EXCEPT !.at = "decay",
                 !.decays = {[item |-> i, retention |-> memory[i].retention,
                              tier |-> Colder(memory[i].tier)] : i \in S}]
  BY DEF ScanRetention
<1>2. \/ maintenance' = Idle
      \/ \E D : maintenance' = [at |-> "decay", start |-> 0, end |-> 0, decays |-> D]
  <2> DEFINE D == {[item |-> i, retention |-> memory[i].retention,
                    tier |-> Colder(memory[i].tier)] : i \in S}
             first == [Idle EXCEPT !.at = "decay"]
  <2>1. first = [at |-> "decay", start |-> 0, end |-> 0, decays |-> {}]
    BY DEF Idle
  <2>2. maintenance' = Idle \/ maintenance' = [first EXCEPT !.decays = D]
    BY <1>1 DEF Idle
  <2> HIDE DEF D, first
  <2>3. [first EXCEPT !.decays = D] = [at |-> "decay", start |-> 0, end |-> 0, decays |-> D]
    BY <2>1
  <2> QED
    BY <2>2, <2>3
<1>3. JobsIInv'
  BY JobsKept DEF ScanRetention, CuratorIInv, JobsIInv
<1> QED
  BY <1>2, <1>3, TaskLeft

(* Every other step of run_once that stops leaves the jobs as they are.     *)
LEMMA RunOnceKeeps ==
  ASSUME CuratorIInv, RunOnce
  PROVE  CuratorIInv'
<1>0. UNCHANGED <<messages, ended>>
  BY DEF RunOnce
<1>1. CASE ApplyRetention
  <2>1. maintenance' = Idle /\ UNCHANGED jobs
    BY <1>1 DEF ApplyRetention, Stop
  <2>2. JobsIInv'
    BY <1>0, <2>1, JobsKept DEF CuratorIInv, JobsIInv
  <2> QED
    BY <2>1, <2>2, TaskLeft
<1> QED
  BY <1>0, <1>1, RecoverInterruptedKeeps, DiscoverWindowKeeps, EnqueueKeeps,
     PrepareAttemptKeeps, MarkDispatchStartedKeeps, FailKeeps, ScanRetentionKeeps
     DEF RunOnce

LEMMA ConversationKeeps ==
  ASSUME CuratorIInv, NewMessage \/ EndTurn \/ SetContribution \/ CuratorDies
  PROVE  CuratorIInv'
<1>0. messages \in 0 .. MaxMessages /\ ended \subseteq 1 .. messages /\ JobsIInv
  BY DEF CuratorIInv, JobsIInv
<1>1. CASE NewMessage
  <2>1. /\ messages' \in 0 .. MaxMessages /\ UNCHANGED <<ended, jobs, maintenance>>
        /\ 1 .. messages \subseteq 1 .. messages'
    BY <1>0, <1>1, CuratorConstants DEF NewMessage
  <2> QED
    BY <1>0, <2>1, TaskKept
<1>2. CASE EndTurn
  <2>1. ended' \subseteq 1 .. messages /\ UNCHANGED <<messages, jobs, maintenance>>
    BY <1>0, <1>2 DEF EndTurn
  <2> QED
    BY <1>0, <2>1, TaskKept
<1>3. CASE SetContribution
  BY <1>0, <1>3, TaskKept DEF SetContribution
<1>4. CASE CuratorDies
  <2>1. maintenance' = Idle /\ UNCHANGED <<messages, ended, jobs>>
    BY <1>4 DEF CuratorDies, Stop
  <2>2. JobsIInv'
    BY <1>0, <2>1, JobsKept
  <2> QED
    BY <2>1, <2>2, TaskLeft
<1> QED
  BY <1>1, <1>2, <1>3, <1>4

LEMMA CuratorKeeps ==
  ASSUME CuratorIInv, [Next]_vars
  PROVE  CuratorIInv'
<1>1. CASE CuratorStep
  <2>1. CASE RunOnce
    BY <2>1, RunOnceKeeps
  <2>2. CASE FinishesWindow
    BY <2>2, FinalizeWindowKeeps DEF FinishesWindow
  <2>3. CASE NewMessage \/ EndTurn \/ SetContribution \/ CuratorDies
    BY <2>3, ConversationKeeps
  <2> QED
    BY <1>1, <2>1, <2>2, <2>3 DEF CuratorStep
<1>2. CASE UNCHANGED curatorVars
  BY <1>2, TaskKept DEF curatorVars, CuratorIInv, JobsIInv
<1>3. CuratorStep \/ UNCHANGED curatorVars
  BY DEF Next, TurnStep, vars
<1> QED
  BY <1>1, <1>2, <1>3

LEMMA CuratorInductive == Spec => []CuratorIInv
<1>1. Init => CuratorIInv
  BY CuratorBegin DEF Init
<1> QED
  BY <1>1, CuratorKeeps, PTL DEF Spec

(* No message is curated twice: the windows of completed jobs share none,   *)
(* for every limit of a window and every number of attempts                 *)
(* (memory_curator_store.py discover_window).                               *)
THEOREM CuratedOnceHolds == Spec => []CuratedOnce
<1>1. CuratorIInv => CuratedOnce
  BY DEF CuratorIInv, JobsIInv
<1> QED
  BY <1>1, CuratorInductive, PTL

(* A job whose delivery is unknown, or that is completed, stays so, and one *)
(* that was on its way when the process died is not sent again.             *)
LEMMA JobStaysSettled ==
  ASSUME CuratorIInv, NEW m \in Messages, jobs' = [jobs EXCEPT ![m] = jobs'[m]],
         Live(m) \/ jobs[m].status = "none",
         jobs[m].status = "dispatched" /\ At("idle") =>
            jobs'[m].status \in {"dispatched", "delivery_unknown"},
         NEW e \in Messages
  PROVE  /\ jobs[e].status \in {"completed", "delivery_unknown"}
             => jobs'[e].status = jobs[e].status
         /\ jobs[e].status = "dispatched" /\ At("idle")
             => jobs'[e].status \in {"dispatched", "delivery_unknown"}
<1>1. CASE e = m
  BY <1>1 DEF Live
<1>2. CASE e # m
  <2>1. jobs'[e] = jobs[e]
    BY <1>2 DEF CuratorIInv, JobsIInv
  <2> QED
    BY <2>1
<1> QED
  BY <1>1, <1>2

LEMMA JobMoves ==
  ASSUME CuratorIInv, NEW m \in Messages, NEW job, SetJob(m, job)
  PROVE  jobs' = [jobs EXCEPT ![m] = jobs'[m]] /\ jobs'[m] = job
BY DEF SetJob, CuratorIInv, JobsIInv

LEMMA JobsSettled ==
  ASSUME CuratorIInv, CuratorStep, NEW e \in Messages
  PROVE  /\ jobs[e].status \in {"completed", "delivery_unknown"}
             => jobs'[e].status = jobs[e].status
         /\ jobs[e].status = "dispatched" /\ At("idle")
             => jobs'[e].status \in {"dispatched", "delivery_unknown"}
<1> DEFINE m == maintenance.end
<1>1. CASE RecoverInterrupted
  <2>1. PICK f \in InFlight : SetJob(f, [jobs[f] EXCEPT !.status = Interrupted(f)])
    BY <1>1 DEF RecoverInterrupted
  <2>2. f \in Messages /\ Live(f) /\ jobs[f] \in Job
    BY DEF InFlight, Live, CuratorIInv, JobsIInv
  <2>3. jobs' = [jobs EXCEPT ![f] = jobs'[f]] /\ jobs'[f].status = Interrupted(f)
    BY <2>1, <2>2, JobMoves DEF Job
  <2> QED
    BY <2>2, <2>3, JobStaysSettled DEF Interrupted
<1>2. CASE /\ maintenance.at \in {"enqueue", "prepare", "dispatch", "send"}
           /\ Live(m) \/ jobs[m].status = "none"
           /\ \E job : SetJob(m, job)
  <2>1. m \in Messages /\ ~At("idle")
    BY <1>2 DEF CuratorIInv, TaskIInv, At
  <2> QED
    BY <1>2, <2>1, JobMoves, JobStaysSettled
<1>3. CASE Enqueue
  BY <1>2, <1>3 DEF Enqueue, At
<1>4. CASE PrepareAttempt
  <2>1. Dispatchable(m) => Live(m)
    BY <1>4 DEF Dispatchable, Live, PrepareAttempt, CuratorIInv, TaskIInv
  <2> QED
    BY <1>2, <1>4, <2>1 DEF PrepareAttempt, At
<1>5. CASE MarkDispatchStarted
  <2>1. Live(m)
    BY <1>5 DEF MarkDispatchStarted, CuratorIInv, TaskIInv, Live
  <2> QED
    BY <1>2, <1>5, <2>1 DEF MarkDispatchStarted, At
<1>6. CASE Fail \/ FinalizeWindow
  <2>1. Live(m)
    BY <1>6 DEF Fail, FinalizeWindow, CuratorIInv, TaskIInv, Live
  <2> QED
    BY <1>2, <1>6, <2>1 DEF Fail, FinalizeWindow, At
<1>7. CASE UNCHANGED jobs
  BY <1>7
<1> QED
  BY <1>1, <1>3, <1>4, <1>5, <1>6, <1>7
     DEF CuratorStep, RunOnce, FinishesWindow, DiscoverWindow, Choose, ScanRetention,
         ApplyRetention, NewMessage, EndTurn, SetContribution, CuratorDies

(* A window whose delivery is unknown is never sent again as that window:   *)
(* recovery, retries and an enqueue that finds the job leave it alone       *)
(* (memory_curator_store.py recover_interrupted, enqueue, prepare_attempt). *)
THEOREM UnknownIsNotResentHolds == Spec => UnknownIsNotResent
<1> DEFINE A == \A e \in Messages :
          /\ jobs[e].status \in {"completed", "delivery_unknown"}
             => jobs'[e].status = jobs[e].status
          /\ jobs[e].status = "dispatched" /\ At("idle")
             => jobs'[e].status \in {"dispatched", "delivery_unknown"}
<1>1. CuratorIInv /\ [Next]_vars => A \/ UNCHANGED jobs
  <2> SUFFICES ASSUME CuratorIInv, [Next]_vars, CuratorStep PROVE A
    BY DEF Next, TurnStep, vars, curatorVars
  <2> QED
    BY JobsSettled
<1> HIDE DEF A
<1>2. Spec => [][A]_jobs
  BY <1>1, CuratorInductive, PTL DEF Spec
<1> QED
  BY <1>2 DEF UnknownIsNotResent, A
-----------------------------------------------------------------------------
(* Retrieval.                                                               *)

(* A session is open for another hop only within the budget.                *)
SessionsIInv ==
    /\ sessions = [s \in Sessions |-> sessions[s]]
    /\ \A s \in Sessions : /\ sessions[s].next \in Nat
                           /\ Open(s) => sessions[s].next <= MaximumHops

SessionGoesOn(s, t) ==
    /\ t.found \ sessions[s].found \subseteq Current
    /\ t.next \in Nat
    /\ t.status = "open" => t.next <= MaximumHops
    /\ sessions[s].status \in {"none", "open"}

LEMMA FindableIsCurrent == Findable = Current
BY DEF Findable, Lexical, DenseCandidates

LEMMA SessionsMove ==
  ASSUME SessionsIInv, KnowledgeStep
  PROVE  \/ UNCHANGED sessions
         \/ \E s \in Sessions : \E t : sessions' = [sessions EXCEPT ![s] = t] /\ SessionGoesOn(s, t)
<1>0. MaximumHops \in Nat \ {0, 1}
  BY KnowledgeAssumption
<1>r. ASSUME NEW s \in Sessions, NEW status, NEW next, NEW hits, Record(s, status, next, hits),
             hits \subseteq Current, next \in Nat, status = "open" => next <= MaximumHops,
             sessions[s].status \in {"none", "open"}
      PROVE  \E x \in Sessions : \E t : sessions' = [sessions EXCEPT ![x] = t] /\ SessionGoesOn(x, t)
  <2> DEFINE t == [status |-> status, next |-> next, found |-> sessions[s].found \cup hits]
  <2>1. sessions' = [sessions EXCEPT ![s] = t]
    BY <1>r DEF Record, Extended
  <2>2. t.found = sessions[s].found \cup hits /\ t.next = next /\ t.status = status
    OBVIOUS
  <2> HIDE DEF t
  <2>3. SessionGoesOn(s, t)
    BY <1>r, <2>2 DEF SessionGoesOn
  <2> QED
    BY <2>1, <2>3
<1>1. ASSUME NEW s \in Sessions, NEW hits \in SUBSET Findable, NEW mode, Retrieve(s, mode, hits)
      PROVE  \E x \in Sessions : \E t : sessions' = [sessions EXCEPT ![x] = t] /\ SessionGoesOn(x, t)
  <2>1. PICK status : Record(s, status, 2, hits)
    BY <1>1 DEF Retrieve
  <2> QED
    BY <1>0, <1>1, <1>r, <2>1, FindableIsCurrent DEF Retrieve
<1>2. ASSUME NEW s \in Sessions, NEW hits \in SUBSET Findable, NEW conclude,
             ContinueRetrieval(s, conclude, hits)
      PROVE  \E x \in Sessions : \E t : sessions' = [sessions EXCEPT ![x] = t] /\ SessionGoesOn(x, t)
  <2>1. /\ Record(s, AfterHop(s, conclude, hits), sessions[s].next + 1, hits)
        /\ sessions[s].status = "open" /\ hits \subseteq Current
    BY <1>2, FindableIsCurrent DEF ContinueRetrieval, Open
  <2>2. sessions[s].next \in Nat /\ sessions[s].next + 1 \in Nat
    BY DEF SessionsIInv
  <2>3. AfterHop(s, conclude, hits) = "open" => sessions[s].next + 1 <= MaximumHops
    BY <1>0, <2>2 DEF AfterHop, HopBudgetIsSpent
  <2> QED
    BY <1>r, <2>1, <2>2, <2>3
<1>3. ASSUME NEW s \in Sessions, ConcludeRetrieval(s)
      PROVE  \E x \in Sessions : \E t : sessions' = [sessions EXCEPT ![x] = t] /\ SessionGoesOn(x, t)
  <2>1. Record(s, "completed", sessions[s].next + 1, {}) /\ sessions[s].status = "open"
    BY <1>3 DEF ConcludeRetrieval, Open
  <2>2. sessions[s].next + 1 \in Nat
    BY DEF SessionsIInv
  <2> QED
    BY <1>r, <2>1, <2>2
<1>4. ASSUME \/ \E d \in Docs, c \in FileStates : ChangeFile(d, c)
             \/ ReadLibrary \/ SkipSync \/ EnsureDense
             \/ \E reading \in scan : Sync(reading)
      PROVE  UNCHANGED sessions
  BY <1>4 DEF ChangeFile, ReadLibrary, SkipSync, EnsureDense, Sync
<1> QED
  BY <1>1, <1>2, <1>3, <1>4 DEF KnowledgeStep

LEMMA SessionsKeep ==
  ASSUME SessionsIInv, [Next]_vars
  PROVE  SessionsIInv'
<1>1. CASE UNCHANGED sessions
  BY <1>1 DEF SessionsIInv, Open
<1>2. ASSUME NEW s \in Sessions, NEW t, sessions' = [sessions EXCEPT ![s] = t],
             SessionGoesOn(s, t)
      PROVE  SessionsIInv'
  <2>1. sessions'[s] = t /\ \A x \in Sessions : x # s => sessions'[x] = sessions[x]
    BY <1>2 DEF SessionsIInv
  <2>2. sessions' = [x \in Sessions |-> sessions'[x]]
    BY <1>2 DEF SessionsIInv
  <2> QED
    BY <1>2, <2>1, <2>2 DEF SessionsIInv, SessionGoesOn, Open
<1> QED
  BY <1>1, <1>2, SessionsMove DEF Next, TurnStep, vars, knowledgeVars

LEMMA SessionsInductive == Spec => []SessionsIInv
<1>1. Init => SessionsIInv
  BY KnowledgeAssumption DEF Init, KnowledgeInit, SessionsIInv, Open
<1> QED
  BY <1>1, SessionsKeep, PTL DEF Spec

(* What a hop selects belongs to the current parse of an indexed document,  *)
(* whatever vectors an old index still has, and no session goes on beyond   *)
(* its hops or after its end (dense_knowledge_store.py search_index,        *)
(* knowledge_store.py continue_retrieval).                                  *)
THEOREM RetrievalIsCurrentAndBoundedHolds == Spec => RetrievalIsCurrentAndBounded
<1> DEFINE A == \A s \in Sessions :
          /\ sessions'[s].found \ sessions[s].found \subseteq Current
          /\ sessions'[s].status = "open" => sessions'[s].next <= MaximumHops
          /\ sessions[s].status \in {"completed", "partial"}
             => sessions'[s] = sessions[s]
<1>1. SessionsIInv /\ [Next]_vars => A
  <2> SUFFICES ASSUME SessionsIInv, [Next]_vars PROVE A
    OBVIOUS
  <2>1. CASE UNCHANGED sessions
    BY <2>1 DEF SessionsIInv, Open
  <2>2. ASSUME NEW s \in Sessions, NEW t, sessions' = [sessions EXCEPT ![s] = t],
               SessionGoesOn(s, t)
        PROVE  A
    <3>1. sessions'[s] = t /\ \A x \in Sessions : x # s => sessions'[x] = sessions[x]
      BY <2>2 DEF SessionsIInv
    <3> QED
      BY <2>2, <3>1 DEF SessionsIInv, SessionGoesOn, Open
  <2> QED
    BY <2>1, <2>2, SessionsMove DEF Next, TurnStep, vars, knowledgeVars
<1> HIDE DEF A
<1>2. Spec => [][A]_<<revision, knowledgeVars>>
  BY <1>1, SessionsInductive, PTL DEF Spec
<1> QED
  BY <1>2 DEF RetrievalIsCurrentAndBounded, A

(* No document that was indexed loses its parse to a file that could not be *)
(* read (knowledge_store.py sync).                                          *)
THEOREM LastKnownGoodStaysHolds == Spec => LastKnownGoodStays
<1> DEFINE A == \A d \in Indexed :
          documents'[d] # documents[d]
          => \E reading \in scan : reading[d] \notin {Unreadable, documents[d].parse}
           D == /\ documents = [d \in Docs |-> documents[d]]
                /\ \A d \in Docs : documents[d] \in Document
                /\ \A reading \in scan : reading \in Reading
                /\ library \in Reading
<1>1. Init => D
  BY KnowledgeAssumption DEF Init, KnowledgeInit, Document, Availabilities, NoParse, Reading,
     FileStates, Missing
<1>2. ASSUME NEW d \in Docs, NEW seen \in FileStates, documents[d] \in Document
      PROVE  /\ Observed(seen, documents[d]) \in Document
             /\ d \in Indexed /\ Observed(seen, documents[d]) # documents[d]
                => seen \notin {Unreadable, documents[d].parse}
  <2>0. Missing \notin Contents /\ Unreadable \notin Contents /\ Missing # Unreadable
    BY KnowledgeAssumption DEF Missing, Unreadable
  <2>1. CASE seen = Missing
    BY <1>2, <2>0, <2>1 DEF Observed, Gone, Document, Availabilities, Indexed, NoParse, Missing
  <2>2. CASE seen = Unreadable
    BY <1>2, <2>0, <2>2 DEF Observed, Refused, Document, Availabilities, Indexed
  <2>3. CASE seen \in Contents
    BY <1>2, <2>0, <2>3 DEF Observed, Parsed, Document, Availabilities, Indexed
  <2> QED
    BY <2>1, <2>2, <2>3 DEF FileStates
<1>3. D /\ KnowledgeStep => A /\ D'
  <2> SUFFICES ASSUME D, KnowledgeStep PROVE A /\ D'
    OBVIOUS
  <2>1. ASSUME NEW reading \in scan, Sync(reading) PROVE A /\ D'
    <3>1. CASE NewsIn(reading)
      <4>1. /\ documents' = [d \in Docs |-> Observed(reading[d], documents[d])]
            /\ scan' = {} /\ UNCHANGED library
        BY <2>1, <3>1 DEF Sync
      <4>2. \A d \in Docs : reading[d] \in FileStates
        BY DEF Reading
      <4> QED
        BY <1>2, <4>1, <4>2 DEF Indexed
    <3>2. CASE ~NewsIn(reading)
      BY <2>1, <3>2 DEF Sync, Indexed
    <3> QED
      BY <3>1, <3>2
  <2>2. ASSUME NEW d \in Docs, NEW c \in FileStates, ChangeFile(d, c) PROVE A /\ D'
    BY <2>2 DEF ChangeFile, Reading, Indexed
  <2>3. CASE ReadLibrary \/ SkipSync \/ EnsureDense
    <3>1. UNCHANGED <<library, documents>> /\ \A reading \in scan' : reading \in scan \cup {library}
      BY <2>3 DEF ReadLibrary, SkipSync, EnsureDense
    <3>2. \A reading \in scan' : reading \in Reading
      BY <3>1
    <3>3. /\ documents' = [d \in Docs |-> documents'[d]] /\ library' \in Reading
          /\ \A d \in Docs : documents'[d] \in Document
      BY <3>1
    <3>4. A
      BY <3>1 DEF Indexed
    <3> QED
      BY <3>2, <3>3, <3>4
  <2>4. CASE \/ \E s \in Sessions, hits \in SUBSET Findable :
                  \/ \E mode \in {"direct", "multi_hop"} : Retrieve(s, mode, hits)
                  \/ \E conclude \in BOOLEAN : ContinueRetrieval(s, conclude, hits)
             \/ \E s \in Sessions : ConcludeRetrieval(s)
    <3>1. UNCHANGED <<library, documents, scan>>
      BY <2>4 DEF Retrieve, ContinueRetrieval, ConcludeRetrieval, Record
    <3> QED
      BY <3>1 DEF Indexed
  <2> QED
    BY <2>1, <2>2, <2>3, <2>4 DEF KnowledgeStep
<1>4. D /\ UNCHANGED knowledgeVars => A /\ D'
  BY DEF knowledgeVars, Indexed
<1> HIDE DEF A, D
<1>5. D /\ [Next]_vars => A /\ D'
  BY <1>3, <1>4 DEF Next, TurnStep, vars
<1>6. Spec => [][A]_<<revision, knowledgeVars>>
  BY <1>1, <1>5, PTL DEF Spec
<1> QED
  BY <1>6 DEF LastKnownGoodStays, A

-----------------------------------------------------------------------------
(* Memory.                                                                  *)

(* No commit moves a pointer or a retention revision by more than one.      *)
Bounded(i) ==
    /\ memory[i].pointer <= revision /\ memory[i].retention <= revision
    /\ i \in Stored => memory[i].number \in 1 .. MaxRevisions /\ memory[i].text \in Texts
    /\ memory[i].successor # None => memory[i].tier = "archived"

(* An edit that was read rests on a pointer the item had, and on the        *)
(* revision it had with it.                                                 *)
EditRests(e) ==
    /\ e \in Edit /\ e.item \in Stored
    /\ e.pointer <= memory[e.item].pointer
    /\ e.pointer = memory[e.item].pointer => e.base = memory[e.item].number

LedgerIInv ==
    /\ revision \in 0 .. MaxCommits
    /\ memory \in [Items -> Item]
    /\ \A i \in Items : Bounded(i)
    /\ catalog = RebuildSummary(memory)

FilesIInv ==
    /\ view \in [Items -> View]
    /\ \A i \in Items : view[i] # NoFile => view[i].text \in Texts
    /\ payload \in Payloads
    /\ \A e \in edits : EditRests(e)

(* What the retention policy is about to move is still there.               *)
DecaysIInv == \A d \in maintenance.decays : d.item \in Stored

MemoryIInv == LedgerIInv /\ FilesIInv /\ DecaysIInv

LEMMA MemoryConstants ==
  MaxRevisions \in Nat \ {0} /\ MaxCommits \in Nat /\ Texts # {}
BY MemoryAssumption, CommitsAssumption

(* What a commit may do to an item: what is stored stays stored, and its    *)
(* revision changes only together with its pointer.                         *)
Moves(r, s) ==
    /\ s \in Item
    /\ s.lifecycle # "absent"
    /\ s.number \in 1 .. MaxRevisions /\ s.text \in Texts
    /\ s.pointer <= r.pointer + 1 /\ s.retention <= r.retention + 1
    /\ s.successor # None => s.tier = "archived"
    /\ r.lifecycle # "absent" =>
          \/ s.pointer = r.pointer /\ s.number = r.number
          \/ s.pointer = r.pointer + 1 /\ s.number >= r.number

(* Rows of memory_items with their states.                                  *)
Row(lifecycle, number, text, pointer, tier, retention, successor) ==
    [lifecycle |-> lifecycle, number |-> number, text |-> text, pointer |-> pointer,
     tier |-> tier, retention |-> retention, successor |-> successor]

LEMMA RevisedRow ==
  ASSUME NEW r \in Item, NEW l, NEW t
  PROVE  Revised(r, t, l)
         = Row(l, r.number + 1, t, r.pointer + 1, TierFor(l), r.retention + 1, None)
<1> DEFINE e1 == [r EXCEPT !.lifecycle = l]
           e2 == [e1 EXCEPT !.number = @ + 1]
           e3 == [e2 EXCEPT !.text = t]
           e4 == [e3 EXCEPT !.pointer = @ + 1]
           e5 == [e4 EXCEPT !.tier = TierFor(l)]
           e6 == [e5 EXCEPT !.retention = @ + 1]
           e7 == [e6 EXCEPT !.successor = None]
<1>1. e1 = Row(l, r.number, r.text, r.pointer, r.tier, r.retention, r.successor)
  BY DEF Item, Row
<1> HIDE DEF e1
<1>2. e2 = Row(l, r.number + 1, r.text, r.pointer, r.tier, r.retention, r.successor)
  BY <1>1 DEF Row
<1> HIDE DEF e2
<1>3. e3 = Row(l, r.number + 1, t, r.pointer, r.tier, r.retention, r.successor)
  BY <1>2 DEF Row
<1> HIDE DEF e3
<1>4. e4 = Row(l, r.number + 1, t, r.pointer + 1, r.tier, r.retention, r.successor)
  BY <1>3 DEF Row
<1> HIDE DEF e4
<1>5. e5 = Row(l, r.number + 1, t, r.pointer + 1, TierFor(l), r.retention, r.successor)
  BY <1>4 DEF Row
<1> HIDE DEF e5
<1>6. e6 = Row(l, r.number + 1, t, r.pointer + 1, TierFor(l), r.retention + 1, r.successor)
  BY <1>5 DEF Row
<1> HIDE DEF e6
<1>7. e7 = Row(l, r.number + 1, t, r.pointer + 1, TierFor(l), r.retention + 1, None)
  BY <1>6 DEF Row
<1> QED
  BY <1>7 DEF e1, e2, e3, e4, e5, e6, e7, Revised

LEMMA ActivatedRow ==
  ASSUME NEW r \in Item
  PROVE  Activated(r)
         = Row("active", r.number, r.text, r.pointer + 1, "hot", r.retention + 1, None)
<1> DEFINE e1 == [r EXCEPT !.lifecycle = "active"]
           e2 == [e1 EXCEPT !.pointer = @ + 1]
           e3 == [e2 EXCEPT !.tier = "hot"]
           e4 == [e3 EXCEPT !.retention = @ + 1]
           e5 == [e4 EXCEPT !.successor = None]
<1>1. e1 = Row("active", r.number, r.text, r.pointer, r.tier, r.retention, r.successor)
  BY DEF Item, Row
<1> HIDE DEF e1
<1>2. e2 = Row("active", r.number, r.text, r.pointer + 1, r.tier, r.retention, r.successor)
  BY <1>1 DEF Row
<1> HIDE DEF e2
<1>3. e3 = Row("active", r.number, r.text, r.pointer + 1, "hot", r.retention, r.successor)
  BY <1>2 DEF Row
<1> HIDE DEF e3
<1>4. e4 = Row("active", r.number, r.text, r.pointer + 1, "hot", r.retention + 1, r.successor)
  BY <1>3 DEF Row
<1> HIDE DEF e4
<1>5. e5 = Row("active", r.number, r.text, r.pointer + 1, "hot", r.retention + 1, None)
  BY <1>4 DEF Row
<1> QED
  BY <1>5 DEF e1, e2, e3, e4, e5, Activated

LEMMA RetractedRow ==
  ASSUME NEW r \in Item
  PROVE  Retracted(r)
         = Row("retracted", r.number, r.text, r.pointer + 1, "archived", r.retention + 1, r.successor)
<1> DEFINE e1 == [r EXCEPT !.lifecycle = "retracted"]
           e2 == [e1 EXCEPT !.pointer = @ + 1]
           e3 == [e2 EXCEPT !.tier = "archived"]
           e4 == [e3 EXCEPT !.retention = @ + 1]
<1>1. e1 = Row("retracted", r.number, r.text, r.pointer, r.tier, r.retention, r.successor)
  BY DEF Item, Row
<1> HIDE DEF e1
<1>2. e2 = Row("retracted", r.number, r.text, r.pointer + 1, r.tier, r.retention, r.successor)
  BY <1>1 DEF Row
<1> HIDE DEF e2
<1>3. e3 = Row("retracted", r.number, r.text, r.pointer + 1, "archived", r.retention, r.successor)
  BY <1>2 DEF Row
<1> HIDE DEF e3
<1>4. e4 = Row("retracted", r.number, r.text, r.pointer + 1, "archived", r.retention + 1, r.successor)
  BY <1>3 DEF Row
<1> QED
  BY <1>4 DEF e1, e2, e3, e4, Retracted

LEMMA MovedRow ==
  ASSUME NEW r \in Item, NEW tier
  PROVE  [r EXCEPT !.tier = tier, !.retention = @ + 1]
         = Row(r.lifecycle, r.number, r.text, r.pointer, tier, r.retention + 1, r.successor)
<1> DEFINE e1 == [r EXCEPT !.tier = tier]
           e2 == [e1 EXCEPT !.retention = @ + 1]
<1>1. e1 = Row(r.lifecycle, r.number, r.text, r.pointer, tier, r.retention, r.successor)
  BY DEF Item, Row
<1> HIDE DEF e1
<1>2. e2 = Row(r.lifecycle, r.number, r.text, r.pointer, tier, r.retention + 1, r.successor)
  BY <1>1 DEF Row
<1> QED
  BY <1>2 DEF e1, e2

LEMMA SupersededRow ==
  ASSUME NEW r \in Item, NEW by
  PROVE  [r EXCEPT !.tier = "archived", !.retention = @ + 1, !.successor = by]
         = Row(r.lifecycle, r.number, r.text, r.pointer, "archived", r.retention + 1, by)
<1> DEFINE e1 == [r EXCEPT !.tier = "archived"]
           e2 == [e1 EXCEPT !.retention = @ + 1]
           e3 == [e2 EXCEPT !.successor = by]
<1>1. e1 = Row(r.lifecycle, r.number, r.text, r.pointer, "archived", r.retention, r.successor)
  BY DEF Item, Row
<1> HIDE DEF e1
<1>2. e2 = Row(r.lifecycle, r.number, r.text, r.pointer, "archived", r.retention + 1, r.successor)
  BY <1>1 DEF Row
<1> HIDE DEF e2
<1>3. e3 = Row(r.lifecycle, r.number, r.text, r.pointer, "archived", r.retention + 1, by)
  BY <1>2 DEF Row
<1> QED
  BY <1>3 DEF e1, e2, e3


LEMMA ItemFields ==
  ASSUME LedgerIInv, NEW i \in Items
  PROVE  /\ memory[i] \in Item /\ Bounded(i) /\ revision \in 0 .. MaxCommits
         /\ memory[i].lifecycle \in Lifecycles /\ memory[i].tier \in Tiers
         /\ memory[i].successor \in Items \cup {None}
         /\ memory[i].number \in Nat /\ memory[i].pointer \in Nat
         /\ memory[i].retention \in Nat
         /\ i \in Stored <=> memory[i].lifecycle # "absent"
<1>1. memory[i] \in Item /\ Bounded(i) /\ revision \in 0 .. MaxCommits
  BY DEF LedgerIInv
<1> QED
  BY <1>1, MemoryConstants DEF Item, Stored

LEMMA RowMoves ==
  ASSUME LedgerIInv, revision < MaxCommits, NEW i \in Items, NEW l \in Lifecycles \ {"absent"},
         NEW n \in 1 .. MaxRevisions, NEW t \in Texts, NEW p \in {1, memory[i].pointer, memory[i].pointer + 1},
         NEW tier \in Tiers, NEW x \in {1, memory[i].retention, memory[i].retention + 1},
         NEW by \in Items \cup {None}, by # None => tier = "archived",
         i \in Stored => \/ (p = memory[i].pointer /\ n = memory[i].number)
                         \/ (p = memory[i].pointer + 1 /\ n >= memory[i].number)
  PROVE  Moves(memory[i], Row(l, n, t, p, tier, x, by))
<1>1. /\ memory[i].pointer \in Nat /\ memory[i].pointer <= revision
      /\ memory[i].retention \in Nat /\ memory[i].retention <= revision
      /\ revision \in Nat
      /\ i \in Stored <=> memory[i].lifecycle # "absent"
  BY ItemFields, MemoryConstants DEF Bounded
<1>2. /\ p \in 0 .. MaxCommits /\ x \in 0 .. MaxCommits
      /\ p <= memory[i].pointer + 1 /\ x <= memory[i].retention + 1
  <2> DEFINE b == memory[i].pointer
             c == memory[i].retention
  <2>0. revision \in Nat
    BY <1>1
  <2>1. MaxCommits \in Nat /\ p \in {1, b, b + 1} /\ x \in {1, c, c + 1}
    BY MemoryConstants
  <2>2. b \in Nat /\ c \in Nat /\ b <= revision /\ c <= revision /\ revision < MaxCommits
    BY <1>1
  <2>3. p \in 0 .. MaxCommits /\ x \in 0 .. MaxCommits /\ p <= b + 1 /\ x <= c + 1
    <3> HIDE DEF b, c
    <3> QED
      BY ONLY <2>0, <2>1, <2>2
  <2> QED
    BY <2>3
<1>3. Row(l, n, t, p, tier, x, by) \in Item
  BY <1>2, MemoryConstants DEF Row, Item
<1> QED
  BY <1>1, <1>2, <1>3 DEF Row, Moves

(* A command writes one item.                                               *)
WritesOne(i) ==
    /\ Commit
    /\ memory' = [memory EXCEPT ![i] = memory'[i]]
    /\ Moves(memory[i], memory'[i])
    /\ catalog' = RebuildSummary(memory')

LEMMA ItemWritten ==
  ASSUME LedgerIInv, NEW i \in Items, NEW s, Write([memory EXCEPT ![i] = s]),
         Moves(memory[i], s)
  PROVE  WritesOne(i)
<1>1. /\ memory' = [memory EXCEPT ![i] = s] /\ memory \in [Items -> Item]
      /\ Commit /\ catalog' = RebuildSummary([memory EXCEPT ![i] = s])
  BY DEF Write, LedgerIInv
<1>2. memory'[i] = s
  BY <1>1
<1> QED
  BY <1>1, <1>2 DEF WritesOne

LEMMA TierRow ==
  ASSUME LedgerIInv, NEW i \in Items, NEW tier
  PROVE  [memory EXCEPT ![i].tier = tier, ![i].retention = @ + 1]
         = [memory EXCEPT ![i] = [memory[i] EXCEPT !.tier = tier, !.retention = @ + 1]]
<1> DEFINE first == [memory EXCEPT ![i].tier = tier]
           r == [memory[i] EXCEPT !.tier = tier]
<1>1. first = [memory EXCEPT ![i] = r] /\ first[i] = r
  BY DEF LedgerIInv
<1> QED
  BY <1>1 DEF LedgerIInv

LEMMA SuccessorRow ==
  ASSUME LedgerIInv, NEW i \in Items, NEW by
  PROVE  [memory EXCEPT ![i].tier = "archived", ![i].retention = @ + 1, ![i].successor = by]
         = [memory EXCEPT ![i] = [memory[i] EXCEPT !.tier = "archived", !.retention = @ + 1,
                                                   !.successor = by]]
<1> DEFINE first == [memory EXCEPT ![i].tier = "archived", ![i].retention = @ + 1]
           r == [memory[i] EXCEPT !.tier = "archived", !.retention = @ + 1]
<1>1. first = [memory EXCEPT ![i] = r] /\ first[i] = r
  BY TierRow DEF LedgerIInv
<1>2. [memory EXCEPT ![i].tier = "archived", ![i].retention = @ + 1, ![i].successor = by]
      = [first EXCEPT ![i].successor = by]
  OBVIOUS
<1> HIDE DEF first
<1> QED
  BY <1>1, <1>2 DEF LedgerIInv

LEMMA CommandWrites ==
  ASSUME LedgerIInv, NEW i \in Items,
         \/ \E t \in Texts, l \in {"active", "proposed"} : Create(i, t, l)
         \/ \E p : \E l \in {"active", "proposed"}, t \in Texts : Revise(i, p, t, l)
         \/ \E p : Activate(i, p) \/ Retract(i, p)
         \/ \E x : \E tier \in Tiers : SetAccessTier(i, x, tier)
         \/ \E x : \E j \in Items : Supersede(i, j, x)
  PROVE  WritesOne(i)
<1>0. /\ memory[i] \in Item /\ memory[i].number \in Nat /\ MaxRevisions \in Nat \ {0}
      /\ i \in Stored => memory[i].number \in 1 .. MaxRevisions /\ memory[i].text \in Texts
      /\ memory[i].successor \in Items \cup {None}
      /\ memory[i].successor # None => memory[i].tier = "archived"
      /\ memory[i].lifecycle \in Lifecycles
      /\ i \in Stored <=> memory[i].lifecycle # "absent"
  BY ItemFields, MemoryConstants DEF Bounded
<1>t. \A l : TierFor(l) \in Tiers
  BY DEF TierFor, Tiers
<1>l. {"active", "proposed", "retracted"} \subseteq Lifecycles \ {"absent"}
      /\ {"hot", "archived"} \subseteq Tiers
  BY DEF Lifecycles, Tiers
<1>1. ASSUME NEW t \in Texts, NEW l \in {"active", "proposed"}, Create(i, t, l)
      PROVE  WritesOne(i)
  <2>1. Write([memory EXCEPT ![i] = Row(l, 1, t, 1, TierFor(l), 1, None)])
    BY <1>1 DEF Create, Row
  <2>0. i \notin Stored /\ revision < MaxCommits
    BY <1>1 DEF Create, Write, Commit
  <2>2. Moves(memory[i], Row(l, 1, t, 1, TierFor(l), 1, None))
    <3>1. 1 \in 1 .. MaxRevisions /\ l \in Lifecycles \ {"absent"} /\ TierFor(l) \in Tiers
      BY <1>0, <1>l, <1>t
    <3> QED
      BY <2>0, <3>1, RowMoves
  <2> QED
    BY <2>1, <2>2, ItemWritten
<1>2. ASSUME NEW p, NEW l \in {"active", "proposed"}, NEW t \in Texts, Revise(i, p, t, l)
      PROVE  WritesOne(i)
  <2> DEFINE s == Row(l, memory[i].number + 1, t, memory[i].pointer + 1, TierFor(l),
                      memory[i].retention + 1, None)
  <2>0. /\ i \in Stored /\ memory[i].number + 1 \in 1 .. MaxRevisions /\ revision < MaxCommits
    BY <1>0, <1>2 DEF Revise, PointsAt, Write, Commit
  <2>1. Write([memory EXCEPT ![i] = Revised(memory[i], t, l)])
    BY <1>2 DEF Revise
  <2>2. Write([memory EXCEPT ![i] = s])
    <3>1. Revised(memory[i], t, l) = s
      BY <1>0, RevisedRow
    <3> HIDE DEF s
    <3> QED
      BY <2>1, <3>1
  <2>4. memory[i].number + 1 >= memory[i].number
    BY <1>0
  <2>3. Moves(memory[i], s)
    BY <1>0, <1>l, <1>t, <2>0, <2>4, RowMoves
  <2> HIDE DEF s
  <2> QED
    BY <2>2, <2>3, ItemWritten
<1>3. ASSUME NEW p, Activate(i, p) PROVE WritesOne(i)
  <2> DEFINE s == Row("active", memory[i].number, memory[i].text, memory[i].pointer + 1,
                      "hot", memory[i].retention + 1, None)
  <2>0. /\ i \in Stored /\ revision < MaxCommits
    BY <1>3 DEF Activate, PointsAt, Write, Commit
  <2>1. Write([memory EXCEPT ![i] = Activated(memory[i])])
    BY <1>3 DEF Activate
  <2>2. Write([memory EXCEPT ![i] = s])
    <3>1. Activated(memory[i]) = s
      BY <1>0, ActivatedRow
    <3> HIDE DEF s
    <3> QED
      BY <2>1, <3>1
  <2>4. memory[i].number >= memory[i].number
    BY <1>0
  <2>3. Moves(memory[i], s)
    BY <1>0, <1>l, <2>0, <2>4, RowMoves
  <2> HIDE DEF s
  <2> QED
    BY <2>2, <2>3, ItemWritten
<1>4. ASSUME NEW p, Retract(i, p) PROVE WritesOne(i)
  <2> DEFINE s == Row("retracted", memory[i].number, memory[i].text, memory[i].pointer + 1,
                      "archived", memory[i].retention + 1, memory[i].successor)
  <2>0. /\ i \in Stored /\ revision < MaxCommits
    BY <1>4 DEF Retract, PointsAt, Write, Commit
  <2>1. Write([memory EXCEPT ![i] = Retracted(memory[i])])
    BY <1>4 DEF Retract
  <2>2. Write([memory EXCEPT ![i] = s])
    <3>1. Retracted(memory[i]) = s
      BY <1>0, RetractedRow
    <3> HIDE DEF s
    <3> QED
      BY <2>1, <3>1
  <2>4. memory[i].number >= memory[i].number
    BY <1>0
  <2>3. Moves(memory[i], s)
    BY <1>0, <1>l, <2>0, <2>4, RowMoves
  <2> HIDE DEF s
  <2> QED
    BY <2>2, <2>3, ItemWritten
<1>5. ASSUME NEW tier \in Tiers, NEW x, SetAccessTier(i, x, tier) PROVE WritesOne(i)
  <2> DEFINE s == Row(memory[i].lifecycle, memory[i].number, memory[i].text, memory[i].pointer,
                      tier, memory[i].retention + 1, memory[i].successor)
  <2>0. /\ i \in Stored /\ revision < MaxCommits
        /\ memory[i].successor # None => tier = "archived"
    BY <1>5 DEF SetAccessTier, Write, Commit
  <2>1. Write([memory EXCEPT ![i].tier = tier, ![i].retention = @ + 1])
    BY <1>5 DEF SetAccessTier
  <2>2. Write([memory EXCEPT ![i] = s])
    <3>1. [memory[i] EXCEPT !.tier = tier, !.retention = @ + 1] = s
      BY <1>0, MovedRow
    <3> HIDE DEF s
    <3> QED
      BY <2>1, <3>1, TierRow
  <2>3. Moves(memory[i], s)
    BY <1>0, <2>0, RowMoves
  <2> HIDE DEF s
  <2> QED
    BY <2>2, <2>3, ItemWritten
<1>6. ASSUME NEW j \in Items, NEW x, Supersede(i, j, x) PROVE WritesOne(i)
  <2> DEFINE s == Row(memory[i].lifecycle, memory[i].number, memory[i].text, memory[i].pointer,
                      "archived", memory[i].retention + 1, j)
  <2>0. /\ i \in Stored /\ revision < MaxCommits
    BY <1>6 DEF Supersede, Write, Commit
  <2>1. Write([memory EXCEPT ![i].tier = "archived", ![i].retention = @ + 1, ![i].successor = j])
    BY <1>6 DEF Supersede
  <2>2. Write([memory EXCEPT ![i] = s])
    <3>1. [memory[i] EXCEPT !.tier = "archived", !.retention = @ + 1, !.successor = j] = s
      BY <1>0, SupersededRow
    <3> HIDE DEF s
    <3> QED
      BY <2>1, <3>1, SuccessorRow
  <2>4. memory[i].number >= memory[i].number
    BY <1>0
  <2>3. Moves(memory[i], s)
    BY <1>0, <1>l, <2>0, <2>4, RowMoves
  <2> HIDE DEF s
  <2> QED
    BY <2>2, <2>3, ItemWritten
<1> QED
  BY <1>1, <1>2, <1>3, <1>4, <1>5, <1>6

(* What any step does to the ledger of memory.                              *)
MemoryMoved ==
    /\ revision' \in 0 .. MaxCommits /\ revision <= revision'
    /\ \/ UNCHANGED ledger
       \/ /\ revision' = revision + 1
          /\ memory' = [i \in Items |-> memory'[i]]
          /\ \A i \in Items : memory'[i] = memory[i] \/ Moves(memory[i], memory'[i])
          /\ catalog' = RebuildSummary(memory')

LEMMA OneMoves ==
  ASSUME LedgerIInv, NEW i \in Items, WritesOne(i)
  PROVE  MemoryMoved
<1>1. revision' = revision + 1 /\ revision' \in 0 .. MaxCommits /\ revision <= revision'
  BY MemoryConstants DEF LedgerIInv, WritesOne, Commit
<1>2. /\ memory' = [x \in Items |-> memory'[x]]
      /\ \A x \in Items : memory'[x] = memory[x] \/ Moves(memory[x], memory'[x])
  BY DEF LedgerIInv, WritesOne
<1> QED
  BY <1>1, <1>2 DEF MemoryMoved, WritesOne

(* The answer of the model adds an item, or none.                           *)
LEMMA FinalizeMoves ==
  ASSUME LedgerIInv, FinalizeWindow
  PROVE  MemoryMoved
<1>1. PICK m \in Curated : Write(m)
  BY DEF FinalizeWindow
<1>2. CASE m = memory
  <2>1. revision' = revision + 1 /\ revision' \in 0 .. MaxCommits /\ revision <= revision'
    BY <1>1, MemoryConstants DEF LedgerIInv, Write, Commit
  <2>2. UNCHANGED ledger
    BY <1>1, <1>2 DEF Write, LedgerIInv, ledger
  <2> QED
    BY <2>1, <2>2 DEF MemoryMoved
<1>3. CASE m # memory
  <2>1. PICK i \in Items \ Stored, t \in {u \in Texts : ~InUse(u)}, l \in {"active", "proposed"} :
          m = [memory EXCEPT ![i] =
                 [lifecycle |-> l, number |-> 1, text |-> t, pointer |-> 1,
                  tier |-> TierFor(l), retention |-> 1, successor |-> None]]
    BY <1>3 DEF Curated
  <2>2. Create(i, t, l)
    BY <1>1, <2>1 DEF Create
  <2> QED
    BY <2>1, <2>2, CommandWrites, OneMoves
<1> QED
  BY <1>2, <1>3

(* The policy moves items a tier colder; none of them was replaced.         *)
LEMMA RetentionMoves ==
  ASSUME LedgerIInv, DecaysIInv, ApplyRetention
  PROVE  MemoryMoved
<1>1. CASE \A d \in maintenance.decays : Unmoved(d)
  <2> DEFINE moved == {i \in Items : \E d \in maintenance.decays : d.item = i}
             row(i) == [memory[i] EXCEPT !.tier = Colder(@), !.retention = @ + 1]
  <2>1. Write([i \in Items |-> IF i \in moved THEN row(i) ELSE memory[i]])
    BY <1>1 DEF ApplyRetention
  <2>2. /\ revision' = revision + 1 /\ revision' \in 0 .. MaxCommits
        /\ revision <= revision' /\ revision < MaxCommits
    <3>1. Commit /\ revision \in 0 .. MaxCommits
      BY <2>1 DEF Write, LedgerIInv
    <3> HIDE DEF moved, row
    <3> QED
      BY <3>1, MemoryConstants DEF Commit
  <2>3. /\ memory' = [i \in Items |-> IF i \in moved THEN row(i) ELSE memory[i]]
        /\ catalog' = RebuildSummary(memory')
    BY <2>1 DEF Write
  <2>4. ASSUME NEW i \in moved, i \in Stored PROVE Moves(memory[i], row(i))
    <3> DEFINE s == Row(memory[i].lifecycle, memory[i].number, memory[i].text, memory[i].pointer,
                        Colder(memory[i].tier), memory[i].retention + 1, memory[i].successor)
    <3>1. memory[i] \in Item /\ memory[i].successor = None
      BY <1>1, ItemFields DEF Unmoved
    <3>2. row(i) = s
      BY <3>1, MovedRow
    <3>3. Colder(memory[i].tier) \in Tiers
      BY DEF Colder, Tiers
    <3>4. Moves(memory[i], s)
      BY <2>2, <2>4, <3>1, <3>3, ItemFields, RowMoves DEF Bounded
    <3> HIDE DEF row, s
    <3> QED
      BY <3>2, <3>4
  <2>5. \A i \in moved : i \in Stored
    BY <1>1 DEF DecaysIInv
  <2> HIDE DEF moved, row
  <2>6. \A i \in Items : memory'[i] = memory[i] \/ Moves(memory[i], memory'[i])
    BY <2>3, <2>4, <2>5
  <2> QED
    BY <2>2, <2>3, <2>6 DEF MemoryMoved
<1>2. CASE ~ \A d \in maintenance.decays : Unmoved(d)
  BY <1>2 DEF ApplyRetention, MemoryMoved, LedgerIInv, ledger
<1> QED
  BY <1>1, <1>2

LEMMA MemoryMoves ==
  ASSUME MemoryIInv, [Next]_vars
  PROVE  MemoryMoved
<1>i. LedgerIInv /\ FilesIInv /\ DecaysIInv
  BY DEF MemoryIInv
<1>0. /\ UNCHANGED <<revision, ledger>> => MemoryMoved
      /\ UNCHANGED ledger /\ Commit => MemoryMoved
  BY <1>i, MemoryConstants DEF MemoryMoved, LedgerIInv, Commit
<1>1. CASE MemoryCommand
  <2>1. PICK i \in Items :
         \/ \E t \in Texts, l \in {"active", "proposed"} : Create(i, t, l)
         \/ \E t \in Texts, l \in {"active", "proposed"} :
                Revise(i, memory[i].pointer, t, l)
         \/ Activate(i, memory[i].pointer)
         \/ Retract(i, memory[i].pointer)
         \/ \E t \in Tiers : SetAccessTier(i, memory[i].retention, t)
         \/ \E j \in Items : Supersede(i, j, memory[i].retention)
    BY <1>1 DEF MemoryCommand
  <2>2. CASE \E t \in Texts, l \in {"active", "proposed"} : Create(i, t, l)
    BY <1>i, <2>2, CommandWrites, OneMoves
  <2>3. CASE \E t \in Texts, l \in {"active", "proposed"} : Revise(i, memory[i].pointer, t, l)
    BY <1>i, <2>3, CommandWrites, OneMoves
  <2>4. CASE Activate(i, memory[i].pointer) \/ Retract(i, memory[i].pointer)
    BY <1>i, <2>4, CommandWrites, OneMoves
  <2>5. CASE \E t \in Tiers : SetAccessTier(i, memory[i].retention, t)
    BY <1>i, <2>5, CommandWrites, OneMoves
  <2>6. CASE \E j \in Items : Supersede(i, j, memory[i].retention)
    BY <1>i, <2>6, CommandWrites, OneMoves
  <2> QED
    BY <2>1, <2>2, <2>3, <2>4, <2>5, <2>6
<1>2. CASE FileStep
  <2>1. ASSUME NEW e \in edits, ImportEdit(e) PROVE MemoryMoved
    <3>1. /\ Revise(e.item, e.pointer, e.text, "active")
          /\ e.item \in Items /\ e.text \in Texts
      BY <1>i, <2>1 DEF ImportEdit, FilesIInv, EditRests, Edit
    <3>2. WritesOne(e.item)
      BY <1>i, <3>1, CommandWrites
    <3> QED
      BY <1>i, <3>1, <3>2, OneMoves
  <2>2. CASE Synchronize \/ Reconcile \/ \E e \in edits : AbandonEdits(e)
    BY <1>0, <2>2 DEF Synchronize, Reconcile, AbandonEdits
  <2>3. CASE \/ \E i \in Items, t \in Texts : EditFile(i, t)
             \/ \E i \in Items : DeleteFile(i)
    BY <1>0, <2>3 DEF EditFile, DeleteFile
  <2> QED
    BY <1>2, <2>1, <2>2, <2>3 DEF FileStep
<1>3. CASE RunOnce
  <2>1. CASE RecoverInterrupted \/ DiscoverWindow \/ Enqueue \/ PrepareAttempt
             \/ MarkDispatchStarted \/ Fail \/ ScanRetention
    BY <1>0, <2>1 DEF RecoverInterrupted, DiscoverWindow, Choose, Enqueue, PrepareAttempt,
       MarkDispatchStarted, Fail, ScanRetention
  <2> QED
    BY <1>3, <2>1, <1>i, RetentionMoves DEF RunOnce
<1>4. CASE CuratorStep /\ ~RunOnce
  <2>1. CASE NewMessage \/ EndTurn \/ SetContribution \/ CuratorDies
    <3>1. UNCHANGED revision \/ Commit
      BY <2>1 DEF NewMessage, EndTurn, SetContribution, CuratorDies
    <3>2. CASE UNCHANGED ledger
      BY <1>0, <3>1, <3>2
    <3>3. CASE FinishesWindow
      BY <1>i, <3>3, FinalizeMoves DEF FinishesWindow
    <3> QED
      BY <1>4, <3>2, <3>3 DEF CuratorStep
  <2> QED
    BY <1>4, <2>1, <1>i, FinalizeMoves DEF CuratorStep, FinishesWindow
<1>5. CASE SkillStep
  <2>1. UNCHANGED ledger
    BY <1>5 DEF SkillStep, ledger
  <2>2. UNCHANGED revision \/ Commit
    BY <1>5 DEF SkillStep, Approve, RejectEvolution, Evaluate, Judge, PrepareRollback,
       PrepareChange, RejectChange, Materialize, PrepareDeactivation, Publish, Finalize, Abandon
  <2> QED
    BY <1>0, <2>1, <2>2
<1>6. CASE KnowledgeStep /\ UNCHANGED ledger
  <2>1. UNCHANGED revision \/ Commit
    BY <1>6 DEF KnowledgeStep, ChangeFile, ReadLibrary, SkipSync, EnsureDense, Sync,
       Retrieve, ContinueRetrieval, ConcludeRetrieval, Record
  <2> QED
    BY <1>0, <1>6, <2>1
<1>7. CASE TurnStep
  <2>1. UNCHANGED ledger
    BY <1>7 DEF TurnStep
  <2>2. UNCHANGED revision \/ Commit
    BY <1>7 DEF TurnStep, FreezeStep, RefuseStep, SetUseMemory
  <2> QED
    BY <1>0, <2>1, <2>2
<1> QED
  BY <1>0, <1>1, <1>2, <1>3, <1>4, <1>5, <1>6, <1>7 DEF Next, vars

LEMMA LedgerKeeps ==
  ASSUME LedgerIInv, MemoryMoved
  PROVE  LedgerIInv' /\ Stored \subseteq Stored'
<1>1. CASE UNCHANGED ledger
  <2>1. /\ UNCHANGED <<memory, catalog>> /\ revision' \in 0 .. MaxCommits /\ revision <= revision'
        /\ revision \in 0 .. MaxCommits
    BY <1>1 DEF ledger, MemoryMoved, LedgerIInv
  <2>2. ASSUME NEW i \in Items PROVE Bounded(i)'
    <3>1. /\ memory[i].pointer \in Nat /\ memory[i].retention \in Nat
          /\ memory[i].pointer <= revision /\ memory[i].retention <= revision
      BY ItemFields DEF Bounded
    <3>2. memory[i].pointer <= revision' /\ memory[i].retention <= revision'
      BY <2>1, <3>1, MemoryConstants
    <3> QED
      BY <2>1, <3>2, ItemFields DEF Bounded, Stored
  <2> QED
    BY <2>1, <2>2 DEF LedgerIInv, Stored, RebuildSummary, Offered
<1>2. CASE /\ revision' = revision + 1
           /\ memory' = [i \in Items |-> memory'[i]]
           /\ \A i \in Items : memory'[i] = memory[i] \/ Moves(memory[i], memory'[i])
           /\ catalog' = RebuildSummary(memory')
  <2>1. ASSUME NEW i \in Items
        PROVE  memory'[i] \in Item /\ Bounded(i)' /\ (i \in Stored => i \in Stored')
    <3>1. /\ memory[i].pointer \in Nat /\ memory[i].retention \in Nat
          /\ memory[i].pointer <= revision /\ memory[i].retention <= revision
          /\ memory[i] \in Item /\ revision \in Nat
      BY ItemFields, MemoryConstants DEF Bounded
    <3>2. CASE memory'[i] = memory[i]
      <4>1. memory[i].pointer <= revision + 1 /\ memory[i].retention <= revision + 1
        BY <3>1
      <4> QED
        BY <1>2, <3>1, <3>2, <4>1, ItemFields DEF Bounded, Stored
    <3>3. CASE Moves(memory[i], memory'[i])
      <4>1. memory'[i].pointer \in Nat /\ memory'[i].retention \in Nat
        BY <3>3, MemoryConstants DEF Moves, Item
      <4>2. memory'[i].pointer <= revision + 1 /\ memory'[i].retention <= revision + 1
        <5>1. /\ memory'[i].pointer <= memory[i].pointer + 1
              /\ memory'[i].retention <= memory[i].retention + 1
          BY <3>3 DEF Moves
        <5> QED
          BY <3>1, <4>1, <5>1
      <4> QED
        BY <1>2, <3>3, <4>2 DEF Moves, Bounded, Stored
    <3> QED
      BY <1>2, <3>2, <3>3
  <2>2. revision' \in 0 .. MaxCommits
    BY DEF MemoryMoved
  <2>3. memory' \in [Items -> Item]
    BY <1>2, <2>1
  <2> QED
    BY <1>2, <2>1, <2>2, <2>3 DEF LedgerIInv, Stored, RebuildSummary, Offered
<1> QED
  BY <1>1, <1>2 DEF MemoryMoved

(* Edits that were read and not imported stay edits of their base.          *)
LEMMA EditsRest ==
  ASSUME LedgerIInv, MemoryMoved, NEW e, EditRests(e)
  PROVE  EditRests(e)'
<1> DEFINE i == e.item
<1>1. /\ e \in Edit /\ i \in Items /\ i \in Stored /\ e.pointer \in Nat
      /\ e.pointer <= memory[i].pointer
      /\ e.pointer = memory[i].pointer => e.base = memory[i].number
  BY MemoryConstants DEF EditRests, Edit
<1>2. memory[i].pointer \in Nat /\ memory[i].lifecycle # "absent"
  BY <1>1, ItemFields
<1>3. i \in Stored'
  BY <1>1, LedgerKeeps
<1>4. \/ memory'[i].pointer = memory[i].pointer /\ memory'[i].number = memory[i].number
      \/ memory'[i].pointer = memory[i].pointer + 1
  BY <1>1, <1>2 DEF MemoryMoved, ledger, Moves
<1> QED
  BY <1>1, <1>2, <1>3, <1>4 DEF EditRests

LEMMA RefreshedView ==
  ASSUME LedgerIInv, FilesIInv, NEW i \in Items
  PROVE  /\ Refreshed(i) \in View
         /\ Refreshed(i) # NoFile => Refreshed(i).text \in Texts
<1>1. /\ view[i] \in View /\ (view[i] # NoFile => view[i].text \in Texts)
  BY DEF FilesIInv
<1>2. CASE i \in Stored /\ (view[i] = NoFile \/ view[i].text = memory[i].text)
  <2>1. memory[i].number \in 0 .. MaxRevisions /\ memory[i].text \in Texts
    BY <1>2, ItemFields, MemoryConstants DEF Bounded
  <2> QED
    BY <1>2, <2>1 DEF Refreshed, View
<1>3. CASE ~(i \in Stored /\ (view[i] = NoFile \/ view[i].text = memory[i].text))
  BY <1>1, <1>3 DEF Refreshed
<1> QED
  BY <1>2, <1>3

(* Files that were written from the ledger.                                 *)
LEMMA FilesWritten ==
  ASSUME LedgerIInv, FilesIInv,
         view' = [i \in Items |-> Refreshed(i)],
         payload' = [i \in Items |-> memory[i].number]
  PROVE  /\ view' \in [Items -> View] /\ payload' \in Payloads
         /\ \A i \in Items : view'[i] # NoFile => view'[i].text \in Texts
<1>1. \A i \in Items : memory[i].number \in 0 .. MaxRevisions
  BY ItemFields DEF Item
<1> QED
  BY <1>1, RefreshedView DEF Payloads

LEMMA FilesKeep ==
  ASSUME MemoryIInv, MemoryMoved,
         FileStep \/ UNCHANGED <<files, edits>>
  PROVE  FilesIInv'
<1>i. LedgerIInv /\ FilesIInv
  BY DEF MemoryIInv
<1>r. \A e : EditRests(e) => EditRests(e)'
  BY <1>i, EditsRest
<1>t. ASSUME UNCHANGED files PROVE /\ view' \in [Items -> View] /\ payload' \in Payloads
                                   /\ \A i \in Items : view'[i] # NoFile => view'[i].text \in Texts
  BY <1>i, <1>t DEF FilesIInv, files
<1>e. ASSUME edits' \subseteq edits PROVE \A e \in edits' : EditRests(e)'
  BY <1>i, <1>r, <1>e DEF FilesIInv
<1>1. CASE Synchronize
  <2>1. /\ view' \in [Items -> View] /\ payload' \in Payloads
        /\ \A i \in Items : view'[i] # NoFile => view'[i].text \in Texts
    BY <1>i, <1>1, FilesWritten DEF Synchronize
  <2> QED
    BY <1>1, <1>e, <2>1 DEF Synchronize, FilesIInv
<1>2. CASE Reconcile
  <2>1. /\ view' \in [Items -> View] /\ payload' \in Payloads
        /\ \A i \in Items : view'[i] # NoFile => view'[i].text \in Texts
    BY <1>i, <1>2, FilesWritten DEF Reconcile
  <2>2. ASSUME NEW e \in ExternalEdits PROVE EditRests(e)
    <3>1. PICK j \in Stored :
            /\ view[j] # NoFile /\ view[j].base = memory[j].number
            /\ e = [item |-> j, pointer |-> memory[j].pointer, base |-> view[j].base,
                    text |-> view[j].text]
      BY DEF ExternalEdits
    <3>2. j \in Items /\ view[j].text \in Texts
      BY <1>i, <3>1 DEF Stored, FilesIInv
    <3>3. memory[j].pointer \in 0 .. MaxCommits /\ memory[j].number \in 0 .. MaxRevisions
      BY <1>i, <3>2, ItemFields DEF Item
    <3>4. e \in Edit /\ e.item = j /\ e.pointer = memory[j].pointer /\ e.base = memory[j].number
      BY <3>1, <3>2, <3>3 DEF Edit
    <3>5. e.pointer <= memory[e.item].pointer
      BY <3>3, <3>4, MemoryConstants
    <3> QED
      BY <3>4, <3>5 DEF EditRests
  <2>3. edits' = ExternalEdits
    BY <1>2 DEF Reconcile
  <2>4. \A e \in edits' : EditRests(e)'
    BY <1>r, <2>2, <2>3
  <2> QED
    BY <2>1, <2>4 DEF FilesIInv
<1>3. ASSUME NEW e \in edits, ImportEdit(e) \/ AbandonEdits(e) PROVE FilesIInv'
  <2>1. UNCHANGED files /\ edits' \subseteq edits
    BY <1>3 DEF ImportEdit, AbandonEdits
  <2> QED
    BY <1>t, <1>e, <2>1 DEF FilesIInv
<1>4. ASSUME NEW i \in Items, NEW t \in Texts, EditFile(i, t) PROVE FilesIInv'
  <2>1. view' = [view EXCEPT ![i].text = t] /\ UNCHANGED <<payload, edits>> /\ view[i] \in View
    BY <1>i, <1>4 DEF EditFile, FilesIInv
  <2>2. [view[i] EXCEPT !.text = t] \in View /\ [view[i] EXCEPT !.text = t].text = t
    BY <2>1 DEF View
  <2>3. view' = [view EXCEPT ![i] = [view[i] EXCEPT !.text = t]]
    BY <2>1
  <2>4. /\ view' \in [Items -> View]
        /\ \A j \in Items : view'[j] # NoFile => view'[j].text \in Texts
    BY <1>i, <2>2, <2>3 DEF FilesIInv
  <2> QED
    BY <1>i, <1>e, <2>1, <2>4 DEF FilesIInv
<1>5. ASSUME NEW i \in Items, DeleteFile(i) PROVE FilesIInv'
  <2>1. view' = [view EXCEPT ![i] = NoFile] /\ UNCHANGED <<payload, edits>> /\ NoFile \in View
    BY <1>5, MemoryConstants DEF DeleteFile, NoFile, View
  <2>2. /\ view' \in [Items -> View]
        /\ \A j \in Items : view'[j] # NoFile => view'[j].text \in Texts
    BY <1>i, <2>1 DEF FilesIInv
  <2> QED
    BY <1>i, <1>e, <2>1, <2>2 DEF FilesIInv
<1>6. CASE UNCHANGED <<files, edits>>
  BY <1>6, <1>t, <1>e DEF FilesIInv
<1> QED
  BY <1>1, <1>2, <1>3, <1>4, <1>5, <1>6 DEF FileStep

(* What the policy is about to move was stored when it was found.           *)
LEMMA DecaysKeep ==
  ASSUME MemoryIInv, CuratorIInv, Stored \subseteq Stored', [Next]_vars
  PROVE  DecaysIInv'
<1>i. DecaysIInv /\ TaskIInv
  BY DEF MemoryIInv, CuratorIInv
<1>1. ASSUME maintenance'.decays \subseteq maintenance.decays PROVE DecaysIInv'
  BY <1>i, <1>1 DEF DecaysIInv
<1>2. \A place : GoTo(place) => maintenance'.decays = maintenance.decays
  BY <1>i DEF TaskIInv, GoTo
<1>3. Stop => maintenance'.decays = {}
  BY DEF Stop, Idle
<1>4. \A a, b : Window(a, b) => maintenance'.decays = {}
  BY DEF Window
<1>5. ASSUME ScanRetention PROVE DecaysIInv'
  <2>1. PICK S \in SUBSET Decaying :
        maintenance' = IF S = {} THEN Idle ELSE
             [Idle EXCEPT !.at = "decay",
                 !.decays = {[item |-> i, retention |-> memory[i].retention,
                              tier |-> Colder(memory[i].tier)] : i \in S}]
    BY <1>5 DEF ScanRetention
  <2> DEFINE D == {[item |-> i, retention |-> memory[i].retention,
                    tier |-> Colder(memory[i].tier)] : i \in S}
             first == [Idle EXCEPT !.at = "decay"]
  <2>2. \A d \in D : d.item \in Stored
    BY DEF Decaying
  <2>3. first = [at |-> "decay", start |-> 0, end |-> 0, decays |-> {}]
    BY DEF Idle
  <2>4. maintenance' = Idle \/ maintenance' = [first EXCEPT !.decays = D]
    BY <2>1 DEF Idle
  <2> HIDE DEF D, first
  <2>5. maintenance'.decays \in {{}, D}
    BY <2>3, <2>4 DEF Idle
  <2> QED
    BY <2>2, <2>5 DEF DecaysIInv
<1>6. ASSUME CuratorStep PROVE DecaysIInv'
  <2>1. CASE RecoverInterrupted \/ SetContribution \/ NewMessage \/ EndTurn
    <3>1. UNCHANGED maintenance
      BY <2>1 DEF RecoverInterrupted, SetContribution, NewMessage, EndTurn
    <3> QED
      BY <1>1, <3>1
  <2>2. CASE DiscoverWindow
    BY <1>1, <1>4, <2>2 DEF DiscoverWindow, Choose
  <2>3. CASE Enqueue \/ PrepareAttempt \/ MarkDispatchStarted \/ Fail \/ FinalizeWindow
             \/ ApplyRetention \/ CuratorDies
    <3>1. Stop \/ \E place : GoTo(place)
      BY <2>3 DEF Enqueue, PrepareAttempt, MarkDispatchStarted, Fail, FinalizeWindow,
         ApplyRetention, CuratorDies
    <3> QED
      BY <1>1, <1>2, <1>3, <3>1
  <2> QED
    BY <1>5, <1>6, <2>1, <2>2, <2>3 DEF CuratorStep, RunOnce, FinishesWindow
<1>7. CuratorStep \/ UNCHANGED maintenance
  BY DEF Next, TurnStep, vars, curatorVars
<1> QED
  BY <1>1, <1>6, <1>7

LEMMA MemoryBegins == Init => MemoryIInv
<1> SUFFICES ASSUME Init PROVE MemoryIInv
  OBVIOUS
<1>1. /\ revision = 0 /\ catalog = {} /\ edits = {} /\ maintenance.decays = {}
      /\ memory = [i \in Items |-> Absent] /\ view = [i \in Items |-> NoFile]
      /\ payload = [i \in Items |-> 0]
  BY DEF Init, NothingCommitted, MemoryInit, CuratorInit, Idle
<1>2. Absent \in Item /\ NoFile \in View
  BY MemoryConstants DEF Absent, Item, NoFile, View, Lifecycles, Tiers
<1>3. \A i \in Items : /\ memory[i].lifecycle = "absent" /\ memory[i].pointer = 0
                       /\ memory[i].retention = 0 /\ memory[i].successor = None
  BY <1>1 DEF Absent
<1>4. Stored = {} /\ RebuildSummary(memory) = {}
  BY <1>3 DEF Stored, RebuildSummary, Offered
<1>5. \A i \in Items : Bounded(i)
  BY <1>1, <1>3, <1>4 DEF Bounded
<1>6. LedgerIInv
  BY <1>1, <1>2, <1>4, <1>5, MemoryConstants DEF LedgerIInv
<1>7. FilesIInv
  BY <1>1, <1>2, MemoryConstants DEF FilesIInv, Payloads
<1> QED
  BY <1>1, <1>6, <1>7 DEF MemoryIInv, DecaysIInv

LEMMA MemoryInductive == Spec => []MemoryIInv
<1>1. MemoryIInv /\ CuratorIInv /\ [Next]_vars => MemoryIInv'
  <2> SUFFICES ASSUME MemoryIInv, CuratorIInv, [Next]_vars PROVE MemoryIInv'
    OBVIOUS
  <2>1. MemoryMoved
    BY MemoryMoves
  <2>2. LedgerIInv' /\ Stored \subseteq Stored'
    BY <2>1, LedgerKeeps DEF MemoryIInv
  <2>3. FileStep \/ UNCHANGED <<files, edits>>
    BY DEF Next, vars, MemoryCommand, CuratorStep, RunOnce, FinishesWindow, SkillStep,
       KnowledgeStep, TurnStep, files
  <2> QED
    BY <2>1, <2>2, <2>3, FilesKeep, DecaysKeep DEF MemoryIInv
<1> QED
  BY <1>1, MemoryBegins, CuratorInductive, PTL DEF Spec

(* A replaced memory stays in the archive, and the catalogue a turn is      *)
(* routed by lists current revisions in use and nothing else                *)
(* (memory_store.py set_access_tier, supersede, _rebuild_summary_rows).     *)
THEOREM ReplacedIsArchivedHolds == Spec => []ReplacedIsArchived
<1>1. MemoryIInv => ReplacedIsArchived
  <2> SUFFICES ASSUME MemoryIInv PROVE ReplacedIsArchived
    OBVIOUS
  <2>1. /\ \A i \in Items : memory[i].successor # None => memory[i].tier = "archived"
        /\ catalog = RebuildSummary(memory)
    BY DEF MemoryIInv, LedgerIInv, Bounded
  <2>2. ASSUME NEW e \in catalog
        PROVE  /\ memory[e[1]].lifecycle = "active"
               /\ memory[e[1]].successor = None
               /\ memory[e[1]].number = e[2]
    <3>1. PICK i \in Offered(memory) : e = <<i, memory[i].number>>
      BY <2>1 DEF RebuildSummary
    <3> QED
      BY <3>1 DEF Offered
  <2> QED
    BY <2>1, <2>2 DEF ReplacedIsArchived
<1> QED
  BY <1>1, MemoryInductive, PTL

(* What a context tells was found in the ledger, and what the last step was *)
(* told has not become newer than the ledger.                               *)
ContextIInv ==
    /\ \A r \in recalled \cup draft.memories : r.item \in Items
    /\ \A r \in frozen.memories :
          /\ r.item \in Stored
          /\ r.number \in Nat /\ r.number <= memory[r.item].number
    /\ \A r, s \in frozen.memories : r.item = s.item => r.number = s.number

(* Revisions are only added: what is not newer than the ledger stays so.    *)
LEMMA NumbersGrow ==
  ASSUME LedgerIInv, MemoryMoved, NEW i \in Stored, NEW n \in Nat, n <= memory[i].number
  PROVE  i \in Stored' /\ n <= memory'[i].number
<1>0. /\ i \in Items /\ memory[i].number \in Nat /\ memory[i].lifecycle # "absent"
      /\ i \in Stored'
  BY LedgerKeeps, ItemFields DEF Stored
<1>1. CASE memory'[i] = memory[i]
  BY <1>0, <1>1
<1>2. CASE Moves(memory[i], memory'[i])
  <2>1. /\ memory'[i].number \in Nat
        /\ memory'[i].number = memory[i].number \/ memory'[i].number >= memory[i].number
    BY <1>0, <1>2, MemoryConstants DEF Moves
  <2> QED
    BY <1>0, <2>1
<1> QED
  BY <1>0, <1>1, <1>2 DEF MemoryMoved, ledger

(* What a step is told next to what the one before it was.                  *)
Tells(before, after) ==
    \A r \in before.memories \cup after.memories, s \in after.memories :
        r.item = s.item => r.number <= s.number

LEMMA ContextKeeps ==
  ASSUME LedgerIInv, ContextIInv, [Next]_vars, MemoryMoved
  PROVE  ContextIInv' /\ Tells(frozen, frozen')
<1>1. ASSUME UNCHANGED frozen, \A r \in recalled' \cup draft'.memories : r.item \in Items
      PROVE  ContextIInv' /\ Tells(frozen, frozen')
  <2>1. \A r \in frozen.memories :
           /\ r.item \in Stored'
           /\ r.number \in Nat /\ r.number <= memory'[r.item].number
    BY NumbersGrow DEF ContextIInv
  <2>2. \A r, s \in frozen.memories : r.item = s.item => r.number <= s.number
    BY DEF ContextIInv
  <2> QED
    BY <1>1, <2>1, <2>2 DEF ContextIInv, Tells
<1>r. ASSUME NEW i \in Items, NEW way PROVE Ref(i, way).item \in Items
  BY DEF Ref
<1>2. CASE FreezeStep /\ UNCHANGED ledger
  <2>1. /\ frozen' = draft /\ draft' = NoContext /\ recalled' = recalled /\ memory' = memory
    BY <1>2 DEF FreezeStep, ledger
  <2>2. ASSUME NEW r \in draft.memories
        PROVE  /\ r.item \in Stored /\ r.number = memory[r.item].number
               /\ r.number \in Nat
    <3>1. /\ r.item \in Items /\ memory[r.item].lifecycle = "active"
          /\ r.number = memory[r.item].number
      BY <1>2 DEF FreezeStep, Freezable, CurrentMemory, ContextIInv
    <3> QED
      BY <3>1, ItemFields DEF Stored
  <2>3. Stored' = Stored
    BY <2>1 DEF Stored
  <2>4. \A r \in recalled' \cup draft'.memories : r.item \in Items
    BY <2>1 DEF ContextIInv, NoContext
  <2>5. ASSUME NEW r \in frozen.memories \cup draft.memories, NEW s \in draft.memories,
               r.item = s.item
        PROVE  r.number <= s.number
    BY <2>2, <2>5 DEF ContextIInv
  <2>6. Tells(frozen, frozen')
    BY <2>1, <2>5 DEF Tells
  <2>7. /\ \A r \in frozen'.memories :
              /\ r.item \in Stored'
              /\ r.number \in Nat /\ r.number <= memory'[r.item].number
        /\ \A r, s \in frozen'.memories : r.item = s.item => r.number = s.number
    BY <2>1, <2>2, <2>3
  <2> QED
    BY <2>4, <2>6, <2>7 DEF ContextIInv
<1>3. CASE TurnStep /\ ~FreezeStep
  <2>1. CASE \/ \E b \in BOOLEAN, hits \in SUBSET Items : MemorySearch(b, hits)
             \/ \E i \in Items, b \in BOOLEAN : MemoryOpen(i, b)
    <3>1. /\ UNCHANGED <<draft, frozen>>
          /\ \A r \in recalled' : r \in recalled \/ (\E i \in Items, way \in Ways : r = Ref(i, way))
      BY <2>1 DEF MemorySearch, MemoryOpen, Ways
    <3> QED
      BY <1>1, <1>r, <3>1 DEF ContextIInv
  <2>2. CASE Compile
    <3>1. PICK S \in Recommended, hits \in Prefetched : draft' = Compiled(S, hits)
      BY <2>2 DEF Compile
    <3>2. S \subseteq Items
      BY <3>1 DEF Recommended, Offered
    <3>3. draft'.memories = {Ref(i, "recommended") : i \in S} \cup recalled
      BY <3>1 DEF Compiled
    <3>4. UNCHANGED <<recalled, frozen>>
      BY <2>2 DEF Compile
    <3> QED
      BY <1>1, <1>r, <3>2, <3>3, <3>4 DEF ContextIInv
  <2>3. CASE \/ \E hits \in SUBSET extracted : ConsultKnowledge(hits)
             \/ LoadSkill \/ RefuseStep \/ SetUseMemory
    <3>1. UNCHANGED <<recalled, frozen>> /\ draft' \in {draft, NoContext}
      BY <2>3 DEF ConsultKnowledge, LoadSkill, RefuseStep, SetUseMemory
    <3> QED
      BY <1>1, <3>1 DEF ContextIInv, NoContext
  <2> QED
    BY <1>3, <2>1, <2>2, <2>3 DEF TurnStep
<1>4. CASE ~TurnStep
  <2>1. UNCHANGED turnVars
    BY <1>4 DEF Next, vars, MemoryCommand, CuratorStep, SkillStep
  <2> QED
    BY <1>1, <2>1 DEF turnVars, ContextIInv
<1> QED
  BY <1>2, <1>3, <1>4 DEF TurnStep

(* A context names one revision of a memory, and none that is older than    *)
(* the one a step before it was told, although the results of the memory    *)
(* tools stay in the context while the item is revised (model_gateway_store.*)
(* py freeze_step).  Revisions of an item are only added, and what was told *)
(* was the newest when it was frozen.                                       *)
THEOREM ContextsNeverGoBackHolds == Spec => ContextsNeverGoBack
<1>1. Init => ContextIInv
  BY DEF Init, ContextInit, NoContext, ContextIInv
<1>2. MemoryIInv /\ ContextIInv /\ [Next]_vars => ContextIInv' /\ Tells(frozen, frozen')
  BY MemoryMoves, ContextKeeps DEF MemoryIInv
<1> DEFINE A == Tells(frozen, frozen')
<1>3. Spec => [][A]_vars
  <2> HIDE DEF A
  <2>1. MemoryIInv /\ ContextIInv /\ [Next]_vars => ContextIInv' /\ A
    BY <1>2 DEF A
  <2> QED
    BY <1>1, <2>1, MemoryInductive, PTL DEF Spec
<1> QED
  BY <1>3 DEF ContextsNeverGoBack, Tells

(* An edit of a file is imported only on top of the revision it edited:     *)
(* what another thread committed since the files were read is not buried    *)
(* (filesystem_memory.py reconcile_external_edits).                         *)
THEOREM EditsFollowTheirBaseHolds == Spec => EditsFollowTheirBase
<1> DEFINE A == \A e \in edits : ImportEdit(e) => memory[e.item].number = e.base
<1>1. MemoryIInv => A
  <2> SUFFICES ASSUME MemoryIInv, NEW e \in edits, ImportEdit(e)
               PROVE  memory[e.item].number = e.base
    OBVIOUS
  <2>1. EditRests(e)
    BY DEF MemoryIInv, FilesIInv
  <2>2. memory[e.item].pointer = e.pointer
    BY DEF ImportEdit, Revise, PointsAt
  <2> QED
    BY <2>1, <2>2 DEF EditRests
<1> HIDE DEF A
<1>2. Spec => [][A]_<<revision, memory, catalog, view, payload, edits>>
  BY <1>1, MemoryInductive, PTL
<1> QED
  BY <1>2 DEF EditsFollowTheirBase, A

-----------------------------------------------------------------------------
(* Skills.                                                                  *)

(* A plan of a change names the version the change was judged against.      *)
PlanRests(p) ==
    /\ p \in Plan
    /\ p.kind = "evolution" => p.target \in Candidates
    /\ p.kind = "change" => /\ p.target \in Changes
                            /\ change[p.target].decision # "absent"
                            /\ change[p.target].base = p.base

SkillsIInv ==
    /\ evolution \in [Candidates -> Evolution]
    /\ change \in [Changes -> Change]
    /\ adoption \in Adoption
    /\ adoption.status = "active" => adoption.current \in Versions
    /\ versions \subseteq Versions
    /\ proposals \subseteq Versions
    /\ \A p \in publishing : PlanRests(p)

(* A candidate is decided about.                                            *)
LEMMA EvolutionDecided ==
  ASSUME evolution \in [Candidates -> Evolution], NEW c \in Candidates, NEW d \in Decisions,
         evolution' = [evolution EXCEPT ![c].decision = d, ![c].pointer = @ + 1]
  PROVE  /\ evolution' \in [Candidates -> Evolution]
         /\ evolution'[c].decision = d
         /\ \A x \in Candidates : x # c => evolution'[x] = evolution[x]
<1> DEFINE f == [evolution EXCEPT ![c].decision = d]
           r == [evolution[c] EXCEPT !.decision = d]
<1>1. r \in Evolution /\ r.decision = d /\ r.pointer = evolution[c].pointer
  BY DEF Evolution
<1>2. f = [evolution EXCEPT ![c] = r]
  OBVIOUS
<1>3. evolution' = [f EXCEPT ![c].pointer = evolution[c].pointer + 1]
  OBVIOUS
<1> HIDE DEF f, r
<1>4. f \in [Candidates -> Evolution] /\ f[c] = r /\ \A x \in Candidates : x # c => f[x] = evolution[x]
  BY <1>1, <1>2
<1>5. evolution[c].pointer + 1 \in Nat
  BY DEF Evolution
<1>6. evolution' = [f EXCEPT ![c] = [r EXCEPT !.pointer = evolution[c].pointer + 1]]
  BY <1>3, <1>4
<1>7. /\ [r EXCEPT !.pointer = evolution[c].pointer + 1] \in Evolution
      /\ [r EXCEPT !.pointer = evolution[c].pointer + 1].decision = d
  BY <1>1, <1>5 DEF Evolution
<1> QED
  BY <1>4, <1>6, <1>7

LEMMA ChangeDecided ==
  ASSUME change \in [Changes -> Change], NEW k \in Changes, NEW d \in Decisions,
         change' = [change EXCEPT ![k].decision = d, ![k].pointer = @ + 1]
  PROVE  /\ change' \in [Changes -> Change]
         /\ change'[k].decision = d /\ change'[k].base = change[k].base
         /\ \A x \in Changes : x # k => change'[x] = change[x]
<1> DEFINE f == [change EXCEPT ![k].decision = d]
           r == [change[k] EXCEPT !.decision = d]
<1>1. r \in Change /\ r.decision = d /\ r.base = change[k].base
  BY DEF Change
<1>2. f = [change EXCEPT ![k] = r]
  OBVIOUS
<1>3. change' = [f EXCEPT ![k].pointer = change[k].pointer + 1]
  OBVIOUS
<1> HIDE DEF f, r
<1>4. f \in [Changes -> Change] /\ f[k] = r /\ \A x \in Changes : x # k => f[x] = change[x]
  BY <1>1, <1>2
<1>5. change[k].pointer + 1 \in Nat
  BY DEF Change
<1>6. change' = [f EXCEPT ![k] = [r EXCEPT !.pointer = change[k].pointer + 1]]
  BY <1>3, <1>4
<1>7. /\ [r EXCEPT !.pointer = change[k].pointer + 1] \in Change
      /\ [r EXCEPT !.pointer = change[k].pointer + 1].decision = d
      /\ [r EXCEPT !.pointer = change[k].pointer + 1].base = change[k].base
  BY <1>1, <1>5 DEF Change
<1> QED
  BY <1>4, <1>6, <1>7

(* What a step may do to the candidates of the curator, ...                 *)
EvolutionMoved ==
    /\ evolution' \in [Candidates -> Evolution]
    /\ \A c \in Candidates :
          \/ evolution'[c] = evolution[c]
          \/ /\ evolution[c].decision \in {"absent", "proposed", "approved"}
             /\ evolution'[c].decision = "activated" => SourcesAreCurrent(c)

(* ... to changes and to what is adopted, ...                               *)
ChangeMoved ==
    /\ change' \in [Changes -> Change]
    /\ \A k \in Changes :
          \/ change'[k] = change[k]
          \/ /\ change[k].decision \in {"absent", "proposed"}
             /\ change'[k].decision # "absent"
             /\ change[k].decision # "absent" => change'[k].base = change[k].base
             /\ change'[k].decision = "activated" =>
                   IsCurrent(change[k].base) /\ adoption'.current = k

AdoptionMoved ==
    /\ adoption' \in Adoption
    /\ adoption'.status = "active" => adoption'.current \in Versions
    /\ versions' \subseteq Versions /\ proposals' \subseteq Versions

(* ... and to the plans.                                                    *)
PlansMoved ==
    \A p \in publishing' :
       \/ p \in publishing
       \/ PlanRests(p)
       \/ \E q \in publishing : p = [q EXCEPT !.published = TRUE]
       \/ p \in Plan /\ p.kind = "evolution" /\ p.target \in Candidates

SkillsMoved == EvolutionMoved /\ ChangeMoved /\ AdoptionMoved /\ PlansMoved

LEMMA SkillsKept ==
  ASSUME SkillsIInv, SkillsMoved
  PROVE  SkillsIInv'
<1>1. ASSUME NEW p, PlanRests(p) PROVE PlanRests(p)'
  BY <1>1 DEF PlanRests, SkillsMoved, ChangeMoved
<1>2. ASSUME NEW p \in publishing' PROVE PlanRests(p)'
  <2>1. CASE p \in publishing \/ PlanRests(p)
    BY <1>1, <2>1 DEF SkillsIInv
  <2>2. ASSUME NEW q \in publishing, p = [q EXCEPT !.published = TRUE] PROVE PlanRests(p)
    <3>1. PlanRests(q)
      BY DEF SkillsIInv
    <3>2. /\ p \in Plan /\ p.kind = q.kind /\ p.target = q.target /\ p.base = q.base
      BY <2>2, <3>1 DEF PlanRests, Plan
    <3> QED
      BY <3>1, <3>2 DEF PlanRests
  <2>3. CASE p \in Plan /\ p.kind = "evolution" /\ p.target \in Candidates
    BY <2>3 DEF PlanRests
  <2> QED
    BY <1>1, <2>1, <2>2, <2>3 DEF SkillsMoved, PlansMoved
<1> QED
  BY <1>2 DEF SkillsIInv, SkillsMoved, EvolutionMoved, ChangeMoved, AdoptionMoved

(* Steps that leave parts of it alone.                                      *)
LEMMA SkillsRest ==
  ASSUME SkillsIInv
  PROVE  /\ UNCHANGED evolution => EvolutionMoved
         /\ UNCHANGED change => ChangeMoved
         /\ UNCHANGED <<adoption, versions, proposals>> => AdoptionMoved
         /\ publishing' \subseteq publishing => PlansMoved
BY DEF SkillsIInv, EvolutionMoved, ChangeMoved, AdoptionMoved, PlansMoved

LEMMA PlanAdded ==
  ASSUME SkillsIInv, NEW kind \in Kinds, NEW target \in Versions, NEW pointer \in Nat,
         NEW base \in Versions \cup {None}, NewPlan(kind, target, pointer, base)
  PROVE  \A p \in publishing' :
            \/ p \in publishing
            \/ p \in Plan /\ p.kind = kind /\ p.target = target /\ p.base = base
<1> DEFINE n == [kind |-> kind, target |-> target, pointer |-> pointer, base |-> base,
                 adoption |-> adoption.pointer, published |-> FALSE]
<1>1. adoption.pointer \in Nat
  BY DEF SkillsIInv, Adoption
<1>2. n \in Plan /\ n.kind = kind /\ n.target = target /\ n.base = base
  BY <1>1 DEF Plan
<1>3. publishing' = publishing \cup {n}
  BY DEF NewPlan
<1> HIDE DEF n
<1> QED
  BY <1>2, <1>3

LEMMA ApproveMoves ==
  ASSUME SkillsIInv, NEW c \in Candidates, Approve(c)
  PROVE  SkillsMoved
<1>1. evolution[c] \in Evolution /\ evolution[c].pointer \in Nat /\ evolution[c].pointer + 1 \in Nat
      /\ c \in Versions
  BY DEF SkillsIInv, Evolution, Versions
<1>2. ChangeMoved /\ AdoptionMoved
  BY SkillsRest DEF Approve
<1>3. PlansMoved
  <2>1. PICK n \in Nat : NewPlan("evolution", c, n, None)
    BY <1>1 DEF Approve
  <2> QED
    BY <1>1, <2>1, PlanAdded DEF PlansMoved, Kinds
<1>4. EvolutionMoved
  <2>1. CASE evolution[c].decision = "proposed" /\ evolution' = [evolution EXCEPT ![c].decision = "approved",
                                            ![c].pointer = @ + 1]
    BY <2>1, EvolutionDecided DEF SkillsIInv, EvolutionMoved, Decisions
  <2>2. CASE UNCHANGED evolution
    BY <2>2, SkillsRest
  <2> QED
    BY <2>1, <2>2 DEF Approve
<1> QED
  BY <1>2, <1>3, <1>4 DEF SkillsMoved

LEMMA DecideMoves ==
  ASSUME SkillsIInv,
         \/ \E c \in Candidates : RejectEvolution(c)
         \/ \E k \in Changes : RejectChange(k)
         \/ \E k \in Changes, v \in Versions : Materialize(k, v)
         \/ \E v \in Versions : Evaluate(v) \/ Judge(v)
  PROVE  SkillsMoved
<1>1. ASSUME NEW c \in Candidates, RejectEvolution(c) PROVE SkillsMoved
  <2>1. EvolutionMoved
    BY <1>1, EvolutionDecided DEF RejectEvolution, SkillsIInv, EvolutionMoved, Decisions
  <2> QED
    BY <1>1, <2>1, SkillsRest DEF RejectEvolution, SkillsMoved
<1>2. ASSUME NEW k \in Changes, RejectChange(k) PROVE SkillsMoved
  <2>1. ChangeMoved
    BY <1>2, ChangeDecided DEF RejectChange, SkillsIInv, ChangeMoved, Decisions
  <2> QED
    BY <1>2, <2>1, SkillsRest DEF RejectChange, SkillsMoved
<1>3. ASSUME NEW k \in Changes, NEW v \in Versions, Materialize(k, v) PROVE SkillsMoved
  <2>1. ChangeMoved
    <3>1. /\ change' = [change EXCEPT ![k] = [decision |-> "proposed", pointer |-> 1, base |-> v]]
          /\ change[k].decision = "absent" /\ change \in [Changes -> Change]
      BY <1>3 DEF Materialize, SkillsIInv
    <3> QED
      BY <3>1 DEF ChangeMoved, Change, Decisions
  <2> QED
    BY <1>3, <2>1, SkillsRest DEF Materialize, SkillsMoved
<1>4. ASSUME NEW v \in Versions, Evaluate(v) \/ Judge(v) PROVE SkillsMoved
  <2>1. AdoptionMoved
    BY <1>4 DEF Evaluate, Judge, SkillsIInv, AdoptionMoved
  <2> QED
    BY <1>4, <2>1, SkillsRest DEF Evaluate, Judge, SkillsMoved
<1> QED
  BY <1>1, <1>2, <1>3, <1>4

LEMMA PrepareMoves ==
  ASSUME SkillsIInv,
         \/ \E k \in Changes : PrepareChange(k)
         \/ \E v \in Versions : PrepareRollback(v)
         \/ PrepareDeactivation
  PROVE  SkillsMoved
<1>0. UNCHANGED <<evolution, change, adoption, versions, proposals>>
  BY DEF PrepareChange, PrepareRollback, PrepareDeactivation, skillLedger
<1>1. ASSUME NEW k \in Changes, PrepareChange(k) PROVE PlansMoved
  <2>1. change[k] \in Change /\ k \in Versions
    BY DEF SkillsIInv, Versions
  <2>2. /\ change[k].pointer \in Nat /\ change[k].base \in Versions \cup {None}
        /\ change[k].decision = "proposed"
        /\ NewPlan("change", k, change[k].pointer, change[k].base)
    BY <1>1, <2>1 DEF PrepareChange, Change
  <2> QED
    BY <2>1, <2>2, PlanAdded DEF PlansMoved, PlanRests, Kinds
<1>2. ASSUME NEW v \in Versions, NEW kind \in {"rollback", "deactivate"},
             NewPlan(kind, v, 0, None)
      PROVE  PlansMoved
  BY <1>2, PlanAdded DEF PlansMoved, PlanRests, Kinds
<1>3. PlansMoved
  BY <1>1, <1>2 DEF PrepareRollback, PrepareDeactivation, SkillsIInv
<1> QED
  BY <1>0, <1>3, SkillsRest DEF SkillsMoved

LEMMA FinalizeSkillMoves ==
  ASSUME SkillsIInv, NEW p \in publishing, Finalize(p)
  PROVE  SkillsMoved
<1>1. PlanRests(p) /\ p \in Plan /\ p.target \in Versions
  BY DEF SkillsIInv, PlanRests, Plan
<1>2. publishing' \subseteq publishing /\ UNCHANGED proposals
  BY DEF Finalize
<1>3. ASSUME NEW v \in Versions, Adopt(v), versions' \subseteq versions \cup {v}
      PROVE  AdoptionMoved /\ adoption'.current = v
  BY <1>2, <1>3 DEF Adopt, AdoptionMoved, SkillsIInv, Adoption
<1>4. CASE FinalizeEvolution(p)
  <2>1. /\ p.target \in Candidates /\ SourcesAreCurrent(p.target)
        /\ evolution[p.target].decision = "approved"
        /\ evolution' = [evolution EXCEPT ![p.target].decision = "activated",
                                          ![p.target].pointer = @ + 1]
    BY <1>1, <1>4 DEF FinalizeEvolution, ActivatesEvolution, PlanRests
  <2>2. EvolutionMoved
    BY <2>1, EvolutionDecided DEF SkillsIInv, EvolutionMoved, Decisions
  <2>3. AdoptionMoved /\ UNCHANGED change
    BY <1>1, <1>3, <1>4 DEF FinalizeEvolution
  <2> QED
    BY <1>2, <2>2, <2>3, SkillsRest DEF SkillsMoved
<1>5. CASE FinalizeChange(p)
  <2>1. /\ p.target \in Changes /\ IsCurrent(change[p.target].base)
        /\ change[p.target].decision = "proposed"
        /\ change' = [change EXCEPT ![p.target].decision = "activated",
                                    ![p.target].pointer = @ + 1]
    BY <1>1, <1>5 DEF FinalizeChange, ActivatesChange, PlanRests
  <2>2. AdoptionMoved /\ adoption'.current = p.target /\ UNCHANGED evolution
    BY <1>1, <1>3, <1>5 DEF FinalizeChange
  <2>3. ChangeMoved
    BY <2>1, <2>2, ChangeDecided DEF SkillsIInv, ChangeMoved, Decisions
  <2> QED
    BY <1>2, <2>2, <2>3, SkillsRest DEF SkillsMoved
<1>6. CASE FinalizeRollback(p)
  BY <1>1, <1>2, <1>3, <1>6, SkillsRest DEF FinalizeRollback, SkillsMoved, SkillsIInv
<1>7. CASE FinalizeDeactivation(p)
  <2>1. AdoptionMoved
    BY <1>2, <1>7 DEF FinalizeDeactivation, AdoptionMoved, SkillsIInv, Adoption
  <2> QED
    BY <1>2, <1>7, <2>1, SkillsRest DEF FinalizeDeactivation, SkillsMoved
<1> QED
  BY <1>4, <1>5, <1>6, <1>7 DEF Finalize

(* The curator proposes a candidate from memories that are in use.          *)
LEMMA ProposalMoves ==
  ASSUME SkillsIInv, LedgerIInv, NEW c \in Candidates, NEW items \in SUBSET Items,
         evolution' = Proposed(c, items)
  PROVE  EvolutionMoved
<1> DEFINE r == [decision |-> "proposed", pointer |-> 1,
                 sources |-> {<<i, memory[i].number>> : i \in items}]
<1>1. CASE /\ evolution' = [evolution EXCEPT ![c] = r]
           /\ evolution[c].decision = "absent"
           /\ \A i \in items : memory[i].lifecycle = "active"
  <2>1. \A i \in items : i \in Items /\ memory[i].number \in 1 .. MaxRevisions
    BY <1>1, ItemFields DEF Bounded
  <2>2. {<<i, memory[i].number>> : i \in items} \in SUBSET Sources
    BY <2>1 DEF Sources
  <2>3. r \in Evolution /\ r.decision = "proposed"
    BY <2>2 DEF Evolution, Decisions
  <2> HIDE DEF r
  <2> QED
    BY <1>1, <2>3 DEF EvolutionMoved, SkillsIInv
<1>2. CASE UNCHANGED evolution
  BY <1>2, SkillsRest
<1> QED
  BY <1>1, <1>2 DEF Proposed

LEMMA SkillsMove ==
  ASSUME SkillsIInv, LedgerIInv, [Next]_vars
  PROVE  SkillsMoved
<1>1. CASE SkillStep
  <2>1. ASSUME NEW p \in publishing, Publish(p) \/ Abandon(p) PROVE SkillsMoved
    <3>1. UNCHANGED <<evolution, change, adoption, versions, proposals>>
      BY <2>1 DEF Publish, Abandon, skillLedger
    <3>2. PlansMoved
      BY <2>1 DEF Publish, Abandon, PlansMoved
    <3> QED
      BY <3>1, <3>2, SkillsRest DEF SkillsMoved
  <2> QED
    BY <1>1, <2>1, ApproveMoves, DecideMoves, PrepareMoves, FinalizeSkillMoves DEF SkillStep
<1>2. CASE FinishesWindow
  <2>1. EvolutionMoved
    <3>1. UNCHANGED evolution \/ \E c \in Candidates, items \in SUBSET Items : evolution' = Proposed(c, items)
      BY <1>2 DEF FinishesWindow, FinalizeWindow
    <3> QED
      BY <3>1, ProposalMoves, SkillsRest
  <2> QED
    BY <1>2, <2>1, SkillsRest DEF FinishesWindow, SkillsMoved
<1>3. CASE UNCHANGED skillVars
  BY <1>3, SkillsRest DEF skillVars, skillLedger, SkillsMoved
<1>4. SkillStep \/ FinishesWindow \/ UNCHANGED skillVars
  BY DEF Next, vars, CuratorStep, RunOnce, TurnStep
<1> QED
  BY <1>1, <1>2, <1>3, <1>4

LEMMA SkillsInductive == Spec => []SkillsIInv
<1>1. Init => SkillsIInv
  BY DEF Init, SkillsInit, SkillsIInv, Evolution, Change, Adoption, Decisions, Versions
<1>2. SkillsIInv /\ LedgerIInv /\ [Next]_vars => SkillsIInv'
  BY SkillsMove, SkillsKept
<1>3. MemoryIInv => LedgerIInv
  BY DEF MemoryIInv
<1> QED
  BY <1>1, <1>2, <1>3, MemoryInductive, PTL DEF Spec

(* What was decided about a candidate stays decided, whatever commands were  *)
(* prepared before (skill_change_store.py and skill_evolution_store.py      *)
(* finalize_activation, reject).                                            *)
THEOREM SkillDecisionsAreFinalHolds == Spec => SkillDecisionsAreFinal
<1> DEFINE A ==
       /\ \A k \in Changes :
            change[k].decision \in {"activated", "rejected"}
            => change'[k].decision = change[k].decision
       /\ \A c \in Candidates :
            evolution[c].decision \in {"activated", "rejected"}
            => evolution'[c].decision = evolution[c].decision
<1>1. SkillsIInv /\ LedgerIInv /\ [Next]_vars => A
  BY SkillsMove DEF SkillsMoved, EvolutionMoved, ChangeMoved
<1>2. MemoryIInv => LedgerIInv
  BY DEF MemoryIInv
<1> HIDE DEF A
<1>3. Spec => [][A]_<<revision, memory, skillVars>>
  BY <1>1, <1>2, MemoryInductive, SkillsInductive, PTL DEF Spec
<1> QED
  BY <1>3 DEF SkillDecisionsAreFinal, A
=============================================================================
