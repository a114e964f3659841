--------------------------- MODULE ResearchProofs ---------------------------
(***************************************************************************)
(* Proofs about what a turn does to the research of its Workspace, for any *)
(* number of turns, paths, data versions, results, documents and programs: *)
(* adoptions, deliveries, returned documents and confirmed outputs, with   *)
(* calls that outlive their turn.                                          *)
(***************************************************************************)
EXTENDS AnalysisOutputs, TLAPS

-----------------------------------------------------------------------------
(* What a call holds.                                                      *)

OnPath == {"create", "adoptPlan", "branch", "complete", "adoptData", "adoptResult",
           "export", "deliver", "render"}
OfResult == {"adoptData", "adoptResult", "export", "deliver", "render"}

(* The working document of the path has not moved past what a rendering or  *)
(* a return read; and where it did not move, it was there when the making   *)
(* of the new one began.                                                    *)
ReadBefore(c, at) == c.working \in Nat /\ c.working <= at[c.path]["working"].pointer
Seen(c, at) ==
    /\ c.begun \in Nat
    /\ at[c.path]["working"].pointer = c.working =>
          \/ at[c.path]["working"].target = None
          \/ at[c.path]["working"].target <= c.begun

CallOK(c, known, revisions, at) ==
    /\ c.step \in OnPath => c.path \in known
    /\ c.step = "create" => c.text \in Contents /\ c.parent \in Nat \cup {None}
    /\ c.step = "adoptPlan" => c.target \in revisions
    /\ c.step \in OfResult => c.result \in Results
    /\ c.step \in {"deliver", "render"} => ReadBefore(c, at)
    /\ c.step = "render" => Seen(c, at)

ReturnOK(c, known, revisions, at) ==
    /\ c.step # "render"
    /\ c.step = "return" =>
          /\ c.path \in known
          /\ c.base \in revisions
          /\ ReadBefore(c, at)
          /\ Seen(c, at)

(* Research moves forward: paths and revisions are added, and a working     *)
(* document is replaced under a higher pointer.                             *)
WorkingMoves(a, b) ==
    a.pointer \in Nat /\ b.pointer \in Nat /\ (b = a \/ b.pointer > a.pointer)

LEMMA CallKept ==
  ASSUME NEW c, NEW P, NEW Q, NEW M, NEW K, NEW s, NEW t,
         P \subseteq Q, M \subseteq K,
         \A p \in P : WorkingMoves(s[p]["working"], t[p]["working"]),
         CallOK(c, P, M, s)
  PROVE  CallOK(c, Q, K, t)
<1>1. c.step \in OnPath => WorkingMoves(s[c.path]["working"], t[c.path]["working"])
  BY DEF CallOK
<1>2. c.step \in {"deliver", "render"} => ReadBefore(c, t)
  BY <1>1 DEF CallOK, ReadBefore, WorkingMoves, OnPath
<1>3. c.step = "render" => Seen(c, t)
  BY <1>1 DEF CallOK, ReadBefore, Seen, WorkingMoves, OnPath
<1> QED
  BY <1>2, <1>3 DEF CallOK

LEMMA ReturnKept ==
  ASSUME NEW c, NEW P, NEW Q, NEW M, NEW K, NEW s, NEW t,
         P \subseteq Q, M \subseteq K,
         \A p \in P : WorkingMoves(s[p]["working"], t[p]["working"]),
         ReturnOK(c, P, M, s)
  PROVE  ReturnOK(c, Q, K, t)
<1> SUFFICES ASSUME c.step = "return" PROVE ReadBefore(c, t) /\ Seen(c, t)
  BY DEF ReturnOK
<1>1. WorkingMoves(s[c.path]["working"], t[c.path]["working"])
  BY DEF ReturnOK
<1> QED
  BY <1>1 DEF ReturnOK, ReadBefore, Seen, WorkingMoves

-----------------------------------------------------------------------------
(* The invariant.                                                          *)

SlotsAreSlots == slot = [p \in Paths |-> [s \in Slots |-> slot[p][s]]]
CallsOK ==
    /\ call = [n \in Numbers |-> call[n]]
    /\ \A n \in Numbers : CallOK(call[n], paths, DOMAIN plans, slot)

(* A document was made from one that is there.                              *)
Lineage == \A i \in DOMAIN documents : documents[i].parent # None
                                         => documents[i].parent \in DOMAIN documents

ResearchIInv ==
    /\ DocumentTypeOK
    /\ SlotsAreSlots
    /\ CallsOK
    /\ ReturnOK(returning, paths, DOMAIN documents, slot)
    /\ Lineage
    /\ DeliveredPassedAllAlong

LEMMA ResearchBegins == Init => ResearchIInv
<1> SUFFICES ASSUME Init PROVE ResearchIInv
  OBVIOUS
<1> USE ResearchAssumption DEF Init, ResearchInit, EvidenceInit, DocumentsInit
<1>1. DocumentTypeOK
  BY DEF DocumentTypeOK, Turn, Keys, PlanAdoption, DataAdoption, ResultAdoption,
         DocumentAdoption, Adoption, Availability, Run, NoRun, Slots, Empty
<1>2. SlotsAreSlots
  BY DEF SlotsAreSlots
<1>3. CallsOK
  BY DEF CallsOK, CallOK, Idle, OnPath, OfResult
<1>4. ReturnOK(returning, paths, DOMAIN documents, slot)
  BY DEF ReturnOK, Idle
<1>5. Lineage
  BY DEF Lineage
<1>6. DeliveredPassedAllAlong
  BY DEF DeliveredPassedAllAlong, Slots, Empty
<1> QED
  BY <1>1, <1>2, <1>3, <1>4, <1>5, <1>6 DEF ResearchIInv

-----------------------------------------------------------------------------
(* What a step leaves.                                                     *)

SlotOK(a, revisions, docs) ==
    /\ a = [s \in Slots |-> a[s]]
    /\ a["plan"] \in Adoption(revisions)
    /\ a["data"] \in DataAdoption /\ a["result"] \in ResultAdoption
    /\ a["working"] \in Adoption(docs) /\ a["delivery"] \in Adoption(docs)

LEMMA SlotsTyped ==
  ASSUME ResearchIInv
  PROVE  /\ slot = [p \in Paths |-> slot[p]]
         /\ \A p \in Paths : SlotOK(slot[p], DOMAIN plans, DOMAIN documents)
<1>1. \A p \in Paths : slot[p] = [s \in Slots |-> slot[p][s]]
  BY DEF ResearchIInv, SlotsAreSlots
<1>2. slot = [p \in Paths |-> slot[p]]
  BY DEF ResearchIInv, SlotsAreSlots
<1> QED
  BY <1>1, <1>2 DEF ResearchIInv, DocumentTypeOK, SlotOK, PlanAdoption, DocumentAdoption

LEMMA SlotGrows ==
  ASSUME NEW a, NEW M, NEW K, NEW D, NEW E, M \subseteq K, D \subseteq E, SlotOK(a, M, D)
  PROVE  SlotOK(a, K, E)
  BY DEF SlotOK, Adoption

LEMMA WorkingRests ==
  ASSUME ResearchIInv, NEW p \in Paths
  PROVE  WorkingMoves(slot[p]["working"], slot[p]["working"])
  BY SlotsTyped DEF SlotOK, Adoption, WorkingMoves

LEMMA CallsMove ==
  ASSUME CallsOK, paths \subseteq paths', DOMAIN plans \subseteq DOMAIN plans',
         \A p \in paths : WorkingMoves(slot[p]["working"], slot'[p]["working"]),
         call' = [m \in Numbers |-> call'[m]],
         \A m \in Numbers : \/ call'[m] = call[m]
                            \/ CallOK(call'[m], paths', DOMAIN plans', slot')
  PROVE  CallsOK'
<1> DEFINE s == slot  t == slot'  M == DOMAIN plans  K == DOMAIN plans'
<1>1. ASSUME NEW m \in Numbers PROVE CallOK(call'[m], paths', K, t)
  <2>1. CallOK(call[m], paths, M, s)
    BY DEF CallsOK
  <2>2. \A p \in paths : WorkingMoves(s[p]["working"], t[p]["working"])
    OBVIOUS
  <2> HIDE DEF s, t, M, K
  <2>3. M \subseteq K
    BY DEF M, K
  <2>4. CallOK(call[m], paths', K, t)
    BY <2>1, <2>2, <2>3, CallKept
  <2> QED
    BY <2>4 DEF K, t
<1> QED
  BY <1>1 DEF CallsOK

(* A step of a call that moves no slot.                                     *)
LEMMA Kept ==
  ASSUME ResearchIInv, UNCHANGED <<paths, studies, plans, slot, documents>>,
         turn' \in Turn, data' \in Availability, results' \in [Results -> Run],
         tables' \subseteq Table,
         call' = [m \in Numbers |-> call'[m]],
         \A m \in Numbers : \/ call'[m] = call[m]
                            \/ CallOK(call'[m], paths, DOMAIN plans, slot),
         ReturnOK(returning', paths, DOMAIN documents, slot)
  PROVE  ResearchIInv'
<1>1. DocumentTypeOK'
  BY DEF ResearchIInv, DocumentTypeOK, Turn, PlanAdoption, DocumentAdoption
<1>2. CallsOK'
  <2>1. \A p \in paths : WorkingMoves(slot[p]["working"], slot'[p]["working"])
    BY WorkingRests DEF ResearchIInv, DocumentTypeOK
  <2> QED
    BY <2>1, CallsMove DEF ResearchIInv
<1>3. SlotsAreSlots' /\ Lineage' /\ DeliveredPassedAllAlong'
  BY DEF ResearchIInv, SlotsAreSlots, Lineage, DeliveredPassedAllAlong
<1>4. ReturnOK(returning, paths, DOMAIN documents, slot)'
  BY DEF ReturnOK, ReadBefore, Seen
<1> QED
  BY <1>1, <1>2, <1>3, <1>4 DEF ResearchIInv

LEMMA Continued ==
  ASSUME CallsOK, NEW n \in Numbers, NEW c, Continue(n, c)
  PROVE  /\ call' = [m \in Numbers |-> call'[m]]
         /\ call'[n] = c
         /\ \A m \in Numbers \ {n} : call'[m] = call[m]
  BY DEF CallsOK, Continue

LEMMA IdleIsOK ==
  /\ \A P, M, s : CallOK(Idle, P, M, s) /\ ReturnOK(Idle, P, M, s)
  /\ Idle.step = "idle"
  BY DEF CallOK, ReturnOK, Idle, OnPath, OfResult

(* A turn that runs has a number and a path.                                *)
LEMMA WhoRuns ==
  ASSUME ResearchIInv, NEW n \in Numbers, Running(n)
  PROVE  turn.path \in paths /\ turn.path \in Paths /\ turn.number = n
  BY DEF ResearchIInv, DocumentTypeOK, Turn, Running

LEMMA TypesOf ==
  ASSUME ResearchIInv
  PROVE  /\ turn \in Turn /\ data \in Availability /\ results \in [Results -> Run]
         /\ tables \subseteq Table /\ paths \subseteq Paths
         /\ plans \in Seq(PlanRevision) /\ documents \in Seq(DocumentRevision)
         /\ CallsOK /\ ReturnOK(returning, paths, DOMAIN documents, slot)
         /\ call = [m \in Numbers |-> call[m]]
         /\ \A m \in Numbers : CallOK(call[m], paths, DOMAIN plans, slot)
         /\ Numbers \subseteq Nat
  BY ResearchAssumption DEF ResearchIInv, DocumentTypeOK, CallsOK, Numbers

-----------------------------------------------------------------------------
(* Turns, plans and branches.                                              *)

LEMMA EndedTurn == ResearchIInv /\ Ended => turn' \in Turn
  BY DEF ResearchIInv, DocumentTypeOK, Turn, Ended

LEMMA StartedTurn ==
  ASSUME ResearchIInv, NEW p \in paths, Started(p)
  PROVE  turn' \in Turn /\ turn.number + 1 \in Numbers
  BY ResearchAssumption DEF ResearchIInv, DocumentTypeOK, Turn, Started, Numbers

LEMMA TurnKeeps ==
  ASSUME ResearchIInv, UNCHANGED evidenceVars, UNCHANGED documents,
         \/ /\ \/ \E p \in paths : StartTurn(p) \/ RequestBranch(p)
               \/ EndTurn \/ OtherCommand
               \/ \E n \in Numbers : Fail(n) \/ CompleteBranch(n)
                                     \/ \E t \in Contents : CommitProposal(n, t)
            /\ UNCHANGED returning
         \/ Crash /\ returning' = Idle
  PROVE  ResearchIInv'
<1> USE TypesOf DEF evidenceVars
<1>1. ASSUME NEW p \in paths, StartTurn(p), UNCHANGED returning PROVE ResearchIInv'
  BY <1>1, StartedTurn, Kept DEF StartTurn, Started
<1>2. ASSUME NEW p \in paths, RequestBranch(p), UNCHANGED returning PROVE ResearchIInv'
  <2> DEFINE n == turn.number + 1  c == [step |-> "branch", path |-> p, shown |-> slot[p]]
  <2>1. n \in Numbers /\ Started(p) /\ Continue(n, c) /\ turn' \in Turn
    BY <1>2, StartedTurn DEF RequestBranch
  <2>2. CallOK(c, paths, DOMAIN plans, slot)
    BY DEF CallOK, OnPath, OfResult
  <2> HIDE DEF n, c
  <2> QED
    BY <1>2, <2>1, <2>2, Continued, Kept DEF Started
<1>3. ASSUME EndTurn \/ OtherCommand, UNCHANGED returning PROVE ResearchIInv'
  BY <1>3, EndedTurn, Kept DEF EndTurn, Ended, OtherCommand, turnVars
<1>4. ASSUME NEW n \in Numbers, Fail(n) \/ CompleteBranch(n), UNCHANGED returning
      PROVE  ResearchIInv'
  <2>1. Continue(n, Idle)
    BY <1>4 DEF Fail, CompleteBranch
  <2>2. turn' \in Turn /\ UNCHANGED <<paths, studies, plans, slot>>
    BY <1>4, EndedTurn DEF Fail, CompleteBranch, Ended, turnVars
  <2> QED
    BY <1>4, <2>1, <2>2, Continued, IdleIsOK, Kept
<1>5. ASSUME NEW n \in Numbers, NEW t \in Contents, CommitProposal(n, t), UNCHANGED returning
      PROVE  ResearchIInv'
  <2> DEFINE current == slot[turn.path]["plan"]
             c == [step |-> "create", path |-> turn.path, text |-> t,
                   parent |-> current.target, pointer |-> current.pointer]
  <2>1. Continue(n, c) /\ Running(n) /\ UNCHANGED turnVars
    BY <1>5 DEF CommitProposal, Free
  <2>2. turn.path \in paths /\ turn.path \in Paths
    BY <2>1, WhoRuns
  <2>3. current.target \in Nat \cup {None}
    BY <2>2, SlotsTyped DEF SlotOK, Adoption
  <2>4. CallOK(c, paths, DOMAIN plans, slot)
    BY <2>2, <2>3 DEF CallOK, OnPath, OfResult
  <2> HIDE DEF c
  <2> QED
    BY <1>5, <2>1, <2>4, Continued, Kept DEF turnVars
<1>6. ASSUME Crash, returning' = Idle PROVE ResearchIInv'
  BY <1>6, EndedTurn, IdleIsOK, Kept DEF Crash, Ended
<1> QED
  BY <1>1, <1>2, <1>3, <1>4, <1>5, <1>6

LEMMA CreatePlanKeeps ==
  ASSUME ResearchIInv, NEW n \in Numbers, CreatePlanRevision(n),
         UNCHANGED <<evidenceVars, documentVars>>
  PROVE  ResearchIInv'
<1> DEFINE c == call[n]
           made == [text |-> c.text, parent |-> c.parent]
           d == [step |-> "adoptPlan", path |-> c.path, pointer |-> c.pointer,
                 target |-> Len(plans) + 1]
<1>1. /\ c.step = "create" /\ plans' = Append(plans, made) /\ Continue(n, d)
      /\ UNCHANGED <<turn, paths, planned, slot>>
      /\ studies' \subseteq studies \cup {c.path}
  BY DEF CreatePlanRevision
<1>2. c.path \in paths /\ made \in PlanRevision
  BY <1>1, TypesOf DEF CallOK, OnPath, PlanRevision
<1>3. plans' \in Seq(PlanRevision) /\ DOMAIN plans \subseteq DOMAIN plans'
      /\ Len(plans) + 1 \in DOMAIN plans'
  BY <1>1, <1>2, TypesOf
<1>4. CallOK(d, paths', DOMAIN plans', slot')
  BY <1>1, <1>2, <1>3 DEF CallOK, OnPath, OfResult
<1>5. CallsOK'
  <2> HIDE DEF d
  <2>1. \A p \in paths : WorkingMoves(slot[p]["working"], slot'[p]["working"])
    BY <1>1, WorkingRests, TypesOf
  <2>2. /\ call' = [m \in Numbers |-> call'[m]]
        /\ \A m \in Numbers : \/ call'[m] = call[m]
                              \/ CallOK(call'[m], paths', DOMAIN plans', slot')
    BY <1>1, <1>4, Continued, TypesOf
  <2> QED
    BY <1>1, <1>3, <2>1, <2>2, CallsMove, TypesOf
<1>6. \A p \in Paths : slot'[p]["plan"] \in PlanAdoption'
  BY <1>1, <1>3 DEF ResearchIInv, DocumentTypeOK, PlanAdoption, Adoption
<1>7. DocumentTypeOK'
  BY <1>1, <1>2, <1>3, <1>6 DEF ResearchIInv, DocumentTypeOK, Turn, Keys,
       DocumentAdoption, evidenceVars, documentVars
<1>8. ReturnOK(returning, paths, DOMAIN documents, slot)'
  BY <1>1 DEF ResearchIInv, ReturnOK, ReadBefore, Seen, documentVars
<1>9. SlotsAreSlots' /\ Lineage' /\ DeliveredPassedAllAlong'
  BY <1>1 DEF ResearchIInv, SlotsAreSlots, Lineage, DeliveredPassedAllAlong, documentVars
<1> QED
  BY <1>5, <1>7, <1>8, <1>9 DEF ResearchIInv

(* One slot of a path moves that is not a document's.                       *)
LEMMA EvidenceSlotMoves ==
  ASSUME ResearchIInv, NEW p \in paths, NEW a, SlotOK(a, DOMAIN plans, DOMAIN documents),
         slot' = [slot EXCEPT ![p] = a],
         a["working"] = slot[p]["working"], a["delivery"] = slot[p]["delivery"],
         UNCHANGED <<turn, paths, studies, plans, evidenceVars, documentVars>>,
         call' = [m \in Numbers |-> call'[m]],
         \A m \in Numbers : call'[m] = call[m] \/ call'[m] = Idle
                            \/ CallOK(call'[m], paths, DOMAIN plans, slot')
  PROVE  ResearchIInv'
<1> USE TypesOf
<1>1. /\ slot' = [q \in Paths |-> slot'[q]] /\ slot'[p] = a
      /\ \A q \in Paths : q # p => slot'[q] = slot[q]
  BY SlotsTyped
<1>2. \A q \in Paths : SlotOK(slot'[q], DOMAIN plans, DOMAIN documents)
  BY <1>1, SlotsTyped
<1>3. DocumentTypeOK' /\ SlotsAreSlots'
  <2>1. SlotsAreSlots'
    BY <1>1, <1>2 DEF SlotOK, SlotsAreSlots
  <2> QED
    BY <1>2, <2>1 DEF SlotOK, ResearchIInv, DocumentTypeOK, Turn, Keys, PlanAdoption,
         DocumentAdoption, evidenceVars, documentVars
<1>4. \A q \in Paths : /\ slot'[q]["working"] = slot[q]["working"]
                       /\ slot'[q]["delivery"] = slot[q]["delivery"]
  BY <1>1
<1>5. CallsOK'
  <2>1. \A q \in paths : WorkingMoves(slot[q]["working"], slot'[q]["working"])
    BY <1>4, WorkingRests
  <2>2. \A m \in Numbers : \/ call'[m] = call[m]
                           \/ CallOK(call'[m], paths', DOMAIN plans', slot')
    BY IdleIsOK
  <2> QED
    BY <2>1, <2>2, CallsMove
<1>6. ReturnOK(returning, paths, DOMAIN documents, slot)'
  <2>1. returning.step = "return" =>
           slot'[returning.path]["working"] = slot[returning.path]["working"]
    BY <1>4 DEF ReturnOK
  <2> QED
    BY <2>1 DEF ReturnOK, ReadBefore, Seen, documentVars
<1>7. Lineage' /\ DeliveredPassedAllAlong'
  BY <1>4 DEF ResearchIInv, Lineage, DeliveredPassedAllAlong, documentVars
<1> QED
  BY <1>3, <1>5, <1>6, <1>7 DEF ResearchIInv

LEMMA AdoptedIs ==
  ASSUME ResearchIInv, NEW p \in Paths, NEW s \in Slots, NEW target
  PROVE  /\ Adopted(p, s, target) = [r \in Slots |-> Adopted(p, s, target)[r]]
         /\ Adopted(p, s, target)[s] = [target |-> target, pointer |-> slot[p][s].pointer + 1]
         /\ \A r \in Slots : r # s => Adopted(p, s, target)[r] = slot[p][r]
<1>1. slot[p] = [r \in Slots |-> slot[p][r]]
  BY SlotsTyped DEF SlotOK
<1> QED
  BY <1>1 DEF Adopted

LEMMA EvidenceSlotAdopted ==
  ASSUME ResearchIInv, NEW p \in Paths, NEW s \in {"plan", "data", "result"}, NEW target,
         s = "plan" => target \in DOMAIN plans,
         s = "data" => target \in Data \cup {None},
         s = "result" => target \in Results
  PROVE  /\ SlotOK(Adopted(p, s, target), DOMAIN plans, DOMAIN documents)
         /\ Adopted(p, s, target)["working"] = slot[p]["working"]
         /\ Adopted(p, s, target)["delivery"] = slot[p]["delivery"]
<1>1. SlotOK(slot[p], DOMAIN plans, DOMAIN documents)
  BY SlotsTyped
<1> DEFINE a == Adopted(p, s, target)
<1>2. s \in Slots
  BY DEF Slots
<1>3. /\ a = [r \in Slots |-> a[r]]
      /\ a[s] = [target |-> target, pointer |-> slot[p][s].pointer + 1]
      /\ \A r \in Slots : r # s => a[r] = slot[p][r]
  BY <1>2, AdoptedIs
<1> HIDE DEF a
<1>4. a["working"] = slot[p]["working"] /\ a["delivery"] = slot[p]["delivery"]
  BY <1>3 DEF Slots
<1>5. slot[p][s].pointer \in Nat
  BY <1>1 DEF SlotOK, Adoption, DataAdoption, ResultAdoption
<1>6. a["plan"] \in Adoption(DOMAIN plans)
  BY <1>1, <1>3, <1>5 DEF SlotOK, Slots, Adoption
<1>7. a["data"] \in DataAdoption
  BY <1>1, <1>3, <1>5 DEF SlotOK, Slots, Adoption, DataAdoption
<1>8. a["result"] \in ResultAdoption
  BY <1>1, <1>3, <1>5 DEF SlotOK, Slots, Adoption, ResultAdoption
<1>9. SlotOK(a, DOMAIN plans, DOMAIN documents)
  BY <1>1, <1>3, <1>4, <1>6, <1>7, <1>8 DEF SlotOK
<1> QED
  BY <1>4, <1>9 DEF a

LEMMA AdoptPlanKeeps ==
  ASSUME ResearchIInv, NEW n \in Numbers, AdoptPlanRevision(n),
         UNCHANGED <<evidenceVars, documentVars>>
  PROVE  ResearchIInv'
<1> DEFINE c == call[n]  a == Adopted(c.path, "plan", c.target)
<1>1. /\ c.step = "adoptPlan" /\ slot' = [slot EXCEPT ![c.path] = a]
      /\ Continue(n, Idle) /\ UNCHANGED <<turn, paths, studies, plans>>
  BY DEF AdoptPlanRevision
<1>2. c.path \in paths /\ c.path \in Paths /\ c.target \in DOMAIN plans
  BY <1>1, TypesOf DEF CallOK, OnPath
<1>3. /\ SlotOK(a, DOMAIN plans, DOMAIN documents)
      /\ a["working"] = slot[c.path]["working"] /\ a["delivery"] = slot[c.path]["delivery"]
  BY <1>2, EvidenceSlotAdopted
<1> HIDE DEF a
<1> QED
  BY <1>1, <1>2, <1>3, Continued, TypesOf, EvidenceSlotMoves

(* What a branch copies is typed, and its documents are the path's.         *)
LEMMA CopiedIs ==
  ASSUME NEW T, NEW a \in Adoption(T)
  PROVE  Copied(a) \in Adoption(T) /\ Copied(a).target = a.target
  BY DEF Copied, Adoption, Empty

LEMMA CreateBranchKeeps ==
  ASSUME ResearchIInv, NEW n \in Numbers, NEW q \in Paths, CreatePathBranch(n, q),
         UNCHANGED <<evidenceVars, documentVars>>
  PROVE  ResearchIInv'
<1> DEFINE c == call[n]  a == Branched(c.path)
           d == [step |-> "complete", path |-> c.path]
<1> USE TypesOf
<1>1. /\ c.step = "branch" /\ q \notin paths /\ paths' = paths \cup {q}
      /\ slot' = [slot EXCEPT ![q] = a] /\ Continue(n, d)
      /\ UNCHANGED <<turn, studies, plans>>
  BY DEF CreatePathBranch
<1>2. c.path \in paths /\ c.path \in Paths
  BY <1>1 DEF CallOK, OnPath
<1>3. SlotOK(a, DOMAIN plans, DOMAIN documents)
  <2>1. SlotOK(slot[c.path], DOMAIN plans, DOMAIN documents)
    BY <1>2, SlotsTyped
  <2>2. a = [s \in Slots |-> a[s]] /\ \A s \in Slots : a[s] = Copied(slot[c.path][s])
    BY DEF Branched
  <2> QED
    BY <2>1, <2>2, CopiedIs DEF SlotOK, Slots, DataAdoption, ResultAdoption
<1>4. a["delivery"].target = slot[c.path]["delivery"].target
  BY <1>2, SlotsTyped, CopiedIs DEF Branched, SlotOK, Slots
<1>5. /\ slot' = [p \in Paths |-> slot'[p]] /\ slot'[q] = a
      /\ \A p \in Paths : p # q => slot'[p] = slot[p]
  BY <1>1, SlotsTyped
<1>6. \A p \in Paths : SlotOK(slot'[p], DOMAIN plans, DOMAIN documents)
  BY <1>3, <1>5, SlotsTyped
<1>7. DocumentTypeOK' /\ SlotsAreSlots'
  <2>1. SlotsAreSlots'
    BY <1>5, <1>6 DEF SlotOK, SlotsAreSlots
  <2>2. turn' \in Turn' /\ paths' \subseteq Paths /\ studies' \subseteq paths' /\ studies' \subseteq Keys
    BY <1>1 DEF ResearchIInv, DocumentTypeOK, Turn
  <2> QED
    BY <1>1, <1>6, <2>1, <2>2 DEF SlotOK, ResearchIInv, DocumentTypeOK, PlanAdoption,
         DocumentAdoption, evidenceVars, documentVars
<1>8. CallsOK'
  <2>1. \A p \in paths : WorkingMoves(slot[p]["working"], slot'[p]["working"])
    BY <1>1, <1>5, WorkingRests
  <2>2. CallOK(d, paths', DOMAIN plans', slot')
    BY <1>1, <1>2 DEF CallOK, OnPath, OfResult
  <2> HIDE DEF d, a
  <2>3. /\ call' = [m \in Numbers |-> call'[m]]
        /\ \A m \in Numbers : \/ call'[m] = call[m]
                              \/ CallOK(call'[m], paths', DOMAIN plans', slot')
    BY <1>1, <2>2, Continued
  <2> QED
    BY <1>1, <2>1, <2>3, CallsMove
<1>9. ReturnOK(returning, paths, DOMAIN documents, slot)'
  <2>1. returning.step = "return" => slot'[returning.path] = slot[returning.path]
    BY <1>1, <1>5 DEF ReturnOK
  <2> QED
    BY <1>1, <2>1 DEF ReturnOK, ReadBefore, Seen, documentVars
<1>10. Lineage' /\ DeliveredPassedAllAlong'
  <2>1. \A p \in paths' : \E o \in paths :
           slot'[p]["delivery"].target = slot[o]["delivery"].target
    BY <1>1, <1>2, <1>4, <1>5
  <2> QED
    BY <2>1 DEF ResearchIInv, Lineage, DeliveredPassedAllAlong, documentVars
<1> QED
  BY <1>7, <1>8, <1>9, <1>10 DEF ResearchIInv

-----------------------------------------------------------------------------
(* Data, results and tables.                                               *)

LEMMA DataKeeps ==
  ASSUME ResearchIInv, NEW n \in Numbers, UNCHANGED documentVars,
         \/ Intake(n)
         \/ \E r \in Results, d \in Data : RunFormally(n, r, d)
         \/ \E t \in tables : LoseTable(n, t)
  PROVE  ResearchIInv'
<1> USE TypesOf DEF turnVars, documentVars
<1>1. ASSUME Intake(n) PROVE ResearchIInv'
  <2>1. data' \in Availability
    BY <1>1 DEF Intake, RecordCapture, RecordVerification, Availability, Availabilities
  <2> QED
    BY <1>1, <2>1, Kept DEF Intake
<1>2. ASSUME NEW r \in Results, NEW d \in Data, RunFormally(n, r, d) PROVE ResearchIInv'
  <2> DEFINE run == [state |-> "ran", path |-> turn.path, data |-> d,
                     plan |-> slot[turn.path]["plan"].target]
  <2>1. turn.path \in Paths /\ results' = [results EXCEPT ![r] = run]
    BY <1>2, WhoRuns DEF RunFormally, Free
  <2>2. slot[turn.path]["plan"].target \in Nat \cup {None}
    BY <2>1, SlotsTyped DEF SlotOK, Adoption
  <2>3. run \in Run
    BY <2>1, <2>2 DEF Run
  <2> HIDE DEF run
  <2>4. results' \in [Results -> Run]
    BY <2>1, <2>3
  <2> QED
    BY <1>2, <2>4, Kept DEF RunFormally
<1>3. ASSUME NEW t \in tables, LoseTable(n, t) PROVE ResearchIInv'
  BY <1>3, Kept DEF LoseTable
<1> QED
  BY <1>1, <1>2, <1>3

LEMMA QualificationKeeps ==
  ASSUME ResearchIInv, NEW n \in Numbers, NEW r \in Results, CommitQualification(n, r),
         UNCHANGED documentVars
  PROVE  ResearchIInv'
<1> DEFINE c == Adopting("adoptData", "data", turn.path, r)
<1>1. turn.path \in paths /\ turn.path \in Paths
  BY WhoRuns DEF CommitQualification, Free
<1>2. Qualified(r) \in Run
  BY <1>1, TypesOf DEF Qualified, Run
<1>3. results' \in [Results -> Run]
  BY <1>2, TypesOf DEF CommitQualification
<1>4. CallOK(c, paths, DOMAIN plans, slot)
  BY <1>1 DEF CallOK, OnPath, OfResult, Adopting
<1> HIDE DEF c
<1>5. Continue(n, c)
  BY DEF CommitQualification, c
<1> QED
  BY <1>3, <1>4, <1>5, Continued, TypesOf, Kept
     DEF CommitQualification, turnVars, documentVars

LEMMA AdoptDataKeeps ==
  ASSUME ResearchIInv, NEW n \in Numbers, AdoptPathData(n), UNCHANGED documentVars
  PROVE  ResearchIInv'
<1> DEFINE c == call[n]  a == Adopted(c.path, "data", results[c.result].data)
           d == Adopting("adoptResult", "result", c.path, c.result)
<1>1. /\ c.step = "adoptData" /\ slot' = [slot EXCEPT ![c.path] = a]
      /\ Continue(n, d) /\ UNCHANGED <<turn, paths, studies, plans, evidenceVars>>
  BY DEF AdoptPathData
<1>2. c.path \in paths /\ c.path \in Paths /\ c.result \in Results
  BY <1>1, TypesOf DEF CallOK, OnPath, OfResult
<1>3. results[c.result].data \in Data \cup {None}
  BY <1>2, TypesOf DEF Run
<1>4. /\ SlotOK(a, DOMAIN plans, DOMAIN documents)
      /\ a["working"] = slot[c.path]["working"] /\ a["delivery"] = slot[c.path]["delivery"]
  BY <1>2, <1>3, EvidenceSlotAdopted
<1>5. CallOK(d, paths', DOMAIN plans', slot')
  BY <1>1, <1>2 DEF CallOK, OnPath, OfResult, Adopting
<1> HIDE DEF a, d
<1>6. /\ call' = [m \in Numbers |-> call'[m]]
      /\ \A m \in Numbers : \/ call'[m] = call[m]
                            \/ CallOK(call'[m], paths', DOMAIN plans', slot')
  BY <1>1, <1>5, Continued, TypesOf
<1> QED
  BY <1>1, <1>2, <1>4, <1>6, EvidenceSlotMoves

LEMMA AdoptResultKeeps ==
  ASSUME ResearchIInv, NEW n \in Numbers, AdoptPathResult(n), UNCHANGED documentVars
  PROVE  ResearchIInv'
<1> DEFINE c == call[n]  a == Adopted(c.path, "result", c.result)
<1>1. /\ c.step = "adoptResult" /\ slot' = [slot EXCEPT ![c.path] = a]
      /\ Continue(n, Idle) /\ UNCHANGED <<turn, paths, studies, plans, evidenceVars>>
  BY DEF AdoptPathResult
<1>2. c.path \in paths /\ c.path \in Paths /\ c.result \in Results
  BY <1>1, TypesOf DEF CallOK, OnPath, OfResult
<1>3. /\ SlotOK(a, DOMAIN plans, DOMAIN documents)
      /\ a["working"] = slot[c.path]["working"] /\ a["delivery"] = slot[c.path]["delivery"]
  BY <1>2, EvidenceSlotAdopted
<1> HIDE DEF a
<1> QED
  BY <1>1, <1>2, <1>3, Continued, TypesOf, EvidenceSlotMoves

(* What a bundle makes of the slots of its path.                            *)
With(a, s, target) ==
    IF target = None THEN a
    ELSE [a EXCEPT ![s] = [target |-> target, pointer |-> @.pointer + 1]]
Bundled(p, d, r, v) == With(With(With(slot[p], "data", d), "result", r), "plan", v)

LEMMA WithIs ==
  ASSUME NEW a, a = [s \in Slots |-> a[s]], NEW s \in Slots, NEW target
  PROVE  /\ With(a, s, target) = [q \in Slots |-> With(a, s, target)[q]]
         /\ \A q \in Slots : q # s => With(a, s, target)[q] = a[q]
         /\ target = None => With(a, s, target)[s] = a[s]
         /\ target # None => With(a, s, target)[s]
                                = [target |-> target, pointer |-> a[s].pointer + 1]
  BY DEF With

LEMMA BundledIs ==
  ASSUME ResearchIInv, NEW p \in Paths, NEW d \in Data \cup {None},
         NEW r \in Results \cup {None}, NEW v \in {None} \cup DOMAIN plans
  PROVE  LET a == Bundled(p, d, r, v)
         IN  /\ SlotOK(a, DOMAIN plans, DOMAIN documents)
             /\ a["working"] = slot[p]["working"] /\ a["delivery"] = slot[p]["delivery"]
             /\ r = None => a["result"] = slot[p]["result"]
             /\ r # None => a["result"].target = r
<1> DEFINE o == slot[p]  x == With(o, "data", d)  y == With(x, "result", r)
           z == With(y, "plan", v)
<1>1. SlotOK(o, DOMAIN plans, DOMAIN documents)
  BY SlotsTyped
<1>2. /\ x = [q \in Slots |-> x[q]] /\ \A q \in Slots : q # "data" => x[q] = o[q]
      /\ x["data"] \in DataAdoption
  <2>1. "data" \in Slots /\ o = [q \in Slots |-> o[q]]
    BY <1>1 DEF SlotOK, Slots
  <2>2. /\ x = [q \in Slots |-> x[q]] /\ \A q \in Slots : q # "data" => x[q] = o[q]
        /\ d = None => x["data"] = o["data"]
        /\ d # None => x["data"] = [target |-> d, pointer |-> o["data"].pointer + 1]
    BY <2>1, WithIs
  <2> QED
    BY <1>1, <2>2 DEF SlotOK, DataAdoption, Adoption
<1>3. /\ y = [q \in Slots |-> y[q]] /\ \A q \in Slots : q # "result" => y[q] = x[q]
      /\ y["result"] \in ResultAdoption
      /\ r = None => y["result"] = o["result"]
      /\ r # None => y["result"].target = r
  <2>1. "result" \in Slots /\ x["result"] = o["result"]
    BY <1>2 DEF Slots
  <2> HIDE DEF x
  <2>2. /\ y = [q \in Slots |-> y[q]] /\ \A q \in Slots : q # "result" => y[q] = x[q]
        /\ r = None => y["result"] = x["result"]
        /\ r # None => y["result"] = [target |-> r, pointer |-> x["result"].pointer + 1]
    BY <1>2, <2>1, WithIs
  <2> QED
    BY <1>1, <2>1, <2>2 DEF SlotOK, ResultAdoption, Adoption
<1>4. /\ z = [q \in Slots |-> z[q]] /\ \A q \in Slots : q # "plan" => z[q] = y[q]
      /\ z["plan"] \in Adoption(DOMAIN plans)
  <2>1. "plan" \in Slots /\ y["plan"] = o["plan"]
    BY <1>2, <1>3 DEF Slots
  <2> HIDE DEF y
  <2>2. /\ z = [q \in Slots |-> z[q]] /\ \A q \in Slots : q # "plan" => z[q] = y[q]
        /\ v = None => z["plan"] = y["plan"]
        /\ v # None => z["plan"] = [target |-> v, pointer |-> y["plan"].pointer + 1]
    BY <1>3, <2>1, WithIs
  <2> QED
    BY <1>1, <2>1, <2>2 DEF SlotOK, Adoption
<1>5. z = Bundled(p, d, r, v)
  BY DEF Bundled
<1> HIDE DEF o, x, y, z
<1>6. /\ z["data"] = x["data"] /\ z["result"] = y["result"]
      /\ z["working"] = o["working"] /\ z["delivery"] = o["delivery"]
  BY <1>2, <1>3, <1>4 DEF Slots
<1>7. SlotOK(z, DOMAIN plans, DOMAIN documents)
  BY <1>1, <1>2, <1>3, <1>4, <1>6 DEF SlotOK
<1> QED
  BY <1>3, <1>5, <1>6, <1>7 DEF o

LEMMA BundleStep ==
  ASSUME NEW n \in Numbers, NEW d \in Data \cup {None}, NEW r \in Results \cup {None},
         NEW v \in {None} \cup DOMAIN plans, AdoptResearchBundle(n, d, r, v)
  PROVE  /\ Running(n) /\ slot' = [slot EXCEPT ![turn.path] = Bundled(turn.path, d, r, v)]
         /\ UNCHANGED <<turn, paths, studies, plans, call, evidenceVars>>
         /\ r # None => BundleIsClosed(turn.path, Bundled(turn.path, d, r, v))
  BY DEF AdoptResearchBundle, Bundled, With, Free

LEMMA BundleKeeps ==
  ASSUME ResearchIInv, NEW n \in Numbers, NEW d \in Data \cup {None},
         NEW r \in Results \cup {None}, NEW v \in {None} \cup DOMAIN plans,
         AdoptResearchBundle(n, d, r, v), UNCHANGED documentVars
  PROVE  ResearchIInv'
<1> DEFINE p == turn.path  a == Bundled(p, d, r, v)
<1>1. /\ Running(n) /\ slot' = [slot EXCEPT ![p] = a]
      /\ UNCHANGED <<turn, paths, studies, plans, call, evidenceVars>>
  BY BundleStep
<1>2. p \in paths /\ p \in Paths
  BY <1>1, WhoRuns
<1>3. /\ SlotOK(a, DOMAIN plans, DOMAIN documents)
      /\ a["working"] = slot[p]["working"] /\ a["delivery"] = slot[p]["delivery"]
  BY <1>2, BundledIs
<1> HIDE DEF a, p
<1> QED
  BY <1>1, <1>2, <1>3, TypesOf, EvidenceSlotMoves

(* An export reads the pointers of the documents' slots when it is over.    *)
LEMMA DeliveringIsOK ==
  ASSUME ResearchIInv, NEW n, NEW p \in paths, NEW r \in Results
  PROVE  CallOK(Delivering(n, p, r), paths, DOMAIN plans, slot)
<1>1. slot[p]["working"].pointer \in Nat /\ slot[p]["delivery"].pointer \in Nat
  BY TypesOf, SlotsTyped DEF SlotOK, Adoption
<1> QED
  BY <1>1 DEF CallOK, Delivering, ReadBefore, OnPath, OfResult

LEMMA ExportKeeps ==
  ASSUME ResearchIInv, NEW n \in Numbers, PrepareExport(n) \/ CommitVerification(n),
         UNCHANGED documentVars
  PROVE  ResearchIInv'
<1> USE TypesOf DEF turnVars, documentVars, evidenceVars
<1>1. CASE PrepareExport(n)
  <2> DEFINE p == turn.path  r == slot[p]["result"].target
             e == [step |-> "export", path |-> p, result |-> r]
  <2>1. p \in paths /\ p \in Paths /\ r # None
    BY <1>1, WhoRuns DEF PrepareExport, Free
  <2>2. r \in Results
    BY <2>1, SlotsTyped DEF SlotOK, ResultAdoption, Adoption
  <2>3. CallOK(Delivering(n, p, r), paths, DOMAIN plans, slot)
    BY <2>1, <2>2, DeliveringIsOK
  <2>4. CallOK(e, paths, DOMAIN plans, slot)
    BY <2>1, <2>2 DEF CallOK, OnPath, OfResult
  <2>5. Continue(n, Delivering(n, p, r)) \/ Continue(n, e)
    BY <1>1 DEF PrepareExport
  <2> HIDE DEF p, r, e
  <2> QED
    BY <1>1, <2>3, <2>4, <2>5, Continued, Kept DEF PrepareExport
<1>2. CASE CommitVerification(n)
  <2> DEFINE c == call[n]  d == Delivering(n, c.path, c.result)
  <2>1. c.step = "export" /\ Continue(n, d)
    BY <1>2 DEF CommitVerification
  <2>2. c.path \in paths /\ c.path \in Paths /\ c.result \in Results
    BY <2>1 DEF CallOK, OnPath, OfResult
  <2>3. CallOK(d, paths, DOMAIN plans, slot)
    BY <2>2, DeliveringIsOK
  <2>4. tables' \subseteq Table
    BY <1>2, <2>2 DEF CommitVerification, Table
  <2> HIDE DEF d
  <2> QED
    BY <1>2, <2>1, <2>3, <2>4, Continued, Kept DEF CommitVerification
<1> QED
  BY <1>1, <1>2

LEMMA EvidenceKeeps ==
  ASSUME ResearchIInv, NEW n \in Numbers, EvidenceStep(n), UNCHANGED documentVars
  PROVE  ResearchIInv'
  BY DataKeeps, QualificationKeeps, AdoptDataKeeps, AdoptResultKeeps, BundleKeeps, ExportKeeps
     DEF EvidenceStep

-----------------------------------------------------------------------------
(* Documents.                                                              *)

(* The slots of a path after the document that comes next is adopted.       *)
Last == Len(documents) + 1
Working(p) == Adopted(p, "working", Last)
Filed(p, gate) ==
    IF gate = "pass"
    THEN [Working(p) EXCEPT !["delivery"] = [target |-> Last, pointer |-> @.pointer + 1]]
    ELSE Working(p)

LEMMA FiledIs ==
  ASSUME ResearchIInv, NEW p \in Paths, NEW gate
  PROVE  LET a == Filed(p, gate)
         IN  /\ SlotOK(a, DOMAIN plans, 1 .. Last)
             /\ \A s \in {"plan", "data", "result"} : a[s] = slot[p][s]
             /\ a["working"] = [target |-> Last, pointer |-> slot[p]["working"].pointer + 1]
             /\ gate = "pass" => a["delivery"].target = Last
             /\ gate # "pass" => a["delivery"] = slot[p]["delivery"]
<1> DEFINE w == Working(p)  a == Filed(p, gate)
<1>1. SlotOK(slot[p], DOMAIN plans, DOMAIN documents) /\ Len(documents) \in Nat
      /\ DOMAIN documents = 1 .. Len(documents)
  BY SlotsTyped, TypesOf
<1>2. /\ w = [r \in Slots |-> w[r]]
      /\ w["working"] = [target |-> Last, pointer |-> slot[p]["working"].pointer + 1]
      /\ \A r \in Slots : r # "working" => w[r] = slot[p][r]
  BY AdoptedIs DEF Slots, Working
<1> HIDE DEF w
<1>3. a = IF gate = "pass"
          THEN [w EXCEPT !["delivery"] = [target |-> Last, pointer |-> @.pointer + 1]]
          ELSE w
  BY DEF Filed, w
<1>4. /\ a = [r \in Slots |-> a[r]]
      /\ \A r \in Slots : r # "delivery" => a[r] = w[r]
      /\ gate = "pass" =>
            a["delivery"] = [target |-> Last, pointer |-> w["delivery"].pointer + 1]
      /\ gate # "pass" => a["delivery"] = w["delivery"]
  BY <1>2, <1>3 DEF Slots
<1> HIDE DEF a
<1>5. /\ \A s \in {"plan", "data", "result"} : a[s] = slot[p][s]
      /\ a["working"] = [target |-> Last, pointer |-> slot[p]["working"].pointer + 1]
      /\ w["delivery"] = slot[p]["delivery"]
  BY <1>2, <1>4 DEF Slots
<1>6. Last \in 1 .. Last /\ DOMAIN documents \subseteq 1 .. Last
  BY <1>1 DEF Last
<1>7. a["working"] \in Adoption(1 .. Last)
  BY <1>1, <1>5, <1>6 DEF SlotOK, Adoption
<1>8. a["delivery"] \in Adoption(1 .. Last)
  BY <1>1, <1>4, <1>5, <1>6 DEF SlotOK, Adoption
<1>9. SlotOK(a, DOMAIN plans, 1 .. Last)
  BY <1>1, <1>4, <1>5, <1>7, <1>8 DEF SlotOK
<1> QED
  BY <1>4, <1>5, <1>9 DEF a

LEMMA AdoptDocumentStep ==
  ASSUME NEW c, NEW document, AdoptDocument(c, document)
  PROVE  /\ documents' = Append(documents, document)
         /\ slot' = [slot EXCEPT ![c.path] = Filed(c.path, document.gate)]
         /\ UNCHANGED <<turn, paths, studies, plans, planned>>
         /\ WorkingUnmoved(c)
  BY DEF AdoptDocument, Filed, Working, Last

LEMMA DocumentAdopted ==
  ASSUME ResearchIInv, NEW c, NEW document \in DocumentRevision,
         AdoptDocument(c, document), c.path \in paths,
         document.parent # None => document.parent \in DOMAIN documents,
         document.parent # None /\ document.gate = "pass" =>
            documents[document.parent].gate = "pass",
         UNCHANGED evidenceVars,
         call' = [m \in Numbers |-> call'[m]],
         \A m \in Numbers : call'[m] = call[m] \/ call'[m] = Idle,
         returning' = returning \/ returning' = Idle
  PROVE  ResearchIInv'
<1> DEFINE p == c.path  a == Filed(p, document.gate)
<1> USE TypesOf
<1>1. /\ documents' = Append(documents, document)
      /\ slot' = [slot EXCEPT ![p] = a]
      /\ UNCHANGED <<turn, paths, studies, plans>>
  BY AdoptDocumentStep
<1>2. /\ documents' \in Seq(DocumentRevision) /\ DOMAIN documents' = 1 .. Last
      /\ DOMAIN documents \subseteq DOMAIN documents' /\ Last \notin DOMAIN documents
      /\ documents'[Last] = document
      /\ \A i \in DOMAIN documents : documents'[i] = documents[i]
      /\ \A i \in DOMAIN documents' : i \in DOMAIN documents \/ i = Last
  BY <1>1 DEF Last
<1>3. /\ SlotOK(a, DOMAIN plans, 1 .. Last)
      /\ a["working"] = [target |-> Last, pointer |-> slot[p]["working"].pointer + 1]
      /\ document.gate = "pass" => a["delivery"].target = Last
      /\ document.gate # "pass" => a["delivery"] = slot[p]["delivery"]
  <2> HIDE DEF p
  <2>1. p \in Paths
    BY DEF p
  <2> QED
    BY <2>1, FiledIs
<1> HIDE DEF a
<1>4. /\ slot' = [q \in Paths |-> slot'[q]] /\ slot'[p] = a
      /\ \A q \in Paths : q # p => slot'[q] = slot[q]
  BY <1>1, SlotsTyped
<1>5. \A q \in Paths : SlotOK(slot'[q], DOMAIN plans, DOMAIN documents')
  BY <1>2, <1>3, <1>4, SlotsTyped, SlotGrows
<1>6. DocumentTypeOK' /\ SlotsAreSlots'
  <2>1. SlotsAreSlots'
    BY <1>4, <1>5 DEF SlotOK, SlotsAreSlots
  <2> QED
    BY <1>1, <1>2, <1>5, <2>1 DEF SlotOK, ResearchIInv, DocumentTypeOK, Turn, Keys,
         PlanAdoption, DocumentAdoption, evidenceVars
<1>7. \A q \in paths : WorkingMoves(slot[q]["working"], slot'[q]["working"])
  <2> TAKE q \in paths
  <2>1. WorkingMoves(slot[q]["working"], slot[q]["working"])
    BY WorkingRests
  <2>2. CASE q = p
    BY <1>3, <1>4, <2>1, <2>2 DEF WorkingMoves
  <2> QED
    BY <1>4, <2>1, <2>2
<1>8. CallsOK'
  <2>1. \A m \in Numbers : call'[m] = call[m] \/ CallOK(call'[m], paths', DOMAIN plans', slot')
    BY IdleIsOK
  <2> QED
    BY <1>1, <1>7, <2>1, CallsMove
<1>9. ReturnOK(returning', paths', DOMAIN documents', slot')
  <2> DEFINE s == slot  t == slot'  P == paths  M == DOMAIN documents  K == DOMAIN documents'
  <2>1. ReturnOK(returning, P, M, s) /\ M \subseteq K
        /\ \A q \in P : WorkingMoves(s[q]["working"], t[q]["working"])
    BY <1>2, <1>7
  <2> HIDE DEF s, t, P, M, K
  <2>2. ReturnOK(returning, P, K, t)
    BY <2>1, ReturnKept
  <2> QED
    BY <1>1, <2>2, IdleIsOK DEF P, K, t
<1>10. Lineage'
  BY <1>2 DEF ResearchIInv, Lineage
<1>11. DeliveredPassedAllAlong'
  <2>1. ASSUME NEW q \in paths', slot'[q]["delivery"].target # None
        PROVE  documents'[slot'[q]["delivery"].target].gate = "pass"
    <3>1. CASE q = p /\ document.gate = "pass"
      BY <1>2, <1>3, <1>4, <3>1
    <3>2. CASE ~(q = p /\ document.gate = "pass")
      <4>1. slot'[q]["delivery"] = slot[q]["delivery"] /\ q \in paths /\ q \in Paths
        BY <1>1, <1>3, <1>4, <3>2
      <4>2. slot[q]["delivery"].target \in DOMAIN documents
        BY <2>1, <4>1, SlotsTyped DEF SlotOK, Adoption
      <4> QED
        BY <1>2, <2>1, <4>1, <4>2 DEF ResearchIInv, DeliveredPassedAllAlong
    <3> QED
      BY <3>1, <3>2
  <2>2. ASSUME NEW i \in DOMAIN documents', documents'[i].gate = "pass",
               documents'[i].parent # None
        PROVE  documents'[documents'[i].parent].gate = "pass"
    BY <1>2, <2>2 DEF ResearchIInv, DeliveredPassedAllAlong, Lineage
  <2> QED
    BY <2>1, <2>2 DEF DeliveredPassedAllAlong
<1> QED
  BY <1>6, <1>8, <1>9, <1>10, <1>11 DEF ResearchIInv

LEMMA RenderKeeps ==
  ASSUME ResearchIInv, NEW n \in Numbers, PrepareRender(n)
  PROVE  ResearchIInv'
<1> DEFINE c == call[n]
           d == [step |-> "render", path |-> c.path, result |-> c.result,
                 working |-> c.working, delivery |-> c.delivery, begun |-> Len(documents)]
<1> USE TypesOf
<1>1. c.step = "deliver" /\ Continue(n, d)
      /\ UNCHANGED <<turnVars, evidenceVars, documentVars>>
  BY DEF PrepareRender
<1>2. c.path \in paths /\ c.path \in Paths /\ c.result \in Results
      /\ ReadBefore(c, slot)
  BY <1>1 DEF CallOK, OnPath, OfResult
<1>3. /\ d.step = "render" /\ d.path = c.path /\ d.result = c.result
      /\ d.working = c.working /\ d.begun = Len(documents)
  OBVIOUS
<1> HIDE DEF d
<1>4. slot[c.path]["working"].target \in 1 .. Len(documents) \cup {None}
  BY <1>2, SlotsTyped DEF SlotOK, Adoption
<1>5. CallOK(d, paths, DOMAIN plans, slot)
  BY <1>2, <1>3, <1>4 DEF CallOK, OnPath, OfResult, ReadBefore, Seen
<1> QED
  BY <1>1, <1>5, Continued, Kept DEF turnVars, evidenceVars, documentVars

LEMMA DeliveryKeeps ==
  ASSUME ResearchIInv, NEW n \in Numbers, FinalizeDelivery(n)
  PROVE  ResearchIInv'
<1> DEFINE c == call[n]
           d == [path |-> c.path, parent |-> None, result |-> c.result, gate |-> "pass"]
<1>1. c.step = "render" /\ AdoptDocument(c, d) /\ Continue(n, Idle)
      /\ UNCHANGED <<evidenceVars, returning>>
  BY DEF FinalizeDelivery
<1>2. c.path \in paths /\ c.path \in Paths /\ c.result \in Results
  BY <1>1, TypesOf DEF CallOK, OnPath, OfResult
<1>3. d \in DocumentRevision
  BY <1>2 DEF DocumentRevision
<1> QED
  BY <1>1, <1>2, <1>3, Continued, TypesOf, DocumentAdopted

LEMMA ReturnedIs ==
  ASSUME ResearchIInv, returning.step = "return", NEW passes \in BOOLEAN
  PROVE  Returned(returning, passes) \in DocumentRevision
         /\ returning.path \in paths /\ returning.base \in DOMAIN documents
<1>1. returning.path \in paths /\ returning.base \in DOMAIN documents
  BY TypesOf DEF ReturnOK
<1>2. documents[returning.base] \in DocumentRevision /\ returning.base \in Nat
  BY <1>1, TypesOf
<1>3. documents[returning.base].result \in Results
  BY <1>2 DEF DocumentRevision
<1> QED
  BY <1>1, <1>2, <1>3, TypesOf DEF Returned, DocumentRevision, Verdict

LEMMA ReturnStep ==
  ASSUME NEW clean \in BOOLEAN, FinalizeReturn(clean)
  PROVE  LET passes == ReturnPasses(returning.base, clean)
         IN  /\ passes \in BOOLEAN /\ returning.step = "return"
             /\ passes => EvidenceHolds(returning.path, documents[returning.base].result)
             /\ AdoptDocument(returning, Returned(returning, passes))
             /\ returning' = Idle /\ UNCHANGED <<call, evidenceVars>>
  BY DEF FinalizeReturn, ReturnPasses, ReturnBound

LEMMA ReturnKeeps ==
  ASSUME ResearchIInv,
         PrepareReturn \/ (\E clean \in BOOLEAN : FinalizeReturn(clean))
           \/ RejectReturn \/ FailReturn
  PROVE  ResearchIInv'
<1> USE TypesOf
<1>1. CASE PrepareReturn
  <2> DEFINE p == turn.path  base == slot[p]["working"].target
             c == [step |-> "return", turn |-> turn.number, path |-> p, base |-> base,
                   working |-> slot[p]["working"].pointer,
                   delivery |-> slot[p]["delivery"].pointer, begun |-> Len(documents)]
  <2>1. /\ p # None /\ base # None /\ returning' = c
        /\ UNCHANGED <<turnVars, call, evidenceVars, documents>>
    BY <1>1 DEF PrepareReturn
  <2>2. p \in paths /\ p \in Paths
    BY <2>1 DEF Turn
  <2>3. base \in DOMAIN documents /\ slot[p]["working"].pointer \in Nat
    BY <2>1, <2>2, SlotsTyped DEF SlotOK, Adoption
  <2>4. ReturnOK(c, paths, DOMAIN documents, slot)
    BY <2>2, <2>3 DEF ReturnOK, ReadBefore, Seen
  <2> HIDE DEF c
  <2> QED
    BY <2>1, <2>4, Kept DEF turnVars, evidenceVars
<1>2. ASSUME NEW clean \in BOOLEAN, FinalizeReturn(clean) PROVE ResearchIInv'
  <2> DEFINE passes == ReturnPasses(returning.base, clean)  d == Returned(returning, passes)
  <2>1. /\ passes \in BOOLEAN /\ returning.step = "return" /\ AdoptDocument(returning, d)
        /\ returning' = Idle /\ UNCHANGED <<call, evidenceVars>>
    BY <1>2, ReturnStep
  <2>2. d \in DocumentRevision /\ returning.path \in paths
        /\ returning.base \in DOMAIN documents
    BY <2>1, ReturnedIs
  <2>3. d.parent = returning.base /\ (d.gate = "pass" => documents[d.parent].gate = "pass")
    BY DEF Returned, Verdict, ReturnPasses
  <2> HIDE DEF d
  <2> QED
    BY <2>1, <2>2, <2>3, DocumentAdopted
<1>3. CASE RejectReturn \/ FailReturn
  BY <1>3, IdleIsOK, Kept DEF RejectReturn, FailReturn, turnVars, evidenceVars
<1> QED
  BY <1>1, <1>2, <1>3

LEMMA NextKeeps == ResearchIInv /\ Next => ResearchIInv'
<1> SUFFICES ASSUME ResearchIInv, Next PROVE ResearchIInv'
  OBVIOUS
<1>1. CASE ResearchStep /\ UNCHANGED <<evidenceVars, documentVars>>
  BY <1>1, TurnKeeps, CreatePlanKeeps, AdoptPlanKeeps, CreateBranchKeeps
     DEF ResearchStep, documentVars
<1>2. CASE Crash /\ returning' = Idle /\ UNCHANGED <<evidenceVars, documents>>
  BY <1>2, TurnKeeps
<1>3. CASE \E n \in Numbers : EvidenceStep(n) /\ UNCHANGED documentVars
  BY <1>3, EvidenceKeeps
<1>4. CASE DocumentStep
  BY <1>4, RenderKeeps, DeliveryKeeps, ReturnKeeps DEF DocumentStep
<1> QED
  BY <1>1, <1>2, <1>3, <1>4 DEF Next

-----------------------------------------------------------------------------
(* Programs and their outputs.                                             *)

Confirmation == [step : {"verify"}, run : Executions, preview : Artifacts,
                 left : SUBSET Artifacts, verified : SUBSET Artifacts,
                 lost : SUBSET Artifacts]

(* A run that is under way is its call's; what a confirmation verified was  *)
(* not lost when it came in.                                                *)
RunnerOK(c, n, runs, outputs, gone) ==
    /\ c.step \in {"running", "captured"} =>
          /\ c.run \in Executions
          /\ runs[c.run].status = "handoff_committed"
          /\ runs[c.run].turn = n
    /\ c.step = "classify" => c.run \in Executions
    /\ c.step = "verify" =>
          /\ c \in Confirmation
          /\ outputs[c.run] # None
          /\ outputs[c.run].turn <= n
          /\ c.lost \subseteq gone
          /\ c.verified \cap c.lost = {}

(* Nothing is classified but the outputs of a run that completed, in a turn *)
(* that has begun.                                                          *)
OutputsOK == \A r \in Executions : output[r] # None =>
    /\ output[r].turn <= turn.number
    /\ execution[r].status = "completed"

AnalysisIInv ==
    /\ AnalysisTypeOK
    /\ output = [r \in Executions |-> output[r]]
    /\ adoption = [r \in Executions |-> adoption[r]]
    /\ \A n \in Numbers : RunnerOK(call[n], n, execution, output, lost)
    /\ \A n \in Numbers : call[n].step # "idle" => n <= turn.number
    /\ OutputsOK

LEMMA AnalysisBegins == Init /\ AnalysisInit => AnalysisIInv
<1> SUFFICES ASSUME Init, AnalysisInit PROVE AnalysisIInv
  OBVIOUS
<1>1. AnalysisTypeOK
  BY DEF AnalysisInit, AnalysisTypeOK, Ran, Stock
<1>2. \A n \in Numbers : call[n] = Idle
  BY DEF Init, ResearchInit
<1> QED
  BY <1>1, <1>2 DEF AnalysisInit, AnalysisIInv, RunnerOK, OutputsOK, Idle

(* What the calls of the other tools do here: they are none of a program.   *)
LEMMA OthersGoOn ==
  ASSUME ResearchIInv, Next
  PROVE  /\ turn.number <= turn'.number
         /\ \A n \in Numbers : \/ call'[n] = call[n]
                               \/ call'[n] = Idle
                               \/ /\ call'[n].step \in OnPath
                                  /\ n = turn'.number \/ call[n].step # "idle"
<1> DEFINE Goes(n) == \/ call'[n] = call[n]
                      \/ call'[n] = Idle
                      \/ /\ call'[n].step \in OnPath
                         /\ n = turn'.number \/ call[n].step # "idle"
<1> USE TypesOf DEF turnVars
<1>0. turn.number \in Nat /\ call = [n \in Numbers |-> call[n]]
  BY ResearchAssumption DEF Turn
<1>1. ASSUME NEW n \in Numbers, NEW c, Continue(n, c), Goes(n)
      PROVE  \A m \in Numbers : Goes(m)
  BY <1>1, Continued
<1>2. ASSUME UNCHANGED call PROVE \A m \in Numbers : Goes(m)
  BY <1>2
<1>3. ASSUME ResearchStep PROVE turn.number <= turn'.number /\ \A m \in Numbers : Goes(m)
  <2>1. ASSUME NEW p \in paths, StartTurn(p) PROVE turn.number <= turn'.number /\ UNCHANGED call
    BY <1>0, <2>1 DEF StartTurn, Started
  <2>2. ASSUME NEW p \in paths, RequestBranch(p)
        PROVE  turn.number <= turn'.number /\ \A m \in Numbers : Goes(m)
    <3> DEFINE n == turn.number + 1
               c == [step |-> "branch", path |-> p, shown |-> slot[p]]
    <3>1. n \in Numbers /\ turn'.number = n /\ Continue(n, c)
      BY <2>2, StartedTurn DEF RequestBranch, Started
    <3>2. c.step \in OnPath
      BY DEF OnPath
    <3> HIDE DEF c
    <3>3. Goes(n)
      BY <3>1, <3>2, Continued
    <3> QED
      BY <1>0, <1>1, <3>1, <3>3
  <2>3. ASSUME EndTurn \/ OtherCommand PROVE turn.number = turn'.number /\ UNCHANGED call
    BY <2>3 DEF EndTurn, Ended, OtherCommand, Turn
  <2>4. ASSUME NEW n \in Numbers, Fail(n) \/ CompleteBranch(n) \/ AdoptPlanRevision(n)
        PROVE  turn.number = turn'.number /\ \A m \in Numbers : Goes(m)
    <3>1. Continue(n, Idle)
      BY <2>4 DEF Fail, CompleteBranch, AdoptPlanRevision
    <3>2. Goes(n)
      BY <3>1, Continued
    <3>3. turn.number = turn'.number
      BY <2>4 DEF Fail, CompleteBranch, Ended, AdoptPlanRevision, Turn
    <3> QED
      BY <1>1, <3>1, <3>2, <3>3
  <2>5. ASSUME NEW n \in Numbers, NEW t \in Contents, CommitProposal(n, t)
        PROVE  turn' = turn /\ \A m \in Numbers : Goes(m)
    <3> DEFINE c == [step |-> "create", path |-> turn.path, text |-> t,
                     parent |-> slot[turn.path]["plan"].target,
                     pointer |-> slot[turn.path]["plan"].pointer]
    <3>1. Continue(n, c) /\ c.step \in OnPath /\ turn' = turn /\ n = turn.number
      BY <2>5 DEF CommitProposal, Free, Running, OnPath
    <3> HIDE DEF c
    <3>2. Goes(n)
      BY <3>1, Continued
    <3> QED
      BY <1>1, <3>1, <3>2
  <2>6. ASSUME NEW n \in Numbers, CreatePlanRevision(n)
        PROVE  turn' = turn /\ \A m \in Numbers : Goes(m)
    <3> DEFINE c == [step |-> "adoptPlan", path |-> call[n].path,
                     pointer |-> call[n].pointer, target |-> Len(plans) + 1]
    <3>1. Continue(n, c) /\ c.step \in OnPath /\ turn' = turn /\ n = turn.number
      BY <2>6 DEF CreatePlanRevision, Running, OnPath
    <3> HIDE DEF c
    <3>2. Goes(n)
      BY <3>1, Continued
    <3> QED
      BY <1>1, <3>1, <3>2
  <2>7. ASSUME NEW n \in Numbers, NEW q \in Paths, CreatePathBranch(n, q)
        PROVE  turn' = turn /\ \A m \in Numbers : Goes(m)
    <3> DEFINE c == [step |-> "complete", path |-> call[n].path]
    <3>1. Continue(n, c) /\ c.step \in OnPath /\ turn' = turn /\ n = turn.number
      BY <2>7 DEF CreatePathBranch, Bound, Running, OnPath
    <3> HIDE DEF c
    <3>2. Goes(n)
      BY <3>1, Continued
    <3> QED
      BY <1>1, <3>1, <3>2
  <2> QED
    BY <1>0, <1>2, <1>3, <2>1, <2>2, <2>3, <2>4, <2>5, <2>6, <2>7 DEF ResearchStep
<1>4. ASSUME Crash PROVE turn.number = turn'.number /\ \A m \in Numbers : Goes(m)
  BY <1>4 DEF Crash, Ended, Turn
<1>5. ASSUME NEW n \in Numbers, EvidenceStep(n)
      PROVE  turn' = turn /\ \A m \in Numbers : Goes(m)
  <2>1. ASSUME Intake(n) \/ (\E t \in tables : LoseTable(n, t))
               \/ (\E r \in Results, d \in Data : RunFormally(n, r, d))
        PROVE  UNCHANGED <<turn, call>>
    BY <2>1 DEF Intake, LoseTable, RunFormally
  <2>2. ASSUME NEW d \in Data \cup {None}, NEW r \in Results \cup {None},
               NEW v \in {None} \cup DOMAIN plans, AdoptResearchBundle(n, d, r, v)
        PROVE  UNCHANGED <<turn, call>>
    BY <2>2, BundleStep
  <2>3. ASSUME NEW r \in Results, CommitQualification(n, r)
        PROVE  turn' = turn /\ \A m \in Numbers : Goes(m)
    <3> DEFINE c == Adopting("adoptData", "data", turn.path, r)
    <3>1. Continue(n, c) /\ c.step \in OnPath /\ turn' = turn /\ n = turn.number
      BY <2>3 DEF CommitQualification, Free, Running, OnPath, Adopting
    <3> HIDE DEF c
    <3>2. Goes(n)
      BY <3>1, Continued
    <3> QED
      BY <1>1, <3>1, <3>2
  <2>4. ASSUME AdoptPathData(n) PROVE turn' = turn /\ \A m \in Numbers : Goes(m)
    <3> DEFINE c == Adopting("adoptResult", "result", call[n].path, call[n].result)
    <3>1. Continue(n, c) /\ c.step \in OnPath /\ turn' = turn /\ call[n].step = "adoptData"
      BY <2>4 DEF AdoptPathData, OnPath, Adopting
    <3> HIDE DEF c
    <3>2. Goes(n)
      BY <3>1, Continued
    <3> QED
      BY <1>1, <3>1, <3>2
  <2>5. ASSUME AdoptPathResult(n) PROVE turn' = turn /\ \A m \in Numbers : Goes(m)
    <3>1. Continue(n, Idle) /\ turn' = turn
      BY <2>5 DEF AdoptPathResult
    <3>2. Goes(n)
      BY <3>1, Continued
    <3> QED
      BY <1>1, <3>1, <3>2
  <2>6. ASSUME PrepareExport(n) \/ CommitVerification(n)
        PROVE  turn' = turn /\ \A m \in Numbers : Goes(m)
    <3>1. PICK c : Continue(n, c) /\ c.step \in OnPath
      BY <2>6 DEF PrepareExport, CommitVerification, Delivering, OnPath
    <3>2. turn' = turn /\ n = turn.number
      BY <2>6 DEF PrepareExport, CommitVerification, Bound, Free, Running
    <3>3. Goes(n)
      BY <3>1, <3>2, Continued
    <3> QED
      BY <1>1, <3>1, <3>2, <3>3
  <2> QED
    BY <1>2, <1>5, <2>1, <2>2, <2>3, <2>4, <2>5, <2>6 DEF EvidenceStep
<1>6. ASSUME DocumentStep PROVE turn' = turn /\ \A m \in Numbers : Goes(m)
  <2>1. ASSUME NEW n \in Numbers, PrepareRender(n)
        PROVE  turn' = turn /\ \A m \in Numbers : Goes(m)
    <3>1. PICK c : Continue(n, c) /\ c.step \in OnPath
      BY <2>1 DEF PrepareRender, OnPath
    <3>2. turn' = turn /\ n = turn.number
      BY <2>1 DEF PrepareRender, Bound, Running
    <3>3. Goes(n)
      BY <3>1, <3>2, Continued
    <3> QED
      BY <1>1, <3>1, <3>2, <3>3
  <2>2. ASSUME NEW n \in Numbers, FinalizeDelivery(n)
        PROVE  turn' = turn /\ \A m \in Numbers : Goes(m)
    <3>1. Continue(n, Idle) /\ turn' = turn
      BY <2>2 DEF FinalizeDelivery, AdoptDocument
    <3>2. Goes(n)
      BY <3>1, Continued
    <3> QED
      BY <1>1, <3>1, <3>2
  <2>3. ASSUME PrepareReturn \/ (\E clean \in BOOLEAN : FinalizeReturn(clean))
               \/ RejectReturn \/ FailReturn
        PROVE  UNCHANGED <<turn, call>>
    BY <2>3 DEF PrepareReturn, FinalizeReturn, AdoptDocument, RejectReturn, FailReturn
  <2> QED
    BY <1>2, <1>6, <2>1, <2>2, <2>3 DEF DocumentStep
<1> QED
  BY <1>0, <1>3, <1>4, <1>5, <1>6 DEF Next

LEMMA OthersKeepAnalysis ==
  ASSUME ResearchIInv, AnalysisIInv, Next, UNCHANGED analysisVars
  PROVE  AnalysisIInv'
<1> USE DEF analysisVars
<1>1. AnalysisTypeOK' /\ (output = [r \in Executions |-> output[r]])'
      /\ (adoption = [r \in Executions |-> adoption[r]])'
  BY DEF AnalysisIInv, AnalysisTypeOK, Output
<1>2. turn.number \in Nat /\ turn'.number \in Nat /\ turn.number <= turn'.number
  BY OthersGoOn, NextKeeps, ResearchAssumption
     DEF ResearchIInv, DocumentTypeOK, Turn
<1>3. ASSUME NEW n \in Numbers
      PROVE  /\ RunnerOK(call'[n], n, execution', output', lost')
             /\ call'[n].step # "idle" => n <= turn'.number
  <2>1. CASE call'[n] = call[n]
    BY <1>2, <2>1, TypesOf DEF AnalysisIInv
  <2>2. CASE call'[n] = Idle
    BY <2>2 DEF RunnerOK, Idle
  <2>3. CASE call'[n].step \in OnPath /\ (n = turn'.number \/ call[n].step # "idle")
    BY <1>2, <2>3, TypesOf DEF RunnerOK, OnPath, AnalysisIInv
  <2> QED
    BY <2>1, <2>2, <2>3, OthersGoOn
<1>4. OutputsOK'
  <2>1. \A r \in Executions : output[r] # None => output[r].turn \in Nat
    BY DEF AnalysisIInv, AnalysisTypeOK, Output
  <2> QED
    BY <1>2, <2>1 DEF AnalysisIInv, OutputsOK
<1> QED
  BY <1>1, <1>3, <1>4 DEF AnalysisIInv

-----------------------------------------------------------------------------
(* The steps of programs, one field at a time.                             *)

LEMMA RunnersMove ==
  ASSUME ResearchIInv, AnalysisIInv, NEW n \in Numbers, NEW c, Continue(n, c),
         UNCHANGED turn, lost' = lost,
         \A x \in Executions : output[x] # None => output'[x] = output[x],
         RunnerOK(c, n, execution', output', lost'),
         c.step # "idle" => n <= turn.number,
         \A m \in Numbers \ {n} : call[m].step \in {"running", "captured"} =>
            execution'[call[m].run] = execution[call[m].run]
  PROVE  /\ \A m \in Numbers : RunnerOK(call'[m], m, execution', output', lost')
         /\ \A m \in Numbers : call'[m].step # "idle" => m <= turn'.number
<1>1. call'[n] = c /\ \A m \in Numbers \ {n} : call'[m] = call[m]
  BY Continued, TypesOf
<1>2. ASSUME NEW m \in Numbers, m # n
      PROVE  RunnerOK(call[m], m, execution', output', lost')
  BY <1>2 DEF AnalysisIInv, RunnerOK, Confirmation
<1> QED
  BY <1>1, <1>2 DEF AnalysisIInv

LEMMA ExecuteKeeps ==
  ASSUME ResearchIInv, AnalysisIInv, NEW n \in Numbers, NEW r \in Executions,
         NEW inputs \in SUBSET Recorded, Execute(n, r, inputs)
  PROVE  AnalysisIInv'
<1> USE DEF turnVars
<1>1. n \in Nat /\ n = turn.number /\ execution \in [Executions -> Ran]
      /\ inputs \in SUBSET Artifacts
  BY TypesOf DEF Execute, Free, Running, AnalysisIInv, AnalysisTypeOK, Recorded
<1>2. \A x \in Executions : output[x] # None => x # r
  BY DEF Execute, AnalysisIInv, OutputsOK
<1>3. ASSUME NEW run \in Ran, execution' = [execution EXCEPT ![r] = run],
             \A m \in Numbers : RunnerOK(call'[m], m, execution', output', lost'),
             \A m \in Numbers : call'[m].step # "idle" => m <= turn'.number
      PROVE  AnalysisIInv'
  <2>1. AnalysisTypeOK'
    BY <1>1, <1>3 DEF Execute, AnalysisIInv, AnalysisTypeOK, Output
  <2>2. OutputsOK'
    BY <1>1, <1>2, <1>3 DEF Execute, AnalysisIInv, OutputsOK
  <2> QED
    BY <1>3, <2>1, <2>2 DEF Execute, AnalysisIInv
<1>4. \A m \in Numbers : call[m].step \in {"running", "captured"} => call[m].run # r
  BY DEF Execute, AnalysisIInv, RunnerOK
<1>5. CASE Bindable(inputs)
  <2> DEFINE run == [status |-> "handoff_committed", turn |-> n, inputs |-> inputs]
             c == [step |-> "running", run |-> r]
  <2>1. execution' = [execution EXCEPT ![r] = run] /\ Continue(n, c) /\ run \in Ran
        /\ UNCHANGED <<turn, lost, output>>
    BY <1>1, <1>5 DEF Execute, Ran
  <2>2. execution'[r] = run /\ \A x \in Executions : x # r => execution'[x] = execution[x]
    BY <1>1, <2>1
  <2>3. RunnerOK(c, n, execution', output', lost')
    BY <2>2 DEF RunnerOK
  <2>4. \A m \in Numbers \ {n} : call[m].step \in {"running", "captured"} =>
           execution'[call[m].run] = execution[call[m].run]
    BY <1>4, <2>2 DEF AnalysisIInv, RunnerOK
  <2> HIDE DEF run, c
  <2>5. n <= turn.number /\ lost' = lost /\ output' = output /\ UNCHANGED turn
    BY <1>1, <2>1
  <2>6. /\ \A m \in Numbers : RunnerOK(call'[m], m, execution', output', lost')
        /\ \A m \in Numbers : call'[m].step # "idle" => m <= turn'.number
    BY <2>1, <2>3, <2>4, <2>5, RunnersMove
  <2> QED
    BY <1>3, <2>1, <2>6
<1>6. CASE ~Bindable(inputs)
  <2> DEFINE run == [status |-> "failed", turn |-> n, inputs |-> {}]
  <2>1. execution' = [execution EXCEPT ![r] = run] /\ run \in Ran
        /\ UNCHANGED <<turn, call, lost, output>>
    BY <1>1, <1>6 DEF Execute, Ran
  <2>2. \A x \in Executions : x # r => execution'[x] = execution[x]
    BY <1>1, <2>1
  <2> HIDE DEF run
  <2>3. \A m \in Numbers : RunnerOK(call'[m], m, execution', output', lost')
    BY <1>4, <2>1, <2>2 DEF AnalysisIInv, RunnerOK
  <2> QED
    BY <1>3, <2>1, <2>3 DEF AnalysisIInv
<1> QED
  BY <1>5, <1>6

(* A run under way moves on, or ends with its call.                         *)
LEMMA RunMoves ==
  ASSUME ResearchIInv, AnalysisIInv, NEW n \in Numbers,
         call[n].step \in {"running", "captured"}, NEW c, Continue(n, c),
         \/ c = Idle /\ stock' = stock
             /\ \E s \in {"completed", "failed"} \cup Unresolved :
                  execution' = [execution EXCEPT ![call[n].run].status = s]
         \/ /\ c = [step |-> "captured", run |-> call[n].run]
            /\ execution' = execution /\ stock' \in Stock,
         UNCHANGED <<turn, lost, output, adoption>>
  PROVE  AnalysisIInv'
<1> DEFINE r == call[n].run
<1>1. /\ r \in Executions /\ execution[r].status = "handoff_committed"
      /\ execution[r].turn = n /\ n \in Nat /\ n <= turn.number
      /\ execution \in [Executions -> Ran]
  BY TypesOf DEF AnalysisIInv, RunnerOK, AnalysisTypeOK
<1>2. ASSUME NEW m \in Numbers \ {n}, call[m].step \in {"running", "captured"}
      PROVE  call[m].run \in Executions /\ call[m].run # r
  BY <1>1, <1>2 DEF AnalysisIInv, RunnerOK
<1>3. execution' \in [Executions -> Ran]
      /\ \A x \in Executions : x # r => execution'[x] = execution[x]
  BY <1>1 DEF Ran
<1>4. RunnerOK(c, n, execution', output', lost')
  BY <1>1 DEF RunnerOK, Idle
<1>5. /\ \A m \in Numbers : RunnerOK(call'[m], m, execution', output', lost')
      /\ \A m \in Numbers : call'[m].step # "idle" => m <= turn'.number
  BY <1>1, <1>2, <1>3, <1>4, RunnersMove
<1>6. OutputsOK'
  <2>1. \A x \in Executions : output[x] # None => x # r
    BY <1>1 DEF AnalysisIInv, OutputsOK
  <2> QED
    BY <1>3, <2>1 DEF AnalysisIInv, OutputsOK
<1>7. AnalysisTypeOK'
  BY <1>3 DEF AnalysisIInv, AnalysisTypeOK, Output
<1> QED
  BY <1>5, <1>6, <1>7 DEF AnalysisIInv

LEMMA ProgramKeeps ==
  ASSUME ResearchIInv, AnalysisIInv, NEW n \in Numbers,
         \/ \E s \in SandboxErrors : FinishError(n, s)
         \/ \E written \in SUBSET Names : RecordProduced(n, written)
         \/ CaptureFails(n)
         \/ \E exit \in {0, 1} : CompleteExecution(n, exit)
  PROVE  AnalysisIInv'
<1> USE DEF turnVars
<1>1. ASSUME NEW s \in {"completed", "failed"} \cup Unresolved,
             call[n].step \in {"running", "captured"},
             Finish(n, call[n].run, s), UNCHANGED stock
      PROVE  AnalysisIInv'
  BY <1>1, RunMoves DEF Finish
<1>2. ASSUME NEW written \in SUBSET Names, RecordProduced(n, written)
      PROVE  AnalysisIInv'
  <2>1. stock' \in Stock
    BY <1>2 DEF RecordProduced, AnalysisIInv, AnalysisTypeOK, Stock
  <2> DEFINE c == [step |-> "captured", run |-> call[n].run]
  <2>2. /\ call[n].step \in {"running", "captured"} /\ Continue(n, c) /\ execution' = execution
        /\ UNCHANGED <<turn, lost, output, adoption>>
    BY <1>2 DEF RecordProduced
  <2> QED
    BY <2>1, <2>2, RunMoves
<1>3. ASSUME NEW s \in SandboxErrors, FinishError(n, s) PROVE AnalysisIInv'
  BY <1>1, <1>3 DEF FinishError, SandboxErrors, Unresolved
<1>4. ASSUME CaptureFails(n) PROVE AnalysisIInv'
  BY <1>1, <1>4 DEF CaptureFails, Unresolved
<1>5. ASSUME NEW exit \in {0, 1}, CompleteExecution(n, exit) PROVE AnalysisIInv'
  BY <1>1, <1>5 DEF CompleteExecution
<1> QED
  BY <1>2, <1>3, <1>4, <1>5

LEMMA RecoverKeeps ==
  ASSUME ResearchIInv, AnalysisIInv, NEW r \in Executions, NEW s \in Unresolved,
         RecoverExecution(r, s)
  PROVE  AnalysisIInv'
<1> USE DEF turnVars
<1>1. /\ execution[r].status = "handoff_committed" /\ call[execution[r].turn] = Idle
      /\ execution' = [execution EXCEPT ![r].status = s]
      /\ UNCHANGED <<turn, call, stock, lost, output, adoption>>
  BY DEF RecoverExecution
<1>2. execution \in [Executions -> Ran]
  BY DEF AnalysisIInv, AnalysisTypeOK
<1>3. execution' \in [Executions -> Ran]
      /\ \A x \in Executions : x # r => execution'[x] = execution[x]
  BY <1>1, <1>2 DEF Ran, Unresolved
<1>4. \A m \in Numbers : call[m].step \in {"running", "captured"} => call[m].run # r
  BY <1>1 DEF AnalysisIInv, RunnerOK, Idle
<1>5. \A m \in Numbers : RunnerOK(call[m], m, execution', output, lost)
  BY <1>3, <1>4 DEF AnalysisIInv, RunnerOK
<1>6. OutputsOK'
  <2>1. \A x \in Executions : output[x] # None => x # r
    BY <1>1 DEF AnalysisIInv, OutputsOK
  <2> QED
    BY <1>1, <1>3, <2>1 DEF AnalysisIInv, OutputsOK
<1>7. AnalysisTypeOK'
  BY <1>1, <1>3 DEF AnalysisIInv, AnalysisTypeOK, Output
<1> QED
  BY <1>1, <1>5, <1>6, <1>7 DEF AnalysisIInv

-----------------------------------------------------------------------------
(* Files that get lost, classifications and confirmations.                 *)

LEMMA FilesKeep ==
  ASSUME ResearchIInv, AnalysisIInv, UNCHANGED <<turn, call, execution, output, adoption>>,
         stock' \in Stock, lost \subseteq lost', lost' \subseteq Artifacts
  PROVE  AnalysisIInv'
<1>1. \A m \in Numbers : RunnerOK(call[m], m, execution, output, lost')
  BY DEF AnalysisIInv, RunnerOK
<1>2. AnalysisTypeOK'
  BY DEF AnalysisIInv, AnalysisTypeOK, Output
<1> QED
  BY <1>1, <1>2 DEF AnalysisIInv, OutputsOK

LEMMA FoundStock ==
  ASSUME AnalysisIInv, NEW a \in Recorded
  PROVE  Found(a) \in Stock
  BY DEF AnalysisIInv, AnalysisTypeOK, Stock, Found

(* A call of a program's outputs moves on.                                  *)
LEMMA CallKeeps ==
  ASSUME ResearchIInv, AnalysisIInv, NEW n \in Numbers, NEW c, Continue(n, c),
         UNCHANGED <<turn, execution, lost, output>>, stock' \in Stock,
         RunnerOK(c, n, execution, output, lost),
         c.step # "idle" => n <= turn.number,
         adoption' = [r \in Executions |-> adoption'[r]],
         \A r \in Executions : adoption'[r] \in AnalysisEvidence \cup {None}
  PROVE  AnalysisIInv'
<1>1. /\ \A m \in Numbers : RunnerOK(call'[m], m, execution', output', lost')
      /\ \A m \in Numbers : call'[m].step # "idle" => m <= turn'.number
  BY RunnersMove
<1>2. AnalysisTypeOK'
  BY DEF AnalysisIInv, AnalysisTypeOK, Output, AnalysisEvidence
<1> QED
  BY <1>1, <1>2 DEF AnalysisIInv, OutputsOK

LEMMA AdoptionTyped ==
  ASSUME AnalysisIInv
  PROVE  /\ adoption = [r \in Executions |-> adoption[r]]
         /\ \A r \in Executions : adoption[r] \in AnalysisEvidence \cup {None}
         /\ stock \in Stock
  BY DEF AnalysisIInv, AnalysisTypeOK

LEMMA RequestKeeps ==
  ASSUME ResearchIInv, AnalysisIInv, NEW n \in Numbers, NEW r \in Executions,
         \/ RequestClassification(n, r)
         \/ \E a \in Recorded : RequestAdoption(n, r, a)
  PROVE  AnalysisIInv'
<1> USE AdoptionTyped, TypesOf DEF turnVars, analysisVars
<1>1. CASE RequestClassification(n, r)
  <2> DEFINE c == [step |-> "classify", run |-> r]
  <2>1. Continue(n, c) /\ n <= turn.number /\ UNCHANGED <<turn, analysisVars>>
    BY <1>1 DEF RequestClassification, Free, Running
  <2>2. RunnerOK(c, n, execution, output, lost)
    BY DEF RunnerOK
  <2> HIDE DEF c
  <2> QED
    BY <2>1, <2>2, CallKeeps
<1>2. ASSUME NEW a \in Recorded, RequestAdoption(n, r, a) PROVE AnalysisIInv'
  <2> DEFINE c == [step |-> "verify", run |-> r, preview |-> a,
                   left |-> output[r].artifacts, verified |-> {}, lost |-> lost]
  <2>1. Continue(n, c) /\ n = turn.number /\ output[r] # None /\ UNCHANGED <<turn, analysisVars>>
    BY <1>2 DEF RequestAdoption, Free, Running
  <2>2. output[r] \in Output /\ lost \subseteq Artifacts /\ a \in Artifacts
    BY <2>1 DEF AnalysisIInv, AnalysisTypeOK, Recorded
  <2>3. c \in Confirmation
    BY <2>2 DEF Confirmation, Output
  <2>4. output[r].turn <= n
    BY <2>1 DEF AnalysisIInv, OutputsOK
  <2>5. RunnerOK(c, n, execution, output, lost)
    BY <2>1, <2>3, <2>4 DEF RunnerOK
  <2>6. n <= turn.number
    BY <2>1
  <2> HIDE DEF c
  <2> QED
    BY <2>1, <2>5, <2>6, CallKeeps
<1> QED
  BY <1>1, <1>2

LEMMA ClassifyKeeps ==
  ASSUME ResearchIInv, AnalysisIInv, NEW n \in Numbers, NEW kind \in Kinds, Classify(n, kind)
  PROVE  AnalysisIInv'
<1> DEFINE r == call[n].run
<1> USE DEF turnVars
<1>1. PICK chosen \in Choices(r) :
        Classifiable(n, r, chosen) /\ \E shown \in SUBSET chosen :
          output' = [output EXCEPT ![r] =
              [kind |-> kind, artifacts |-> chosen, shown |-> shown, turn |-> n]]
  BY DEF Classify
<1>0. PICK shown \in SUBSET chosen :
          output' = [output EXCEPT ![r] =
              [kind |-> kind, artifacts |-> chosen, shown |-> shown, turn |-> n]]
  BY <1>1
<1>2. /\ call[n].step = "classify" /\ output[r] = None /\ Continue(n, Idle)
      /\ UNCHANGED <<turn, execution, stock, lost, adoption>>
  BY DEF Classify
<1>3. r \in Executions /\ n <= turn.number /\ n \in Nat /\ chosen \in SUBSET Artifacts
  BY <1>1, <1>2, TypesOf DEF AnalysisIInv, RunnerOK, Choices, Left, Recorded
<1> DEFINE o == [kind |-> kind, artifacts |-> chosen, shown |-> shown, turn |-> n]
<1>4. o \in Output /\ o.turn = n
  BY <1>0, <1>3 DEF Output
<1> HIDE DEF o
<1>5. /\ output' = [x \in Executions |-> output'[x]]
      /\ output'[r] = o /\ \A x \in Executions : x # r => output'[x] = output[x]
  BY <1>0, <1>3 DEF AnalysisIInv, o
<1>6. execution[r].status = "completed"
  BY <1>1 DEF Classifiable
<1>7. RunnerOK(Idle, n, execution', output', lost') /\ Idle.step = "idle"
  BY DEF RunnerOK, Idle
<1>8. /\ \A m \in Numbers : RunnerOK(call'[m], m, execution', output', lost')
      /\ \A m \in Numbers : call'[m].step # "idle" => m <= turn'.number
  BY <1>2, <1>5, <1>7, RunnersMove
<1>9. OutputsOK'
  BY <1>2, <1>3, <1>4, <1>5, <1>6 DEF AnalysisIInv, OutputsOK
<1>10. AnalysisTypeOK'
  BY <1>2, <1>4, <1>5 DEF AnalysisIInv, AnalysisTypeOK
<1> QED
  BY <1>2, <1>5, <1>8, <1>9, <1>10 DEF AnalysisIInv

LEMMA VerifyKeeps ==
  ASSUME ResearchIInv, AnalysisIInv, NEW n \in Numbers, NEW a \in Recorded,
         VerifyForDelivery(n, a)
  PROVE  AnalysisIInv'
<1> DEFINE c == call[n]
           seen == IF a \in lost THEN c.verified ELSE c.verified \cup {a}
           b == [c EXCEPT !.left = c.left \ {a}]
           d == [b EXCEPT !.verified = seen]
<1> USE DEF turnVars
<1>1. /\ c.step = "verify" /\ stock' = Found(a) /\ Continue(n, d)
      /\ UNCHANGED <<turn, execution, lost, output, adoption>>
  BY DEF VerifyForDelivery
<1>2. /\ c \in Confirmation /\ n <= turn.number
      /\ output[c.run] # None /\ output[c.run].turn <= n
      /\ c.lost \subseteq lost /\ c.verified \cap c.lost = {}
  BY <1>1 DEF AnalysisIInv, RunnerOK
<1>3. a \in Artifacts
  BY DEF Recorded
<1>4. seen \in SUBSET Artifacts /\ seen \cap c.lost = {}
  BY <1>2, <1>3 DEF Confirmation
<1>5. b \in Confirmation /\ b.run = c.run /\ b.lost = c.lost
  BY <1>2 DEF Confirmation
<1> HIDE DEF b, seen
<1>6. d \in Confirmation /\ d.run = c.run /\ d.lost = c.lost /\ d.verified = seen
  BY <1>4, <1>5 DEF Confirmation
<1> HIDE DEF d
<1>7. d.step = "verify"
  BY <1>6 DEF Confirmation
<1>8. RunnerOK(d, n, execution, output, lost)
  BY <1>2, <1>4, <1>6, <1>7 DEF RunnerOK
<1> QED
  BY <1>1, <1>2, <1>8, FoundStock, AdoptionTyped, CallKeeps

LEMMA AdoptKeeps ==
  ASSUME ResearchIInv, AnalysisIInv, NEW n \in Numbers, Adopt(n)
  PROVE  AnalysisIInv'
<1> DEFINE r == call[n].run  e == [turn |-> n, path |-> turn.path]
<1> USE DEF turnVars
<1>1. /\ call[n].step = "verify" /\ Running(n) /\ adoption' = [adoption EXCEPT ![r] = e]
      /\ Continue(n, Idle) /\ UNCHANGED <<turn, execution, stock, lost, output>>
  BY DEF Adopt
<1>2. e \in AnalysisEvidence
  BY <1>1, WhoRuns, TypesOf DEF AnalysisEvidence
<1>3. RunnerOK(Idle, n, execution, output, lost) /\ Idle.step = "idle"
  BY DEF RunnerOK, Idle
<1>4. /\ adoption' = [x \in Executions |-> adoption'[x]]
      /\ \A x \in Executions : adoption'[x] \in AnalysisEvidence \cup {None}
  BY <1>1, <1>2, AdoptionTyped
<1> QED
  BY <1>1, <1>3, <1>4, AdoptionTyped, CallKeeps

LEMMA AnalysisKeeps ==
  ASSUME ResearchIInv, AnalysisIInv, AnalysisStep
  PROVE  AnalysisIInv'
<1>1. ASSUME NEW a \in Recorded, Lose(a) \/ VerifyArtifact(a) PROVE AnalysisIInv'
  <2>1. a \in Artifacts /\ lost \subseteq Artifacts /\ stock \in Stock
    BY DEF Recorded, AnalysisIInv, AnalysisTypeOK
  <2> QED
    BY <1>1, <2>1, FoundStock, FilesKeep DEF Lose, VerifyArtifact, turnVars
<1> QED
  BY <1>1, ExecuteKeeps, ProgramKeeps, RecoverKeeps, RequestKeeps, ClassifyKeeps,
     VerifyKeeps, AdoptKeeps DEF AnalysisStep

(* What a program's call does is nothing to the rest.                       *)
LEMMA AnalysisCalls ==
  ASSUME ResearchIInv, AnalysisIInv, AnalysisStep
  PROVE  /\ UNCHANGED turnVars
         /\ call' = [m \in Numbers |-> call'[m]]
         /\ \A m \in Numbers : call'[m] = call[m] \/ call'[m].step \notin OnPath
<1> USE TypesOf
<1>0. UNCHANGED call => /\ call' = [m \in Numbers |-> call'[m]]
                        /\ \A m \in Numbers : call'[m] = call[m]
  OBVIOUS
<1>1. ASSUME NEW n \in Numbers, NEW c, Continue(n, c), c.step \notin OnPath
      PROVE  /\ call' = [m \in Numbers |-> call'[m]]
             /\ \A m \in Numbers : call'[m] = call[m] \/ call'[m].step \notin OnPath
  BY <1>1, Continued
<1>2. ASSUME NEW n \in Numbers, NEW r \in Executions, NEW inputs \in SUBSET Recorded,
             Execute(n, r, inputs)
      PROVE  UNCHANGED turnVars /\ (UNCHANGED call \/ \E c : Continue(n, c) /\ c.step \notin OnPath)
  BY <1>2 DEF Execute, OnPath
<1>3. ASSUME NEW n \in Numbers, NEW s, Finish(n, call[n].run, s)
      PROVE  UNCHANGED turnVars /\ Continue(n, Idle) /\ Idle.step \notin OnPath
  BY <1>3 DEF Finish, Idle, OnPath
<1>4. ASSUME NEW n \in Numbers,
             \/ \E written \in SUBSET Names : RecordProduced(n, written)
             \/ \E r \in Executions : RequestClassification(n, r)
             \/ \E r \in Executions, a \in Recorded : RequestAdoption(n, r, a)
      PROVE  UNCHANGED turnVars /\ \E c : Continue(n, c) /\ c.step \notin OnPath
  <2>1. ASSUME NEW written \in SUBSET Names, RecordProduced(n, written)
        PROVE  UNCHANGED turnVars /\ \E c : Continue(n, c) /\ c.step \notin OnPath
    <3> DEFINE c == [step |-> "captured", run |-> call[n].run]
    <3>1. UNCHANGED turnVars /\ Continue(n, c)
      BY <2>1 DEF RecordProduced
    <3>2. c.step \notin OnPath
      BY DEF OnPath
    <3> HIDE DEF c
    <3> QED
      BY <3>1, <3>2
  <2>2. ASSUME NEW r \in Executions, RequestClassification(n, r)
        PROVE  UNCHANGED turnVars /\ \E c : Continue(n, c) /\ c.step \notin OnPath
    <3> DEFINE c == [step |-> "classify", run |-> r]
    <3>1. UNCHANGED turnVars /\ Continue(n, c)
      BY <2>2 DEF RequestClassification
    <3>2. c.step \notin OnPath
      BY DEF OnPath
    <3> HIDE DEF c
    <3> QED
      BY <3>1, <3>2
  <2>3. ASSUME NEW r \in Executions, NEW a \in Recorded, RequestAdoption(n, r, a)
        PROVE  UNCHANGED turnVars /\ \E c : Continue(n, c) /\ c.step \notin OnPath
    <3> DEFINE c == [step |-> "verify", run |-> r, preview |-> a,
                     left |-> output[r].artifacts, verified |-> {}, lost |-> lost]
    <3>1. UNCHANGED turnVars /\ Continue(n, c)
      BY <2>3 DEF RequestAdoption
    <3>2. c.step \notin OnPath
      BY DEF OnPath
    <3> HIDE DEF c
    <3> QED
      BY <3>1, <3>2
  <2> QED
    BY <1>4, <2>1, <2>2, <2>3
<1>5. ASSUME NEW n \in Numbers, (\E kind \in Kinds : Classify(n, kind)) \/ Adopt(n)
      PROVE  UNCHANGED turnVars /\ Continue(n, Idle) /\ Idle.step \notin OnPath
  BY <1>5 DEF Classify, Adopt, Idle, OnPath
<1>6. ASSUME NEW n \in Numbers, NEW a \in Recorded, VerifyForDelivery(n, a)
      PROVE  UNCHANGED turnVars /\ \E c : Continue(n, c) /\ c.step \notin OnPath
  <2> DEFINE seen == IF a \in lost THEN call[n].verified ELSE call[n].verified \cup {a}
             b == [call[n] EXCEPT !.left = call[n].left \ {a}]
             d == [b EXCEPT !.verified = seen]
  <2>1. UNCHANGED turnVars /\ Continue(n, d) /\ call[n].step = "verify"
    BY <1>6 DEF VerifyForDelivery
  <2>2. call[n] \in Confirmation
    BY <2>1 DEF AnalysisIInv, RunnerOK
  <2>3. b \in Confirmation
    BY <2>2 DEF Confirmation
  <2> HIDE DEF b, seen
  <2>4. d.step = "verify"
    BY <2>3 DEF Confirmation
  <2> HIDE DEF d
  <2> QED
    BY <2>1, <2>4 DEF OnPath
<1>7. ASSUME (\E r \in Executions, s \in Unresolved : RecoverExecution(r, s))
             \/ (\E a \in Recorded : Lose(a) \/ VerifyArtifact(a))
      PROVE  UNCHANGED <<turnVars, call>>
  BY <1>7 DEF RecoverExecution, Lose, VerifyArtifact
<1> DEFINE Calls == /\ call' = [m \in Numbers |-> call'[m]]
                    /\ \A m \in Numbers : call'[m] = call[m] \/ call'[m].step \notin OnPath
<1>8. ASSUME NEW n \in Numbers,
             UNCHANGED call \/ \E c : Continue(n, c) /\ c.step \notin OnPath
      PROVE  Calls
  BY <1>0, <1>1, <1>8
<1>9. UNCHANGED call => Calls
  BY <1>0
<1> HIDE DEF Calls
<1>10. ASSUME NEW n \in Numbers, NEW s \in SandboxErrors, FinishError(n, s)
       PROVE  UNCHANGED turnVars /\ Calls
  BY <1>3, <1>8, <1>10 DEF FinishError
<1>11. ASSUME NEW n \in Numbers, CaptureFails(n) \/ \E exit \in {0, 1} : CompleteExecution(n, exit)
       PROVE  UNCHANGED turnVars /\ Calls
  BY <1>3, <1>8, <1>11 DEF CaptureFails, CompleteExecution
<1> QED
  <2>1. UNCHANGED turnVars /\ Calls
    BY <1>2, <1>4, <1>5, <1>6, <1>7, <1>8, <1>9, <1>10, <1>11 DEF AnalysisStep
  <2> QED
    BY <2>1 DEF Calls

LEMMA ResearchStays ==
  ASSUME ResearchIInv, AnalysisIInv, AnalysisStep, UNCHANGED <<evidenceVars, documentVars>>
  PROVE  ResearchIInv'
<1>1. ASSUME NEW m \in Numbers, call'[m].step \notin OnPath
      PROVE  CallOK(call'[m], paths, DOMAIN plans, slot)
  BY <1>1 DEF CallOK, OnPath, OfResult
<1> QED
  BY <1>1, AnalysisCalls, TypesOf, Kept DEF turnVars, evidenceVars, documentVars

-----------------------------------------------------------------------------
(* Who moves a slot, and what it was moved on.                             *)

LEMMA OneSlotMoves ==
  ASSUME ResearchIInv, NEW p \in Paths, NEW s \in Slots, NEW a,
         slot' = [slot EXCEPT ![p] = a],
         \A t \in Slots : t # s => a[t] = slot[p][t]
  PROVE  /\ slot'[p] = a
         /\ \A q \in Paths, t \in Slots : q # p \/ t # s => slot'[q][t] = slot[q][t]
<1>1. slot'[p] = a /\ \A q \in Paths : q # p => slot'[q] = slot[q]
  BY SlotsTyped
<1> QED
  BY <1>1

LEMMA AdoptedSlot ==
  ASSUME ResearchIInv, NEW p \in Paths, NEW s \in Slots, NEW target
  PROVE  /\ Adopted(p, s, target)[s].target = target
         /\ \A t \in Slots : t # s => Adopted(p, s, target)[t] = slot[p][t]
<1> DEFINE a == Adopted(p, s, target)
<1>1. /\ a[s] = [target |-> target, pointer |-> slot[p][s].pointer + 1]
      /\ \A t \in Slots : t # s => a[t] = slot[p][t]
  BY AdoptedIs
<1> HIDE DEF a
<1>2. a[s].target = target /\ \A t \in Slots : t # s => a[t] = slot[p][t]
  BY <1>1
<1> QED
  BY <1>2 DEF a

LEMMA SlotCases ==
  ASSUME ResearchIInv, Next
  PROVE  \/ \A p \in paths : slot'[p] = slot[p]
         \/ \E n \in Numbers : \/ AdoptPlanRevision(n) \/ AdoptPathData(n)
                               \/ AdoptPathResult(n) \/ FinalizeDelivery(n)
         \/ \E n \in Numbers, d \in Data \cup {None}, r \in Results \cup {None},
               v \in {None} \cup DOMAIN plans : AdoptResearchBundle(n, d, r, v)
         \/ \E clean \in BOOLEAN : FinalizeReturn(clean)
<1> DEFINE Still == \A p \in paths : slot'[p] = slot[p]
<1>0. UNCHANGED slot => Still
  OBVIOUS
<1>1. ASSUME NEW n \in Numbers, NEW q \in Paths, CreatePathBranch(n, q) PROVE Still
  <2> DEFINE a == Branched(call[n].path)
  <2>1. q \notin paths /\ slot' = [slot EXCEPT ![q] = a]
    BY <1>1 DEF CreatePathBranch
  <2> HIDE DEF a
  <2> QED
    BY <2>1, SlotsTyped, TypesOf
<1> HIDE DEF Still
<1>2. ASSUME ResearchStep, ~ \E n \in Numbers : AdoptPlanRevision(n) PROVE Still
  <2>1. ASSUME \/ \E p \in paths : StartTurn(p) \/ RequestBranch(p)
               \/ EndTurn \/ OtherCommand
               \/ \E n \in Numbers : \/ Fail(n) \/ CompleteBranch(n) \/ CreatePlanRevision(n)
                                     \/ \E t \in Contents : CommitProposal(n, t)
        PROVE  UNCHANGED slot
    BY <2>1 DEF StartTurn, RequestBranch, Started, EndTurn, Ended, OtherCommand, Fail,
                CompleteBranch, CreatePlanRevision, CommitProposal, turnVars
  <2> QED
    BY <1>0, <1>1, <1>2, <2>1 DEF ResearchStep
<1>3. Crash => UNCHANGED slot
  BY DEF Crash, Ended
<1>4. ASSUME NEW n \in Numbers, EvidenceStep(n)
      PROVE  \/ UNCHANGED slot \/ AdoptPathData(n) \/ AdoptPathResult(n)
             \/ \E d \in Data \cup {None}, r \in Results \cup {None},
                   v \in {None} \cup DOMAIN plans : AdoptResearchBundle(n, d, r, v)
  <2>1. ASSUME \/ Intake(n) \/ PrepareExport(n) \/ CommitVerification(n)
               \/ \E r \in Results, d \in Data : RunFormally(n, r, d)
               \/ \E r \in Results : CommitQualification(n, r)
               \/ \E t \in tables : LoseTable(n, t)
        PROVE  UNCHANGED slot
    BY <2>1 DEF Intake, PrepareExport, CommitVerification, RunFormally, CommitQualification,
                LoseTable, turnVars
  <2> QED
    BY <1>4, <2>1 DEF EvidenceStep
<1>5. DocumentStep => \/ UNCHANGED slot \/ \E n \in Numbers : FinalizeDelivery(n)
                      \/ \E clean \in BOOLEAN : FinalizeReturn(clean)
  BY DEF DocumentStep, PrepareRender, PrepareReturn, RejectReturn, FailReturn, turnVars
<1>6. CASE ResearchStep
  BY <1>2, <1>6 DEF Still
<1> QED
  BY <1>0, <1>3, <1>4, <1>5, <1>6 DEF Still, Next

LEMMA ResultMoves ==
  ASSUME ResearchIInv, Next, NEW p \in paths, slot'[p]["result"] # slot[p]["result"]
  PROVE  slot'[p]["data"].target = results'[slot'[p]["result"].target].data
<1> USE TypesOf
<1>0. p \in Paths /\ "plan" \in Slots /\ "data" \in Slots /\ "result" \in Slots
  BY DEF Slots
<1>1. ASSUME NEW n \in Numbers, AdoptPlanRevision(n) \/ AdoptPathData(n) PROVE FALSE
  <2>1. call[n].path \in Paths
    BY <1>1 DEF AdoptPlanRevision, AdoptPathData, CallOK, OnPath
  <2>2. PICK q \in Paths, s \in Slots :
           s # "result" /\ \E target : slot' = [slot EXCEPT ![q] = Adopted(q, s, target)]
    BY <1>0, <1>1, <2>1 DEF AdoptPlanRevision, AdoptPathData
  <2>5. PICK target : slot' = [slot EXCEPT ![q] = Adopted(q, s, target)]
    BY <2>2
  <2> DEFINE a == Adopted(q, s, target)
  <2>3. slot' = [slot EXCEPT ![q] = a] /\ \A t \in Slots : t # s => a[t] = slot[q][t]
    BY <2>5, AdoptedSlot
  <2> HIDE DEF a
  <2>4. \A o \in Paths, t \in Slots : o # q \/ t # s => slot'[o][t] = slot[o][t]
    BY <2>3, OneSlotMoves
  <2> QED
    BY <1>0, <2>2, <2>4
<1>2. ASSUME NEW n \in Numbers, AdoptPathResult(n)
      PROVE  slot'[p]["data"].target = results'[slot'[p]["result"].target].data
  <2> DEFINE r == call[n].result
  <2>1. call[n].path \in Paths
    BY <1>2 DEF AdoptPathResult, CallOK, OnPath
  <2>2. PICK q \in Paths : /\ DataCurrent(q, r) /\ results' = results
                           /\ slot' = [slot EXCEPT ![q] = Adopted(q, "result", r)]
    BY <1>2, <2>1 DEF AdoptPathResult, evidenceVars
  <2> HIDE DEF r
  <2> DEFINE a == Adopted(q, "result", r)
  <2>3. /\ slot' = [slot EXCEPT ![q] = a] /\ a["result"].target = r
        /\ \A t \in Slots : t # "result" => a[t] = slot[q][t]
    BY <1>0, <2>2, AdoptedSlot
  <2> HIDE DEF a
  <2>4. /\ slot'[q] = a
        /\ \A o \in Paths, t \in Slots : o # q \/ t # "result" => slot'[o][t] = slot[o][t]
    BY <1>0, <2>3, OneSlotMoves
  <2>5. p = q /\ slot'[p]["data"] = slot[p]["data"]
    BY <1>0, <2>4
  <2> QED
    BY <2>2, <2>3, <2>4, <2>5 DEF DataCurrent
<1>3. ASSUME NEW n \in Numbers, NEW d \in Data \cup {None}, NEW r \in Results \cup {None},
             NEW v \in {None} \cup DOMAIN plans, AdoptResearchBundle(n, d, r, v)
      PROVE  slot'[p]["data"].target = results'[slot'[p]["result"].target].data
  <2> DEFINE q == turn.path  a == Bundled(q, d, r, v)
  <2>1. /\ Running(n) /\ slot' = [slot EXCEPT ![q] = a]
        /\ UNCHANGED <<turn, paths, studies, plans, call, evidenceVars>>
        /\ r # None => BundleIsClosed(q, a)
    BY <1>3, BundleStep
  <2>2. q \in Paths
    BY <2>1, WhoRuns
  <2>3. (r = None => a["result"] = slot[q]["result"]) /\ (r # None => a["result"].target = r)
    BY <2>2, BundledIs
  <2> HIDE DEF a, q
  <2>4. slot'[q] = a /\ \A o \in Paths : o # q => slot'[o] = slot[o]
    BY <2>1, <2>2, SlotsTyped
  <2>5. p = q /\ r # None
    BY <1>0, <2>3, <2>4
  <2> QED
    BY <2>1, <2>3, <2>4, <2>5 DEF BundleIsClosed, evidenceVars
<1>4. ASSUME NEW c, NEW document, AdoptDocument(c, document), c.path \in Paths PROVE FALSE
  <2> DEFINE a == Filed(c.path, document.gate)  q == c.path
  <2>1. slot' = [slot EXCEPT ![q] = a]
    BY <1>4, AdoptDocumentStep
  <2>2. a["result"] = slot[q]["result"]
    <3> HIDE DEF q
    <3>1. q \in Paths
      BY <1>4 DEF q
    <3>2. Filed(q, document.gate)["result"] = slot[q]["result"]
      BY <3>1, FiledIs
    <3> QED
      BY <3>2 DEF q
  <2> HIDE DEF a
  <2>3. slot'[q] = a /\ \A o \in Paths : o # q => slot'[o] = slot[o]
    BY <1>4, <2>1, SlotsTyped
  <2> QED
    BY <1>0, <2>2, <2>3
<1>5. ASSUME NEW n \in Numbers, FinalizeDelivery(n) PROVE FALSE
  <2>1. call[n].path \in Paths
    BY <1>5 DEF FinalizeDelivery, CallOK, OnPath
  <2> QED
    BY <1>4, <1>5, <2>1 DEF FinalizeDelivery
<1>6. ASSUME NEW clean \in BOOLEAN, FinalizeReturn(clean) PROVE FALSE
  <2>1. returning.path \in Paths
    BY <1>6 DEF FinalizeReturn, ReturnBound, ReturnOK
  <2> QED
    BY <1>4, <1>6, <2>1, ReturnStep
<1> QED
  BY <1>1, <1>2, <1>3, <1>5, <1>6, SlotCases

(* Only the call that brings a document ends with it, and what it replaces  *)
(* was there when the call began.                                           *)
LEMMA SeenIs ==
  ASSUME NEW c, Seen(c, slot), WorkingUnmoved(c)
  PROVE  slot[c.path]["working"].target # None => slot[c.path]["working"].target <= c.begun
  BY DEF Seen, WorkingUnmoved

LEMMA DocumentCases ==
  ASSUME Next, documents' # documents
  PROVE  (\E n \in Numbers : FinalizeDelivery(n)) \/ (\E clean \in BOOLEAN : FinalizeReturn(clean))
  BY DEF Next, documentVars, DocumentStep, PrepareRender, PrepareReturn, RejectReturn, FailReturn

LEMMA ReplacedWasSeen ==
  ASSUME ResearchIInv, Next, NEW c \in InFlight, documents' # documents,
         c.step \in {"render", "return"}, c \notin InFlight'
  PROVE  LET replaced == slot[c.path]["working"].target
         IN  replaced # None => replaced <= c.begun
<1> USE TypesOf
<1>1. ASSUME NEW n \in Numbers, FinalizeDelivery(n)
      PROVE  Seen(c, slot) /\ WorkingUnmoved(c)
  <2>1. /\ call[n].step = "render" /\ WorkingUnmoved(call[n]) /\ Continue(n, Idle)
        /\ returning' = returning
    BY <1>1 DEF FinalizeDelivery, AdoptDocument
  <2>2. \A m \in Numbers \ {n} : call'[m] = call[m]
    BY <2>1, Continued
  <2>3. c = call[n]
    BY <2>1, <2>2 DEF InFlight
  <2>4. Seen(call[n], slot)
    BY <2>1 DEF CallOK
  <2> QED
    BY <2>1, <2>3, <2>4
<1>2. ASSUME NEW clean \in BOOLEAN, FinalizeReturn(clean)
      PROVE  Seen(c, slot) /\ WorkingUnmoved(c)
  <2>1. returning.step = "return" /\ WorkingUnmoved(returning) /\ call' = call
    BY <1>2 DEF FinalizeReturn, AdoptDocument, ReturnBound
  <2>2. c = returning
    BY <2>1 DEF InFlight
  <2>3. Seen(returning, slot)
    BY <2>1 DEF ReturnOK
  <2> QED
    BY <2>1, <2>2, <2>3
<1>3. Seen(c, slot) /\ WorkingUnmoved(c)
  BY <1>1, <1>2, DocumentCases
<1> QED
  BY <1>3, SeenIs

LEMMA AdoptionMoves ==
  ASSUME ResearchIInv, AnalysisIInv, AnalysisStep, NEW r \in Executions,
         adoption'[r] # adoption[r]
  PROVE  Confirmed(r)
<1>1. PICK n \in Numbers : Adopt(n)
  BY DEF AnalysisStep, Execute, FinishError, RecordProduced, CaptureFails, CompleteExecution,
         RequestClassification, Classify, RequestAdoption, VerifyForDelivery, RecoverExecution,
         Lose, VerifyArtifact, Finish, analysisVars
<1> DEFINE c == call[n]  o == output[c.run]
<1>2. /\ c.step = "verify" /\ ReceiptsHold(c) /\ o.turn # n
      /\ \E e : adoption' = [adoption EXCEPT ![c.run] = e]
  BY <1>1 DEF Adopt
<1>3. /\ c \in Confirmation /\ o # None /\ o.turn <= n /\ c.verified \cap c.lost = {}
  BY <1>2 DEF AnalysisIInv, RunnerOK
<1>4. c.run = r
  BY <1>2, AdoptionTyped
<1>5. o.turn \in Nat /\ n \in Nat /\ execution[r].status = "completed"
  BY <1>3, <1>4, TypesOf DEF AnalysisIInv, AnalysisTypeOK, OutputsOK, Output
<1>6. o.turn < n
  BY <1>2, <1>3, <1>5
<1>7. /\ o.artifacts \cap c.lost = {} /\ \A a \in o.artifacts : stock[a] = "available"
  BY <1>2, <1>3 DEF ReceiptsHold
<1> QED
  BY <1>2, <1>4, <1>5, <1>6, <1>7 DEF Confirmed

-----------------------------------------------------------------------------
(* What a branch request saw.                                              *)

(* Nothing was committed behind the request of the turn that runs: what it  *)
(* saw of its path is what the path has.                                    *)
ShownIsCurrent ==
    undisturbed => \A n \in Numbers :
        Running(n) /\ call[n].step = "branch" => call[n].shown = slot[call[n].path]

LEMMA EvidenceCommits ==
  ASSUME NEW n \in Numbers, EvidenceStep(n)
  PROVE  Committed /\ UNCHANGED paths
<1>1. Intake(n) => Committed /\ UNCHANGED paths
  BY DEF Intake, turnVars
<1>2. ASSUME NEW r \in Results, NEW d \in Data, RunFormally(n, r, d)
      PROVE  Committed /\ UNCHANGED paths
  BY <1>2 DEF RunFormally, turnVars
<1>3. ASSUME NEW r \in Results, CommitQualification(n, r)
      PROVE  Committed /\ UNCHANGED paths
  BY <1>3 DEF CommitQualification, turnVars
<1>4. AdoptPathData(n) \/ AdoptPathResult(n) => Committed /\ UNCHANGED paths
  BY DEF AdoptPathData, AdoptPathResult
<1>5. ASSUME NEW d \in Data \cup {None}, NEW r \in Results \cup {None},
             NEW v \in {None} \cup DOMAIN plans, AdoptResearchBundle(n, d, r, v)
      PROVE  Committed /\ UNCHANGED paths
  BY <1>5 DEF AdoptResearchBundle
<1>6. PrepareExport(n) \/ CommitVerification(n) => Committed /\ UNCHANGED paths
  BY DEF PrepareExport, CommitVerification, turnVars
<1>7. ASSUME NEW t \in tables, LoseTable(n, t)
      PROVE  Committed /\ UNCHANGED paths
  BY <1>7 DEF LoseTable, turnVars
<1> QED
  BY <1>1, <1>2, <1>3, <1>4, <1>5, <1>6, <1>7 DEF EvidenceStep

(* A step commits, asks for a branch, or moves no slot and asks for nothing.*)
LEMMA CommitCases ==
  ASSUME ResearchIInv, AnalysisIInv, AnalysisNext
  PROVE  \/ undisturbed' = FALSE
         \/ \E p \in paths : RequestBranch(p)
         \/ /\ UNCHANGED <<turn, slot, undisturbed>>
            /\ \A n \in Numbers : call'[n] = call[n] \/ call'[n].step # "branch"
<1> DEFINE NoNewBranch(n) == call'[n] = call[n] \/ call'[n].step # "branch"
           Quiet == UNCHANGED <<turn, slot, undisturbed>> /\ \A n \in Numbers : NoNewBranch(n)
<1>0. ASSUME NEW n \in Numbers, NEW c, Continue(n, c), c.step # "branch",
             UNCHANGED <<turn, slot, undisturbed>>
      PROVE  Quiet
  BY <1>0, TypesOf, Continued
<1>1. ASSUME NEW n \in Numbers, Fail(n)
      PROVE  Quiet
  BY <1>0, <1>1, IdleIsOK DEF Fail, turnVars
<1>2. ASSUME NEW n \in Numbers, NEW t \in Contents, CommitProposal(n, t)
      PROVE  Quiet
  <2> DEFINE c == [step |-> "create", path |-> turn.path, text |-> t,
                   parent |-> slot[turn.path]["plan"].target,
                   pointer |-> slot[turn.path]["plan"].pointer]
  <2>1. Continue(n, c) /\ UNCHANGED <<turn, slot, undisturbed>>
    BY <1>2 DEF CommitProposal, turnVars
  <2>2. c.step # "branch"
    OBVIOUS
  <2> HIDE DEF c, Quiet
  <2> QED
    BY <1>0, <2>1, <2>2
<1>3. CASE AnalysisStep
  <2>1. Committed \/ UNCHANGED undisturbed
    BY <1>3 DEF AnalysisStep, Execute, FinishError, Finish, RecordProduced, CaptureFails,
                CompleteExecution, RequestClassification, Classify, RequestAdoption,
                VerifyForDelivery, Adopt, RecoverExecution, Lose, VerifyArtifact
  <2>2. UNCHANGED turnVars /\ \A n \in Numbers : NoNewBranch(n)
    BY <1>3, AnalysisCalls DEF OnPath
  <2> QED
    BY <2>1, <2>2 DEF Committed, turnVars
<1>4. CASE FailReturn
  BY <1>4 DEF FailReturn, turnVars
<1> HIDE DEF Quiet
<1>5. CASE ResearchStep
  <2>1. ASSUME \/ \E p \in paths : StartTurn(p)
               \/ EndTurn \/ OtherCommand
               \/ \E n \in Numbers : \/ CreatePlanRevision(n) \/ AdoptPlanRevision(n)
                                     \/ CompleteBranch(n)
                                     \/ \E q \in Paths : CreatePathBranch(n, q)
        PROVE  Committed
    BY <2>1 DEF StartTurn, EndTurn, OtherCommand, CreatePlanRevision, AdoptPlanRevision,
                CompleteBranch, CreatePathBranch
  <2> QED
    BY <1>1, <1>2, <1>5, <2>1 DEF ResearchStep, Committed, Quiet
<1>6. ASSUME NEW n \in Numbers, EvidenceStep(n)
      PROVE  Committed
  BY <1>6, EvidenceCommits
<1>7. DocumentStep => Committed \/ FailReturn
  BY DEF DocumentStep, PrepareRender, FinalizeDelivery, PrepareReturn, FinalizeReturn, RejectReturn
<1>8. Crash => Committed
  BY DEF Crash
<1> QED
  BY <1>3, <1>4, <1>5, <1>6, <1>7, <1>8 DEF AnalysisNext, Next, Committed

LEMMA ShownStep ==
  ASSUME ResearchIInv, AnalysisIInv, ShownIsCurrent, AnalysisNext
  PROVE  ShownIsCurrent'
<1>1. ASSUME NEW p \in paths, RequestBranch(p)
      PROVE  ShownIsCurrent'
  <2> DEFINE m == turn.number + 1  c == [step |-> "branch", path |-> p, shown |-> slot[p]]
  <2>1. m \in Numbers /\ Continue(m, c) /\ turn'.number = m /\ UNCHANGED slot
    BY <1>1, StartedTurn DEF RequestBranch, Started
  <2>2. c.path = p /\ c.shown = slot[p]
    OBVIOUS
  <2> HIDE DEF m, c
  <2>3. call'[m] = c
    BY <2>1, TypesOf, Continued
  <2> QED
    BY <2>1, <2>2, <2>3 DEF ShownIsCurrent, Running
<1>2. ASSUME UNCHANGED <<turn, slot, undisturbed>>,
             \A n \in Numbers : call'[n] = call[n] \/ call'[n].step # "branch"
      PROVE  ShownIsCurrent'
  BY <1>2 DEF ShownIsCurrent, Running
<1>3. undisturbed' = FALSE => ShownIsCurrent'
  BY DEF ShownIsCurrent
<1> QED
  BY <1>1, <1>2, <1>3, CommitCases

LEMMA PathsGrow ==
  ASSUME ResearchIInv, AnalysisIInv, AnalysisNext, paths' # paths
  PROVE  \E n \in Numbers, q \in Paths : CreatePathBranch(n, q)
<1>1. ~AnalysisStep
  BY AnalysisCalls DEF turnVars
<1>2. ASSUME NEW n \in Numbers, EvidenceStep(n)
      PROVE  FALSE
  BY <1>2, EvidenceCommits
<1>3. ~DocumentStep
  BY DEF DocumentStep, PrepareRender, FinalizeDelivery, PrepareReturn, FinalizeReturn, RejectReturn,
         FailReturn, AdoptDocument, turnVars
<1>4. ~Crash
  BY DEF Crash, Ended
<1>5. ResearchStep
  BY <1>1, <1>2, <1>3, <1>4 DEF AnalysisNext, Next
<1> QED
  BY <1>5 DEF ResearchStep, StartTurn, RequestBranch, Started, EndTurn, Ended, OtherCommand, Fail,
              CommitProposal, CreatePlanRevision, AdoptPlanRevision, CompleteBranch, turnVars

LEMMA BranchMoves ==
  ASSUME ResearchIInv, AnalysisIInv, ShownIsCurrent, AnalysisNext,
         NEW n \in Numbers, NEW q \in Paths \ paths, q \in paths',
         call[n].step = "branch", call'[n].step = "complete", NEW s \in Slots
  PROVE  slot'[q][s].target = call[n].shown[s].target
<1>1. PICK m \in Numbers, r \in Paths : CreatePathBranch(m, r)
  BY PathsGrow
<1> DEFINE a == Branched(call[m].path)  c == [step |-> "complete", path |-> call[m].path]
<1>2. /\ undisturbed /\ Running(m) /\ call[m].step = "branch" /\ Bound(m)
      /\ paths' = paths \cup {r} /\ slot' = [slot EXCEPT ![r] = a] /\ Continue(m, c)
  BY <1>1 DEF CreatePathBranch, BranchOnExpected, Bound
<1>3. a[s] = Copied(slot[call[m].path][s])
  BY DEF Branched
<1> HIDE DEF a, c
<1>4. r = q /\ m = n
  BY <1>2, TypesOf, Continued
<1>5. slot'[q] = a
  BY <1>2, <1>4, SlotsTyped
<1>6. call[n].shown = slot[call[n].path] /\ call[n].path \in Paths
  BY <1>2, <1>4, WhoRuns DEF ShownIsCurrent, Bound
<1>7. slot[call[n].path][s].target = Copied(slot[call[n].path][s]).target
  BY DEF Copied, Empty
<1> QED
  BY <1>3, <1>4, <1>5, <1>6, <1>7

-----------------------------------------------------------------------------
(* The theorems.                                                           *)

AnalysisInvariant == ResearchIInv /\ AnalysisIInv

LEMMA AnalysisHolds == AnalysisSpec => []AnalysisInvariant
<1>1. Init /\ AnalysisInit => AnalysisInvariant
  BY ResearchBegins, AnalysisBegins DEF AnalysisInvariant
<1>2. AnalysisInvariant /\ [AnalysisNext]_<<vars, analysisVars>> => AnalysisInvariant'
  <2> SUFFICES ASSUME AnalysisInvariant, [AnalysisNext]_<<vars, analysisVars>>
               PROVE  AnalysisInvariant'
    OBVIOUS
  <2>1. CASE Next /\ UNCHANGED analysisVars
    BY <2>1, NextKeeps, OthersKeepAnalysis DEF AnalysisInvariant
  <2>2. CASE AnalysisStep /\ UNCHANGED <<evidenceVars, documentVars>>
    BY <2>2, AnalysisKeeps, ResearchStays DEF AnalysisInvariant
  <2>3. CASE UNCHANGED <<vars, analysisVars>>
    <3>1. ResearchIInv'
      BY <2>3, TypesOf, Kept
         DEF AnalysisInvariant, vars, turnVars, evidenceVars, documentVars
    <3>2. AnalysisIInv'
      BY <2>3, FilesKeep, AdoptionTyped
         DEF AnalysisInvariant, vars, turnVars, analysisVars, AnalysisIInv, AnalysisTypeOK
    <3> QED
      BY <3>1, <3>2 DEF AnalysisInvariant
  <2> QED
    BY <2>1, <2>2, <2>3 DEF AnalysisNext
<1> QED
  BY <1>1, <1>2, PTL DEF AnalysisSpec

(* What is there of paths, plans, data, results, tables and documents is    *)
(* always of its type.                                                      *)
THEOREM DocumentTypeOKHolds == AnalysisSpec => []DocumentTypeOK
<1>1. AnalysisInvariant => DocumentTypeOK
  BY DEF AnalysisInvariant, ResearchIInv
<1> QED
  BY <1>1, AnalysisHolds, PTL

(* Every delivered document passed its gate, and so did each document it    *)
(* was made from (document_roundtrip_store.py).                             *)
THEOREM DeliveredPassedAllAlongHolds == AnalysisSpec => []DeliveredPassedAllAlong
<1>1. AnalysisInvariant => DeliveredPassedAllAlong
  BY DEF AnalysisInvariant, ResearchIInv
<1> QED
  BY <1>1, AnalysisHolds, PTL

(* A path adopts a result only together with, or after, the data the result *)
(* was computed from (research_state_store.py, evidence_store.py).          *)
THEOREM ResultComesWithItsDataHolds == AnalysisSpec => ResultComesWithItsData
<1>1. AnalysisInvariant /\ [AnalysisNext]_<<vars, analysisVars>> =>
        [\A p \in paths :
           slot'[p]["result"] # slot[p]["result"]
           => slot'[p]["data"].target
                = results'[slot'[p]["result"].target].data]_<<slot, paths, results>>
  <2> SUFFICES ASSUME AnalysisInvariant, AnalysisNext, NEW p \in paths,
                      slot'[p]["result"] # slot[p]["result"]
               PROVE  slot'[p]["data"].target = results'[slot'[p]["result"].target].data
    BY DEF vars, turnVars, evidenceVars
  <2>1. Next
    BY AnalysisCalls DEF AnalysisInvariant, AnalysisNext, turnVars
  <2> QED
    BY <2>1, ResultMoves DEF AnalysisInvariant
<1> QED
  BY <1>1, AnalysisHolds, PTL DEF AnalysisSpec, ResultComesWithItsData

(* A branch starts from what its path had adopted when the branch was asked *)
(* for, whatever calls of earlier turns and other commands commit between   *)
(* the request and the branch (research_state_store.py create_path_branch). *)
THEOREM BranchAsShownHolds == AnalysisSpec => BranchAsShown
<1>1. Init /\ AnalysisInit => ShownIsCurrent
  BY DEF Init, ResearchInit, ShownIsCurrent
<1>2. AnalysisInvariant /\ ShownIsCurrent /\ [AnalysisNext]_<<vars, analysisVars>> => ShownIsCurrent'
  <2>1. AnalysisInvariant /\ ShownIsCurrent /\ AnalysisNext => ShownIsCurrent'
    BY ShownStep DEF AnalysisInvariant
  <2>2. ShownIsCurrent /\ UNCHANGED <<vars, analysisVars>> => ShownIsCurrent'
    BY DEF ShownIsCurrent, Running, vars, turnVars
  <2> QED
    BY <2>1, <2>2
<1>3. AnalysisInvariant /\ ShownIsCurrent /\ [AnalysisNext]_<<vars, analysisVars>> =>
        [\A n \in Numbers, q \in Paths \ paths :
           q \in paths' /\ call[n].step = "branch" /\ call'[n].step = "complete"
           => \A s \in Slots : slot'[q][s].target = call[n].shown[s].target]_<<call, paths, slot>>
  BY BranchMoves DEF AnalysisInvariant, vars, turnVars
<1> QED
  BY <1>1, <1>2, <1>3, AnalysisHolds, PTL DEF AnalysisSpec, BranchAsShown

(* A rendering or a return never pushes aside a working document that came  *)
(* after it began (document_delivery_store.py, document_roundtrip_store.py).*)
THEOREM NothingIsReplacedUnseenHolds == AnalysisSpec => NothingIsReplacedUnseen
<1>1. AnalysisInvariant /\ [AnalysisNext]_<<vars, analysisVars>> =>
        [\A c \in InFlight :
           documents' # documents /\ c.step \in {"render", "return"} /\ c \notin InFlight'
           => LET replaced == slot[c.path]["working"].target
              IN  replaced # None => replaced <= c.begun]_vars
  <2> SUFFICES ASSUME AnalysisInvariant, AnalysisNext, documents' # documents,
                      NEW c \in InFlight, c.step \in {"render", "return"}, c \notin InFlight'
               PROVE  LET replaced == slot[c.path]["working"].target
                      IN  replaced # None => replaced <= c.begun
    OBVIOUS
  <2>1. Next
    BY DEF AnalysisNext, documentVars
  <2> QED
    BY <2>1, ReplacedWasSeen DEF AnalysisInvariant
<1> QED
  BY <1>1, AnalysisHolds, PTL DEF AnalysisSpec, NothingIsReplacedUnseen

(* What the user adopts was whole when the confirmation came in, in a later *)
(* turn than the one that made it, from a run that completed                *)
(* (analysis_output_store.py, analysis_output_executor.py).                 *)
THEOREM ConfirmedIsThereHolds == AnalysisSpec => ConfirmedIsThere
<1>1. AnalysisInvariant /\ [AnalysisNext]_<<vars, analysisVars>> =>
        [\A r \in Executions : adoption'[r] # adoption[r] => Confirmed(r)
        ]_<<turnVars, call, analysisVars>>
  <2> SUFFICES ASSUME AnalysisInvariant, AnalysisNext, NEW r \in Executions,
                      adoption'[r] # adoption[r]
               PROVE  Confirmed(r)
    BY DEF vars
  <2>1. AnalysisStep
    BY DEF AnalysisNext, analysisVars
  <2> QED
    BY <2>1, AdoptionMoves DEF AnalysisInvariant
<1> QED
  BY <1>1, AnalysisHolds, PTL DEF AnalysisSpec, ConfirmedIsThere
=============================================================================
