------------------------------ MODULE Documents ------------------------------
(***************************************************************************)
(* The Word documents of the research paths: rendering a verified table to  *)
(* a document and adopting it (persistence/document_delivery_store.py), and *)
(* taking back what the user made of it (document_roundtrip_store.py).      *)
(*                                                                         *)
(* Each takes two commits, with the renderer or the comparison between: the *)
(* first records the operation, the second checks everything again and      *)
(* moves the working and the delivered document of the path.  The user's    *)
(* document is imported in the name of the running turn, beside its tools.  *)
(***************************************************************************)
EXTENDS Evidence

CONSTANT MaxDocuments   \* bound of the model: document revisions
ASSUME DocumentsAssumption == MaxDocuments \in Nat

VARIABLES
    documents,  \* document_revisions with their gate reports
    returning   \* the return that is being imported

documentVars == <<documents, returning>>
vars == <<turnVars, call, undisturbed, evidenceVars, documentVars>>

DocumentRevision == [path : Paths, parent : Nat \cup {None}, result : Results,
                     gate : {"pass", "fail"}]
DocumentAdoption == Adoption(DOMAIN documents)

DocumentsInit == documents = <<>> /\ returning = Idle
Init == ResearchInit /\ EvidenceInit /\ DocumentsInit

Verdict(passes) == IF passes THEN "pass" ELSE "fail"

(* Mutant: the working pointer is not compared.                             *)
AnyWorking(c) == TRUE
WorkingUnmoved(c) == slot[c.path]["working"].pointer = c.working

(* The document becomes the working one, and the delivered one if its gate  *)
(* passed.                                                                  *)
AdoptDocument(c, document) ==
    /\ Len(documents) < MaxDocuments
    /\ documents' = Append(documents, document)
    /\ WorkingUnmoved(c)
    /\ document.gate = "pass" => slot[c.path]["delivery"].pointer = c.delivery
    /\ slot' = [slot EXCEPT ![c.path] =
           LET worked == Adopted(c.path, "working", Len(documents) + 1)
           IN  IF document.gate = "pass"
               THEN [worked EXCEPT !["delivery"] =
                        [target |-> Len(documents) + 1, pointer |-> @.pointer + 1]]
               ELSE worked]
    /\ UNCHANGED <<turn, paths, studies, plans, planned>>

-----------------------------------------------------------------------------
(* Rendering.                                                               *)

(* The table passes its gates, its artifact is available, and the result it *)
(* was made of is the adopted one.                                          *)
DeliverySource(n, c) ==
    /\ <<n, c.path, c.result>> \in tables
    /\ slot[c.path]["result"].target = c.result

PrepareRender(n) ==
    LET c == call[n]
    IN  /\ c.step = "deliver"
        /\ Bound(n)
        /\ DeliverySource(n, c)
        /\ Continue(n, [step |-> "render", path |-> c.path, result |-> c.result,
                        working |-> c.working, delivery |-> c.delivery,
                        begun |-> Len(documents)])
        /\ Committed
        /\ UNCHANGED <<turnVars, evidenceVars, documentVars>>

(* The evidence is validated again in the transaction that delivers.        *)
EvidenceHolds(p, r) == Eligible(p, r)

FinalizeDelivery(n) ==
    LET c == call[n]
    IN  /\ c.step = "render"
        /\ Bound(n)
        /\ DeliverySource(n, c)
        /\ EvidenceHolds(c.path, c.result)
        /\ AdoptDocument(c, [path |-> c.path, parent |-> None, result |-> c.result,
                             gate |-> "pass"])
        /\ Continue(n, Idle)
        /\ Committed
        /\ UNCHANGED <<evidenceVars, returning>>

-----------------------------------------------------------------------------
(* Taking back a document the user worked on.                               *)

(* What the user sends is compared with the document it was made from,      *)
(* which has to be the working document, of this path and not of the one it *)
(* was branched from.                                                       *)
PrepareReturn ==
    LET p == turn.path
        base == slot[p]["working"].target
    IN  /\ returning = Idle
        /\ p # None
        /\ base # None
        /\ documents[base].path = p
        /\ returning' = [step |-> "return", turn |-> turn.number, path |-> p, base |-> base,
                         working |-> slot[p]["working"].pointer,
                         delivery |-> slot[p]["delivery"].pointer,
                         begun |-> Len(documents)]
        /\ Committed
        /\ UNCHANGED <<turnVars, call, evidenceVars, documents>>

ReturnBound == returning.step = "return" /\ turn = [number |-> returning.turn, path |-> returning.path]

(* Mutant: a clean return of a document that did not pass is delivered.     *)
CleanReturnPasses(base, clean) == clean
ReturnPasses(base, clean) == clean /\ documents[base].gate = "pass"

(* The document the user sent, made of the one it is compared with.         *)
Returned(c, passes) ==
    [path |-> c.path, parent |-> c.base, result |-> documents[c.base].result,
     gate |-> Verdict(passes)]

(* A return that changes nothing the evidence rests on may be delivered: if *)
(* the evidence still holds, and otherwise it is refused as a whole.  Any   *)
(* other return that can be read becomes the working document only.         *)
FinalizeReturn(clean) ==
    LET c == returning
        passes == ReturnPasses(c.base, clean)
    IN  /\ ReturnBound
        /\ slot[c.path]["working"].target = c.base
        /\ passes => EvidenceHolds(c.path, documents[c.base].result)
        /\ AdoptDocument(c, Returned(c, passes))
        /\ returning' = Idle
        /\ Committed
        /\ UNCHANGED <<call, evidenceVars>>

(* A file that is no document is kept and reported, and adopts nothing.     *)
RejectReturn ==
    /\ ReturnBound
    /\ returning' = Idle
    /\ Committed
    /\ UNCHANGED <<turnVars, call, evidenceVars, documents>>

FailReturn ==
    /\ returning # Idle
    /\ returning' = Idle
    /\ UNCHANGED <<turnVars, call, undisturbed, evidenceVars, documents>>

DocumentStep ==
    \/ \E n \in Numbers : PrepareRender(n) \/ FinalizeDelivery(n)
    \/ PrepareReturn
    \/ \E clean \in BOOLEAN : FinalizeReturn(clean)
    \/ RejectReturn
    \/ FailReturn

Next ==
    \/ ResearchStep /\ UNCHANGED <<evidenceVars, documentVars>>
    \/ Crash /\ returning' = Idle /\ UNCHANGED <<evidenceVars, documents>>
    \/ \E n \in Numbers : EvidenceStep(n) /\ UNCHANGED documentVars
    \/ DocumentStep

Spec == Init /\ [][Next]_vars

-----------------------------------------------------------------------------
(* Properties.                                                              *)

DocumentTypeOK ==
    /\ turn \in Turn
    /\ paths \subseteq Paths /\ studies \subseteq paths /\ studies \subseteq Keys
    /\ plans \in Seq(PlanRevision)
    /\ \A p \in Paths :
         /\ slot[p]["plan"] \in PlanAdoption
         /\ slot[p]["data"] \in DataAdoption /\ slot[p]["result"] \in ResultAdoption
         /\ \A s \in {"working", "delivery"} : slot[p][s] \in DocumentAdoption
    /\ data \in Availability /\ results \in [Results -> Run]
    /\ tables \subseteq Table /\ documents \in Seq(DocumentRevision)

(* A delivered document passed its gate, and so did every document it was   *)
(* made from: a return that touched the evidence is never delivered, nor is *)
(* a clean return of it.                                                    *)
DeliveredPassedAllAlong ==
    /\ \A p \in paths : slot[p]["delivery"].target # None
                          => documents[slot[p]["delivery"].target].gate = "pass"
    /\ \A i \in DOMAIN documents :
         documents[i].gate = "pass" /\ documents[i].parent # None
         => documents[documents[i].parent].gate = "pass"

(* Nobody's document is replaced unseen: a document leaves the working slot *)
(* for one whose making began after it was there.  A rendering begun before *)
(* the user's document came back must not push it aside.                    *)
InFlight == {call[n] : n \in Numbers} \cup {returning}

NothingIsReplacedUnseen ==
    [][\A c \in InFlight :
         documents' # documents /\ c.step \in {"render", "return"} /\ c \notin InFlight'
         => LET replaced == slot[c.path]["working"].target
            IN  replaced # None => replaced <= c.begun]_vars
=============================================================================
