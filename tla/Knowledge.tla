------------------------------ MODULE Knowledge ------------------------------
(***************************************************************************)
(* The knowledge index of a workspace (persistence/knowledge_store.py,      *)
(* dense_knowledge_store.py): files of the user become documents, parse     *)
(* revisions and nodes; retrieval sessions select nodes hop by hop.         *)
(*                                                                         *)
(* The files are read before the transaction that indexes them, and the     *)
(* user may change them at any moment.  A parse of a document is named by   *)
(* the content it was made from, and stands for its nodes.                  *)
(***************************************************************************)
EXTENDS WorkspaceRevision, FiniteSets

CONSTANTS
    Docs,           \* paths of literature and style files
    Contents,       \* contents a parser can read
    Sessions,       \* retrieval sessions of the turn
    MaximumHops     \* AgenticRetrievalPolicy.maximum_hops; 6 in the program

ASSUME KnowledgeAssumption ==
    /\ {"missing", "unreadable", "none"} \cap Contents = {}
    /\ MaximumHops \in Nat \ {0, 1}

VARIABLES
    library,     \* what the files say: a content, Missing or Unreadable
    documents,   \* knowledge_document_states and knowledge_source_states
    extracted,   \* knowledge_nodes: every node a parse brought, kept for ever
    scan,        \* what a synchronisation read, before it commits
    dense,       \* the nodes of the newest dense index; NoIndex before
    sessions     \* knowledge_retrieval_sessions, their states and selections

knowledgeVars == <<library, documents, extracted, scan, dense, sessions>>

Missing == "missing"
Unreadable == "unreadable"
NoParse == "none"
NoIndex == {<<"none", NoParse>>}
Nodes == Docs \X Contents
FileStates == Contents \cup {Missing, Unreadable}
Availabilities == {"absent", "indexed", "missing", "extraction_failed"}
Document == [availability : Availabilities, parse : Contents \cup {NoParse}]
Index == SUBSET Nodes
Reading == [Docs -> FileStates]
SessionStatuses == {"none", "open", "completed", "partial"}
Session == [status : SessionStatuses, next : Nat, found : SUBSET Nodes]

KnowledgeInit ==
    /\ library = [d \in Docs |-> Missing]
    /\ documents = [d \in Docs |-> [availability |-> "absent", parse |-> NoParse]]
    /\ extracted = {} /\ scan = {} /\ dense = NoIndex
    /\ sessions = [s \in Sessions |-> [status |-> "none", next |-> 1, found |-> {}]]

-----------------------------------------------------------------------------
(* The index.                                                               *)

Indexed == {d \in Docs : documents[d].availability = "indexed"}
Current == {<<d, documents[d].parse>> : d \in Indexed}

ChangeFile(d, content) ==
    /\ library[d] # content
    /\ library' = [library EXCEPT ![d] = content]
    /\ UNCHANGED <<revision, documents, extracted, scan, dense, sessions>>

(* extract_changed of the catalogues: a set of at most one reading.         *)
ReadLibrary ==
    /\ scan = {}
    /\ scan' = {library}
    /\ UNCHANGED <<revision, library, documents, extracted, dense, sessions>>

(* Mutant: a file that can not be read is no longer a source.               *)
RefusedAlways(document) == [document EXCEPT !.availability = "extraction_failed"]

(* An unreadable candidate does not take the last parse that worked away.   *)
Refused(document) == IF document.availability = "indexed" THEN document
                     ELSE [document EXCEPT !.availability = "extraction_failed"]

Gone(document) == IF document.availability = "indexed"
                  THEN [document EXCEPT !.availability = "missing"] ELSE document

(* A document that was read is available in the parse of what it says now.  *)
Parsed(content) == [availability |-> "indexed", parse |-> content]

Observed(seen, document) ==
    CASE seen = Missing -> Gone(document)
      [] seen = Unreadable -> Refused(document)
      [] OTHER -> Parsed(seen)

(* Something to write: a document changed, or an indexed one became         *)
(* unreadable, which only the run and the journal say.                      *)
NewsIn(reading) ==
    \E d \in Docs : \/ Observed(reading[d], documents[d]) # documents[d]
                    \/ reading[d] = Unreadable /\ d \in Indexed

Sync(reading) ==
    /\ IF NewsIn(reading)
       THEN /\ Commit
            /\ documents' = [d \in Docs |-> Observed(reading[d], documents[d])]
            /\ extracted' = extracted \cup {n \in Nodes : reading[n[1]] = n[2]}
       ELSE UNCHANGED <<revision, documents, extracted>>
    /\ scan' = {}
    /\ UNCHANGED <<library, dense, sessions>>

(* A synchronisation that raises is skipped by the turn.                    *)
SkipSync ==
    /\ scan # {}
    /\ scan' = {}
    /\ UNCHANGED <<revision, library, documents, extracted, dense, sessions>>

(* ensure_current of the dense index, which may be absent or fail.          *)
EnsureDense ==
    /\ Indexed # {} /\ dense # Current
    /\ Commit
    /\ dense' = Current
    /\ UNCHANGED <<library, documents, extracted, scan, sessions>>

-----------------------------------------------------------------------------
(* Retrieval.                                                               *)

(* Mutant: the newest dense index is asked whatever it was built from.      *)
AnyDenseCandidates == IF dense = NoIndex THEN {} ELSE dense
DenseCandidates == IF dense = Current THEN dense ELSE {}

Lexical == Current
Findable == Lexical \cup DenseCandidates

Open(s) == sessions[s].status = "open"

(* A hop leaves the session its status, the next ordinal and what it found. *)
Extended(session, status, next, hits) ==
    [status |-> status, next |-> next, found |-> session.found \cup hits]

Record(s, status, next, hits) ==
    /\ Commit
    /\ sessions' = [sessions EXCEPT ![s] = Extended(sessions[s], status, next, hits)]
    /\ UNCHANGED <<library, documents, extracted, scan, dense>>

(* The first hop leaves a session of several hops open if it found something.*)
AfterFirstHop(mode, hits) ==
    IF hits = {} THEN "partial" ELSE IF mode = "multi_hop" THEN "open" ELSE "completed"

Retrieve(s, mode, hits) ==
    /\ sessions[s].status = "none"
    /\ hits \subseteq Findable
    /\ Record(s, AfterFirstHop(mode, hits), 2, hits)

(* Mutant: one hop more than the policy allows.                             *)
BeyondBudget(s) == sessions[s].next > MaximumHops
HopBudgetIsSpent(s) == sessions[s].next >= MaximumHops

AfterHop(s, conclude, hits) ==
    CASE conclude -> IF hits = {} THEN "partial" ELSE "completed"
      [] hits \subseteq sessions[s].found -> "partial"
      [] HopBudgetIsSpent(s) -> "partial"
      [] OTHER -> "open"

ContinueRetrieval(s, conclude, hits) ==
    /\ Open(s)
    /\ hits \subseteq Findable
    /\ Record(s, AfterHop(s, conclude, hits), sessions[s].next + 1, hits)

(* conclude_retrieval, for the sessions a turn leaves open when it proposes *)
(* to stop.                                                                 *)
ConcludeRetrieval(s) ==
    /\ Open(s)
    /\ Record(s, "completed", sessions[s].next + 1, {})

KnowledgeStep ==
    \/ \E d \in Docs, c \in FileStates : ChangeFile(d, c)
    \/ ReadLibrary \/ SkipSync \/ EnsureDense
    \/ \E reading \in scan : Sync(reading)
    \/ \E s \in Sessions, hits \in SUBSET Findable :
          \/ \E mode \in {"direct", "multi_hop"} : Retrieve(s, mode, hits)
          \/ \E conclude \in BOOLEAN : ContinueRetrieval(s, conclude, hits)
    \/ \E s \in Sessions : ConcludeRetrieval(s)

-----------------------------------------------------------------------------
KnowledgeTypeOK ==
    /\ library \in Reading
    /\ documents \in [Docs -> Document] /\ extracted \subseteq Nodes
    /\ scan \subseteq Reading /\ Cardinality(scan) <= 1
    /\ dense = NoIndex \/ dense \in Index
    /\ sessions \in [Sessions -> Session]

(* What a hop selects is text of the current parse of an indexed document:  *)
(* an index of vectors that was built before a file changed or disappeared  *)
(* never brings its old text back (dense_knowledge_store.py search_index),  *)
(* and a session does not outlive its hops (knowledge_store.py              *)
(* continue_retrieval).                                                     *)
RetrievalIsCurrentAndBounded ==
    [][\A s \in Sessions :
          /\ sessions'[s].found \ sessions[s].found \subseteq Current
          /\ sessions'[s].status = "open" => sessions'[s].next <= MaximumHops
          /\ sessions[s].status \in {"completed", "partial"}
             => sessions'[s] = sessions[s]]_<<revision, knowledgeVars>>

(* A document that was indexed loses its parse only to a file that was seen *)
(* missing or to a newer content: files that are half written, locked or    *)
(* damaged while the library is read cost nothing that worked before        *)
(* (knowledge_store.py sync, "last-known-good").                            *)
LastKnownGoodStays ==
    [][\A d \in Indexed :
          documents'[d] # documents[d]
          => \E reading \in scan : reading[d] \notin {Unreadable, documents[d].parse}]_
      <<revision, knowledgeVars>>
=============================================================================
