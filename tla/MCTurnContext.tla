---------------------------- MODULE MCTurnContext ----------------------------
(***************************************************************************)
(* Instance of the memory, skills, knowledge and context of a turn.  The    *)
(* parts meet in pairs: the constraint explores each pair with the others   *)
(* at rest, from a new workspace and from states a workspace comes to: a    *)
(* window was curated, a skill was proposed, one was adopted.               *)
(***************************************************************************)
EXTENDS TurnContext

CONSTANTS
    v1,          \* the candidate of the curator
    d1, c2,      \* the file that is changed, and what it says then
    Scenarios    \* the pairs of parts that are explored

Fresh == Init

(* Two memories in use, and the curator proposed the candidate v1.          *)
Distilled ==
    /\ memory = [i \in Items |->
                    [lifecycle |-> "active", number |-> 1, text |-> CHOOSE t \in Texts : TRUE,
                     pointer |-> 1, tier |-> "hot", retention |-> 1,
                     successor |-> None]]
    /\ catalog = RebuildSummary(memory)
    /\ view = [i \in Items |-> NoFile] /\ payload = [i \in Items |-> 1] /\ edits = {}
    /\ messages = 1 /\ ended = {1} /\ contributes = TRUE
    /\ jobs = [e \in Messages |->
                  IF e = 1 THEN [status |-> "completed", start |-> 1, attempts |-> 1]
                  ELSE [status |-> "none", start |-> 0, attempts |-> 0]]
    /\ maintenance = Idle
    /\ KnowledgeInit /\ ContextInit
    /\ change = [k \in Changes |-> [decision |-> "absent", pointer |-> 0, base |-> None]]
    /\ judged = {} /\ archived = {} /\ publishing = {}

Proposal(c, decision, pointer) ==
    evolution = [d \in Candidates |->
        IF d = c THEN [decision |-> decision, pointer |-> pointer,
                       sources |-> {<<i, 1>> : i \in Items}]
        ELSE [decision |-> "absent", pointer |-> 0, sources |-> {}]]

SkillProposed ==
    /\ revision = 6 /\ Distilled
    /\ Proposal(v1, "proposed", 1)
    /\ adoption = [status |-> "absent", current |-> None, pointer |-> 0]
    /\ versions = {} /\ proposals = {} /\ installed = None

SkillAdopted ==
    /\ revision = 10 /\ Distilled
    /\ Proposal(v1, "activated", 3)
    /\ adoption = [status |-> "active", current |-> v1, pointer |-> 1]
    /\ versions = {v1} /\ proposals = {v1} /\ installed = v1

(* The first message was curated, and nothing came of it.                   *)
FirstWindowDone ==
    /\ revision = 4 /\ messages = 2 /\ ended = {1, 2} /\ contributes = TRUE
    /\ jobs = [e \in Messages |->
                  IF e = 1 THEN [status |-> "completed", start |-> 1, attempts |-> 1]
                  ELSE [status |-> "none", start |-> 0, attempts |-> 0]]
    /\ maintenance = Idle
    /\ MemoryInit /\ SkillsInit /\ KnowledgeInit /\ ContextInit

MCInit == Fresh \/ FirstWindowDone \/ SkillProposed \/ SkillAdopted

-----------------------------------------------------------------------------
FilesRest == view = [i \in Items |-> NoFile] /\ edits = {}
SkillsRest == \A c \in Candidates : evolution[c].decision = "absent"
CuratorRests == /\ maintenance = Idle /\ contributes
                /\ messages = IF SkillsRest THEN 0 ELSE 1
KnowledgeRests == /\ library = [d \in Docs |-> Missing] /\ scan = {} /\ dense = NoIndex
                  /\ \A d \in Docs : documents[d].availability = "absent"
                  /\ \A s \in Sessions : sessions[s].status = "none"
TurnRests == /\ recalled = {} /\ loaded = {} /\ consulted = {} /\ useMemory
             /\ draft = NoContext /\ frozen = NoContext
Unrevised == \A i \in Items : memory[i].number < 2

Explored(scenario) ==
    CASE scenario = "files" ->
            /\ revision <= 3
            /\ CuratorRests /\ SkillsRest /\ KnowledgeRests /\ TurnRests
      [] scenario = "windows" ->
            /\ Stored = {} /\ FilesRest /\ SkillsRest /\ KnowledgeRests /\ TurnRests
      [] scenario = "curation" ->
            /\ revision <= 4 /\ messages <= 1 /\ contributes
            /\ Unrevised /\ payload = [i \in Items |-> 0]
            /\ FilesRest /\ SkillsRest /\ KnowledgeRests /\ TurnRests
      [] scenario = "retrieval" ->
            /\ revision <= 4 /\ \A d \in Docs : library[d] # c2
            /\ CuratorRests /\ SkillsRest /\ Stored = {} /\ TurnRests
      [] scenario = "nodes" ->
            /\ revision <= 3
            /\ \A d \in Docs \ {d1} : /\ library[d] = Missing
                                     /\ documents[d].availability = "absent"
            /\ \A s \in Sessions : sessions[s].status = "none"
            /\ CuratorRests /\ SkillsRest /\ Stored = {}
      [] scenario = "memories" ->
            /\ revision \in 10 .. (IF frozen.memories # {} /\ useMemory THEN 12 ELSE 11)
            /\ payload = [i \in Items |-> 1]
            /\ versions = {v1} /\ adoption.pointer = 1 /\ publishing = {}
            /\ judged = {} /\ \A k \in Changes : change[k].decision = "absent"
            /\ Cardinality(recalled) <= 3
            /\ FilesRest /\ CuratorRests /\ KnowledgeRests /\ loaded = {}
      [] scenario = "distilling" ->
            /\ revision \in 6 .. 8 /\ ~SkillsRest
            /\ Unrevised /\ payload = [i \in Items |-> 1]
            /\ FilesRest /\ CuratorRests /\ KnowledgeRests /\ TurnRests
      [] scenario = "adopting" ->
            /\ revision \in 10 .. 12 /\ ~SkillsRest
            /\ \A i \in Items : memory[i].retention = 1
            /\ payload = [i \in Items |-> 1]
            /\ FilesRest /\ CuratorRests /\ KnowledgeRests
            /\ recalled = {} /\ useMemory

Scenario == \E scenario \in Scenarios : Explored(scenario)
=============================================================================
