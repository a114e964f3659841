----------------------------- MODULE TurnContext -----------------------------
(***************************************************************************)
(* What a model step of a turn is told: the context is compiled from        *)
(* memories, loaded skills, retrieved nodes and the results of the turn's   *)
(* memory tools (persistence/context_authority.py), and frozen with the     *)
(* step (persistence/model_gateway_store.py freeze_step), which refuses     *)
(* what is no longer current.  Commands of the user, the curator and the    *)
(* publisher of skills come between.                                        *)
(***************************************************************************)
EXTENDS MemoryCurator, Knowledge

CONSTANT HotLimit   \* memories that are recommended to a step; 4 in the program

ASSUME ContextAssumption == HotLimit \in Nat

VARIABLES
    useMemory,   \* conversation_memory_policies.use_memory
    recalled,    \* memory revisions in tool results of the turn
    loaded,      \* contents of the skill in tool results of the turn
    consulted,   \* nodes in results of the knowledge tools of the turn
    draft,       \* the compiled context, before it is frozen
    frozen       \* the context of the last step

turnVars == <<useMemory, recalled, loaded, consulted, draft, frozen>>

Ways == {"recommended", "search", "open"}
MemoryRef == [item : Items, number : 1 .. MaxRevisions, way : Ways]
SkillRef == [content : Versions, external : BOOLEAN]
Context == [memories : SUBSET MemoryRef, skills : SUBSET SkillRef,
            nodes : SUBSET Nodes, told : SUBSET Nodes]
NoContext == [memories |-> {}, skills |-> {}, nodes |-> NoIndex, told |-> {}]

ContextInit ==
    /\ useMemory = TRUE /\ recalled = {} /\ loaded = {} /\ consulted = {}
    /\ draft = NoContext /\ frozen = NoContext

Ref(i, way) == [item |-> i, number |-> memory[i].number, way |-> way]

-----------------------------------------------------------------------------
(* The tools that leave something in the context.                           *)

(* Both memory tools find archived and replaced memories only when asked to.*)
Recallable(archivedToo) ==
    {i \in Items : /\ memory[i].lifecycle = "active"
                   /\ archivedToo \/ (/\ memory[i].tier # "archived"
                                      /\ memory[i].successor = None)}

(* The hits depend on the words of the query.                               *)
MemorySearch(archivedToo, hits) ==
    /\ hits \subseteq Recallable(archivedToo) /\ hits # {}
    /\ recalled' = recalled \cup {Ref(i, "search") : i \in hits}
    /\ UNCHANGED <<useMemory, loaded, consulted, draft, frozen>>

MemoryOpen(i, archivedToo) ==
    /\ i \in Recallable(archivedToo) /\ payload[i] = memory[i].number
    /\ recalled' = recalled \cup {Ref(i, "open")}
    /\ UNCHANGED <<useMemory, loaded, consulted, draft, frozen>>

LoadSkill ==
    /\ installed # None
    /\ loaded' = loaded \cup {installed}
    /\ UNCHANGED <<useMemory, recalled, consulted, draft, frozen>>

(* The knowledge tools find nodes in the index, or read and expand any node *)
(* that was ever extracted, by its identity.                                *)
ConsultKnowledge(hits) ==
    /\ hits \subseteq extracted /\ hits # {}
    /\ consulted' = consulted \cup hits
    /\ UNCHANGED <<useMemory, recalled, loaded, draft, frozen>>

-----------------------------------------------------------------------------
(* Compilation.                                                             *)

Recommended ==
    IF useMemory THEN {S \in SUBSET Offered(memory) : Cardinality(S) <= HotLimit}
    ELSE {{}}

(* A loaded skill that is not a version counts as the user's own, and is    *)
(* named by its content; one that is a version has to be the active one.    *)
Usable == {v \in loaded : v \notin versions \/ IsCurrent(v)}

Compiled(S, hits) ==
    [memories |-> {Ref(i, "recommended") : i \in S} \cup recalled,
     skills |-> {[content |-> v, external |-> v \notin versions] : v \in Usable},
     nodes |-> hits, told |-> consulted]

(* Literature that fits the message, found in the index as it is.           *)
Prefetched == SUBSET Current

(* A recommended memory without its file stops the compilation.             *)
Compile ==
    /\ draft = NoContext
    /\ \E S \in Recommended, hits \in Prefetched :
          /\ \A i \in S : payload[i] = memory[i].number
          /\ draft' = Compiled(S, hits)
    /\ UNCHANGED <<useMemory, recalled, loaded, consulted, frozen>>

-----------------------------------------------------------------------------
(* freeze_step.                                                             *)

(* Mutant: a memory that is still in use is told as it was found.           *)
CurrentItem(r) ==
    /\ memory[r.item].lifecycle = "active"
    /\ r.way # "open" => /\ memory[r.item].tier # "archived"
                         /\ memory[r.item].successor = None

CurrentMemory(r) ==
    /\ memory[r.item].lifecycle = "active"
    /\ memory[r.item].number = r.number
    /\ r.way # "open" => /\ memory[r.item].tier # "archived"
                         /\ memory[r.item].successor = None

(* The user's own skill has no ledger row to be held against.  A node that  *)
(* was prefetched has to be of a current parse; one that a tool returned    *)
(* only has to exist.                                                       *)
Freezable(c) ==
    /\ \A r \in c.memories : CurrentMemory(r)
    /\ \A k \in c.skills : k.external \/ IsCurrent(k.content)
    /\ c.nodes \subseteq Current /\ c.told \subseteq extracted

FreezeStep ==
    /\ draft # NoContext
    /\ Freezable(draft)
    /\ Commit
    /\ frozen' = draft
    /\ draft' = NoContext
    /\ UNCHANGED <<useMemory, recalled, loaded, consulted>>

(* "recompile context"; or the turn ends, or the process.                   *)
RefuseStep ==
    /\ draft # NoContext
    /\ draft' = NoContext
    /\ UNCHANGED <<revision, useMemory, recalled, loaded, consulted, frozen>>

SetUseMemory ==
    /\ Commit
    /\ useMemory' = ~useMemory
    /\ UNCHANGED <<recalled, loaded, consulted, draft, frozen>>

TurnStep ==
    /\ \/ /\ \/ \E b \in BOOLEAN, hits \in SUBSET Items : MemorySearch(b, hits)
             \/ \E i \in Items, b \in BOOLEAN : MemoryOpen(i, b)
             \/ \E hits \in SUBSET extracted : ConsultKnowledge(hits)
             \/ LoadSkill \/ Compile
          /\ UNCHANGED revision
       \/ FreezeStep \/ RefuseStep \/ SetUseMemory
    /\ UNCHANGED <<ledger, files, edits, curatorVars, skillVars, knowledgeVars>>

-----------------------------------------------------------------------------
(* The workspace around a turn.                                             *)

vars == <<revision, ledger, files, edits, curatorVars, skillVars, knowledgeVars,
          turnVars>>

Init ==
    /\ NothingCommitted /\ MemoryInit /\ CuratorInit /\ SkillsInit
    /\ KnowledgeInit /\ ContextInit

Next ==
    \/ (MemoryCommand \/ FileStep)
       /\ UNCHANGED <<curatorVars, skillVars, knowledgeVars, turnVars>>
    \/ CuratorStep /\ UNCHANGED <<knowledgeVars, turnVars>>
    \/ SkillStep /\ UNCHANGED <<curatorVars, knowledgeVars, turnVars>>
    \/ KnowledgeStep
       /\ UNCHANGED <<ledger, files, edits, curatorVars, skillVars, turnVars>>
    \/ TurnStep

Spec == Init /\ [][Next]_vars

-----------------------------------------------------------------------------
ContextTypeOK ==
    /\ MemoryTypeOK /\ CuratorTypeOK /\ SkillsTypeOK /\ KnowledgeTypeOK
    /\ useMemory \in BOOLEAN
    /\ recalled \subseteq MemoryRef /\ loaded \subseteq Versions
    /\ consulted \subseteq extracted
    /\ draft \in Context \cup {NoContext} /\ frozen \in Context \cup {NoContext}

(* What the steps of a turn are told of a memory never goes back: a context *)
(* names one revision of an item, and none that is older than the one an    *)
(* earlier step was told.  Results of the memory tools stay in the context  *)
(* for the rest of the turn, the recommendations are looked up anew for     *)
(* each step, and the user, the files and the curator revise the item at    *)
(* any moment between them (model_gateway_store.py freeze_step).            *)
ContextsNeverGoBack ==
    [][\A r \in frozen.memories \cup frozen'.memories, s \in frozen'.memories :
          r.item = s.item => r.number <= s.number]_vars

(* Violated: a refusal of freeze_step asks to "recompile context"; a        *)
(* context that is compiled now can be frozen now.                          *)
RecompilingHelps ==
    draft = NoContext =>
        \A S \in Recommended : Freezable(Compiled(S, Current))
=============================================================================
