------------------------------- MODULE Memory -------------------------------
(***************************************************************************)
(* Project Memory: the ledger of memory items (persistence/memory_store.py) *)
(* and the files that show it to the user (persistence/filesystem_memory.py)*)
(*                                                                         *)
(* A ledger command and the synchronisation of the files that follows it    *)
(* are two steps: the command commits, the files are written after it, and  *)
(* a request, a curator or a turn of another thread may come between.       *)
(* Reconciling the user's edits reads the files first and then revises one  *)
(* item after the other, each against the pointer it read.                  *)
(***************************************************************************)
EXTENDS WorkspaceRevision, FiniteSets

CONSTANTS
    Items,         \* identities of memory items, of one scope and kind
    Texts,         \* what a title and content can say
    MaxRevisions   \* bound of the model: revisions of one item

ASSUME MemoryAssumption == MaxRevisions \in Nat \ {0} /\ Texts # {}

VARIABLES
    memory,    \* memory_items, memory_current_states, memory_retention_states
    catalog,   \* memory_summary_projections: <<item, revision>> pairs
    view,      \* the editable current file of an item
    payload,   \* newest revision of an item with an immutable file
    edits      \* the external edits a reconciliation read and has to revise

None == "none"
Lifecycles == {"absent", "proposed", "active", "retracted"}
Tiers == {"hot", "warm", "cold", "archived"}

Item == [lifecycle : Lifecycles, number : 0 .. MaxRevisions,
         text : Texts \cup {None}, pointer : 0 .. MaxCommits,
         tier : Tiers, retention : 0 .. MaxCommits,
         successor : Items \cup {None}]
View == [base : 0 .. MaxRevisions, text : Texts \cup {None}]
Catalog == SUBSET (Items \X (1 .. MaxRevisions))
Payloads == [Items -> 0 .. MaxRevisions]
Edit == [item : Items, pointer : 0 .. MaxCommits, base : 0 .. MaxRevisions,
         text : Texts]

Absent == [lifecycle |-> "absent", number |-> 0, text |-> None, pointer |-> 0,
           tier |-> "archived", retention |-> 0, successor |-> None]
NoFile == [base |-> 0, text |-> None]

MemoryInit ==
    /\ memory = [i \in Items |-> Absent]
    /\ catalog = {}
    /\ view = [i \in Items |-> NoFile]
    /\ payload = [i \in Items |-> 0]
    /\ edits = {}

ledger == <<memory, catalog>>
files == <<view, payload>>

Stored == {i \in Items : memory[i].lifecycle # "absent"}

-----------------------------------------------------------------------------
(* The ledger.                                                              *)

(* What _rebuild_summary_rows selects: the current revisions a turn may be  *)
(* offered.                                                                 *)
Offered(m) == {i \in Items : /\ m[i].lifecycle = "active"
                             /\ m[i].tier = "hot"
                             /\ m[i].successor = None}
RebuildSummary(m) == {<<i, m[i].number>> : i \in Offered(m)}

Write(m) ==
    /\ Commit
    /\ memory' = m
    /\ catalog' = RebuildSummary(m)

TierFor(lifecycle) == IF lifecycle = "active" THEN "hot" ELSE "warm"

(* An explicit or confirmed memory starts active, an inferred one proposed. *)
Create(i, text, lifecycle) ==
    /\ i \notin Stored
    /\ lifecycle \in {"active", "proposed"}
    /\ Write([memory EXCEPT ![i] =
           [lifecycle |-> lifecycle, number |-> 1, text |-> text,
            pointer |-> 1, tier |-> TierFor(lifecycle), retention |-> 1,
            successor |-> None]])

(* Mutant: the pointer is taken as the caller gives it.                     *)
PointsAtAny(i, pointer) == i \in Stored
PointsAt(i, pointer) == i \in Stored /\ memory[i].pointer = pointer

(* A revision takes the item back into use, superseded or not.              *)
Revised(r, text, lifecycle) ==
    [r EXCEPT !.lifecycle = lifecycle, !.number = @ + 1, !.text = text,
              !.pointer = @ + 1, !.tier = TierFor(lifecycle),
              !.retention = @ + 1, !.successor = None]

Revise(i, pointer, text, lifecycle) ==
    /\ PointsAt(i, pointer)
    /\ memory[i].number < MaxRevisions
    /\ lifecycle \in {"active", "proposed"}
    /\ Write([memory EXCEPT ![i] = Revised(memory[i], text, lifecycle)])

Activated(r) == [r EXCEPT !.lifecycle = "active", !.pointer = @ + 1, !.tier = "hot",
                          !.retention = @ + 1, !.successor = None]

Activate(i, pointer) ==
    /\ PointsAt(i, pointer)
    /\ Write([memory EXCEPT ![i] = Activated(memory[i])])

Retracted(r) == [r EXCEPT !.lifecycle = "retracted", !.pointer = @ + 1,
                          !.tier = "archived", !.retention = @ + 1]

Retract(i, pointer) ==
    /\ PointsAt(i, pointer)
    /\ Write([memory EXCEPT ![i] = Retracted(memory[i])])

(* Mutant: a superseded item may be warmed again.                           *)
SetAccessTierFreely(i, retention, tier) ==
    /\ i \in Stored /\ memory[i].retention = retention
    /\ Write([memory EXCEPT ![i].tier = tier, ![i].retention = @ + 1])

SetAccessTier(i, retention, tier) ==
    /\ i \in Stored /\ memory[i].retention = retention
    /\ memory[i].successor # None => tier = "archived"
    /\ Write([memory EXCEPT ![i].tier = tier, ![i].retention = @ + 1])

(* The successor has to be active; it may be superseded itself.             *)
Supersede(i, by, retention) ==
    /\ i # by
    /\ i \in Stored /\ memory[i].retention = retention
    /\ memory[by].lifecycle = "active"
    /\ Write([memory EXCEPT ![i].tier = "archived", ![i].retention = @ + 1,
                            ![i].successor = by])

(* The Memory Center sends the pointer it shows; a command whose pointer is *)
(* no longer the item's is refused and changes nothing.                     *)
MemoryCommand ==
    /\ \E i \in Items :
         \/ \E t \in Texts, l \in {"active", "proposed"} : Create(i, t, l)
         \/ \E t \in Texts, l \in {"active", "proposed"} :
                Revise(i, memory[i].pointer, t, l)
         \/ Activate(i, memory[i].pointer)
         \/ Retract(i, memory[i].pointer)
         \/ \E t \in Tiers : SetAccessTier(i, memory[i].retention, t)
         \/ \E j \in Items : Supersede(i, j, memory[i].retention)
    /\ UNCHANGED <<files, edits>>

-----------------------------------------------------------------------------
(* The files.                                                               *)

(* Every revision gets its immutable file.  The current file is written     *)
(* when it is missing, and refreshed when it says what the revision says;   *)
(* a file that says something else is an edit of the revision it names, or, *)
(* if that revision is no longer current, left as it is and reported        *)
(* invalid.                                                                 *)
Refreshed(i) ==
    IF i \in Stored /\ (view[i] = NoFile \/ view[i].text = memory[i].text)
    THEN [base |-> memory[i].number, text |-> memory[i].text]
    ELSE view[i]

ExternalEdits ==
    {[item |-> i, pointer |-> memory[i].pointer, base |-> view[i].base,
      text |-> view[i].text] :
        i \in {j \in Stored : /\ view[j] # NoFile
                              /\ view[j].text # memory[j].text
                              /\ view[j].base = memory[j].number}}

Synchronize ==
    /\ view' = [i \in Items |-> Refreshed(i)]
    /\ payload' = [i \in Items |-> memory[i].number]
    /\ UNCHANGED <<revision, ledger, edits>>

(* reconcile_external_edits of a turn, the curator or memory recall.        *)
Reconcile ==
    /\ edits = {}
    /\ edits' = ExternalEdits
    /\ view' = [i \in Items |-> Refreshed(i)]
    /\ payload' = [i \in Items |-> memory[i].number]
    /\ UNCHANGED <<revision, ledger>>

ImportEdit(e) ==
    /\ Revise(e.item, e.pointer, e.text, "active")
    /\ edits' = edits \ {e}
    /\ UNCHANGED files

(* The revision of a stale edit raises, and the others of the report are    *)
(* not tried.                                                               *)
AbandonEdits(e) ==
    /\ ~PointsAt(e.item, e.pointer)
    /\ edits' = {}
    /\ UNCHANGED <<revision, ledger, files>>

(* The user saves the file in an editor, or deletes it.                     *)
EditFile(i, text) ==
    /\ view[i] # NoFile
    /\ text # view[i].text
    /\ view' = [view EXCEPT ![i].text = text]
    /\ UNCHANGED <<revision, ledger, payload, edits>>

DeleteFile(i) ==
    /\ view[i] # NoFile
    /\ view' = [view EXCEPT ![i] = NoFile]
    /\ UNCHANGED <<revision, ledger, payload, edits>>

FileStep ==
    \/ Synchronize
    \/ Reconcile
    \/ \E e \in edits : ImportEdit(e) \/ AbandonEdits(e)
    \/ \E i \in Items, t \in Texts : EditFile(i, t)
    \/ \E i \in Items : DeleteFile(i)

-----------------------------------------------------------------------------
(* Type invariant of the module.                                            *)
MemoryTypeOK ==
    /\ RevisionTypeOK
    /\ memory \in [Items -> Item]
    /\ catalog \in Catalog
    /\ view \in [Items -> View]
    /\ payload \in Payloads
    /\ edits \subseteq Edit

(* A superseded memory stays in the archive, and the catalogue a turn is    *)
(* routed by lists the current revisions in use and no other: no order of   *)
(* revisions, retractions, tier changes and supersessions brings a replaced *)
(* decision back without a revision or an activation of its own             *)
(* (memory_store.py set_access_tier, supersede, _rebuild_summary_rows).     *)
ReplacedIsArchived ==
    /\ \A i \in Items : memory[i].successor # None => memory[i].tier = "archived"
    /\ \A e \in catalog :
           /\ memory[e[1]].lifecycle = "active"
           /\ memory[e[1]].successor = None
           /\ memory[e[1]].number = e[2]

(* An edit of a file becomes a revision only on top of the revision the     *)
(* user edited: a revision that another thread committed after the files    *)
(* were read is never buried under an edit of its predecessor               *)
(* (filesystem_memory.py reconcile_external_edits).                         *)
EditsFollowTheirBase ==
    [][\A e \in edits : ImportEdit(e) => memory[e.item].number = e.base]_
      <<revision, memory, catalog, view, payload, edits>>
=============================================================================
