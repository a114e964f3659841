-------------------------- MODULE MCWorkspaceClient --------------------------
(***************************************************************************)
(* The parts of the browser that follow the service, each in behaviours of *)
(* its own: the shell over two workspaces with a user who opens and reads  *)
(* again, commits, lost connections and queries that fail; and the list of *)
(* workspaces that ask for the user.                                       *)
(***************************************************************************)
EXTENDS WorkspaceClient, Attention

CONSTANTS w1, w2,
          Parts   \* the parts that are explored

VARIABLE part

MCWorkspaces == {w1, w2}
MCMaxRevision == [w \in MCWorkspaces |-> IF w = w1 THEN 3 ELSE 2]

MCFacts ==
    {[Quiet EXCEPT !.waiting = TRUE],
     [Quiet EXCEPT !.operations = {"integrity_violation"}, !.turns = {"partial"}, !.pausing = TRUE]}

MCInit == ClientInit /\ AttentionInit /\ part \in Parts
MCNext ==
    /\ UNCHANGED part
    /\ \/ part = "shell" /\ ClientNext /\ UNCHANGED attentionVars
       \/ part = "attention" /\ AttentionNext /\ UNCHANGED vars

(* What is fair for the shell can do nothing in the first state of another   *)
(* part.                                                                    *)
MCSpec == MCInit /\ [][MCNext]_<<vars, attentionVars, part>> /\ ClientFairness
=============================================================================
