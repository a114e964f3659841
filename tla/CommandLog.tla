----------------------------- MODULE CommandLog -----------------------------
(***************************************************************************)
(* What the command endpoint of a Workspace promises: a command identity   *)
(* is applied once at most, commands are applied one after the other, and  *)
(* an acceptance names a revision at which exactly the accepted envelope   *)
(* was applied.                                                            *)
(***************************************************************************)
EXTENDS Naturals, Sequences

CONSTANTS Commands, Bodies

VARIABLES log,       \* the applied envelopes in revision order
          accepted   \* acceptances issued: [command, body, revision]

Init == log = << >> /\ accepted = {}

Apply(c, b) ==
    /\ \A r \in DOMAIN log : log[r].command # c
    /\ log' = Append(log, [command |-> c, body |-> b])
    /\ UNCHANGED accepted

Accept(r) ==
    /\ accepted' = accepted \cup
            {[command |-> log[r].command, body |-> log[r].body, revision |-> r]}
    /\ UNCHANGED log

Next == \/ \E c \in Commands, b \in Bodies : Apply(c, b)
        \/ \E r \in DOMAIN log : Accept(r)

Spec == Init /\ [][Next]_<<log, accepted>>
=============================================================================
