----------------------------- MODULE MCPaperGate -----------------------------
(***************************************************************************)
(* Model-checking instances of PaperGate.  The checks of a paper are        *)
(* interchangeable.                                                        *)
(***************************************************************************)
EXTENDS PaperGate, TLC

CONSTANTS q1, q2

Symmetry == Permutations(Check)

\* One question, with audits, rechecks and people all at once.
Crowd == [requests |-> {"audit", "recheck", "resolve", "status", "edit", "delete"},
          stock |-> {q1}, texts |-> {"sound", "doubtful", "broken"},
          model |-> TRUE, autoApprove |-> TRUE, conclusions |-> {}]

\* A paper of one question, which people edit, accept, reject and delete.
Desk == [requests |-> {"resolve", "edit", "delete", "paper"},
         stock |-> {q1}, texts |-> {"sound", "corrupt"},
         model |-> FALSE, autoApprove |-> TRUE, conclusions |-> Verdict]

\* A paper of one question, which is audited and whose status people set.
Review == [requests |-> {"audit", "status", "paper"},
           stock |-> {q1}, texts |-> {"sound", "corrupt"},
           model |-> FALSE, autoApprove |-> FALSE, conclusions |-> Verdict]

\* A paper of two questions that get deleted.
Pair == [requests |-> {"delete", "paper"},
         stock |-> {q1, q2}, texts |-> {"sound", "broken"},
         model |-> FALSE, autoApprove |-> TRUE, conclusions |-> Verdict]

AllSetups == {Crowd, Desk, Review, Pair}
=============================================================================
