--------------------------- MODULE MCPrintedPaper ---------------------------
(***************************************************************************)
(* Letters or digits, three or four options, plain or prefixed numbers.    *)
(* Digits on papers that number plainly from 3 are left out: an option may *)
(* be taken for the next question.                                         *)
(***************************************************************************)
EXTENDS PrintedPaper
Convention(option, count, numbering, first) == [option |-> option, count |-> count, numbering |-> numbering, first |-> first]
AllConventions == {Convention("letters", 3, "plain", 1), Convention("letters", 3, "plain", 3), Convention("letters", 3, "prefixed", 51),
                   Convention("digits", 3, "plain", 1), Convention("digits", 3, "plain", 51), Convention("digits", 3, "prefixed", 3),
                   Convention("digits", 4, "plain", 1)}
=============================================================================
