---------------------------- MODULE MCExamLinks ----------------------------
(***************************************************************************)
(* Model-checking instances of ExamLinks.                                  *)
(***************************************************************************)
EXTENDS ExamLinks, TLC

CONSTANTS e1, e2, e3, q1, q2, s1, s2, a1, a2

Symmetry == Permutations({e1, e2}) \cup Permutations(Writer) \cup Permutations(Request)

\* Three exams that can borrow in a chain, by clients that wait.
Chain == [happens |-> {"ingest", "write", "associate", "dissociate"},
          stock |-> {q1}, exams |-> {e1, e2, e3}, subjects |-> {s1}, bonds |-> {a1, a2},
          waits |-> TRUE, faults |-> FALSE]

\* Two exams and overlapping associations, by clients that wait.
Scoped == [happens |-> Happening \ {"classify", "keep"},
           stock |-> {q1}, exams |-> {e1, e2}, subjects |-> {s1, s2}, bonds |-> {a1, a2},
           waits |-> TRUE, faults |-> FALSE]

\* One question and one association, all at once.
Crowd == [happens |-> Happening \ {"classify", "attach", "keep"},
          stock |-> {q1}, exams |-> {e1, e2}, subjects |-> {s1}, bonds |-> {a1},
          waits |-> FALSE, faults |-> TRUE]

\* Two questions read from a document and read again, all at once.
Reread == [happens |-> {"ingest", "keep", "write"},
           stock |-> {q1, q2}, exams |-> {e1, e2}, subjects |-> {s1}, bonds |-> {},
           waits |-> FALSE, faults |-> FALSE]

\* Questions that get another subject.
Sorted == [happens |-> {"write", "classify", "associate"},
           stock |-> {q1}, exams |-> {e1, e2}, subjects |-> {s1, s2}, bonds |-> {a1},
           waits |-> FALSE, faults |-> FALSE]

AllSetups == {Chain, Scoped, Crowd, Reread, Sorted}
=============================================================================
