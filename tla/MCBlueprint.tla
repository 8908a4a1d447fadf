---------------------------- MODULE MCBlueprint ----------------------------
(***************************************************************************)
(* Small papers, banks and requests for Blueprint.  The papers disagree on *)
(* a count, a heading, an order and a duration; the banks lack a           *)
(* difficulty, an answer, or a subject.                                    *)
(***************************************************************************)
EXTENDS Blueprint

Time(h, m, b) == [kind |-> "time", hours |-> h, minutes |-> m, bare |-> b]
Marks(k, n) == [kind |-> k, marks |-> n]
Penalty(a, b, ns) == [kind |-> "penalty", num |-> a, den |-> b, numbers |-> ns]
Headers == [none |-> <<>>,
            hour |-> <<Time(1, 0, 1), Marks("total", 1000), Penalty(1, 4, <<100, 400>>)>>,
            long |-> <<Time(13, 0, 13), Time(2, 2, 2), Marks("each", 200), [kind |-> "no penalty"]>>,
            bare |-> <<Time(0, 0, 60), Penalty(0, 0, <<2500, 25>>)>>]
Sec(l, s, n) == [label |-> l, subject |-> s, count |-> n]
Doc(q, ss, o, h) == [questions |-> q, sections |-> ss, options |-> o, header |-> Headers[h]]
Papers == {Doc(5, <<Sec("A", "maths", 3), Sec("B", "none", 2)>>, 4, "hour"),
           Doc(4, <<Sec("A", "maths", 2), Sec("B", "none", 2)>>, 4, "bare"),
           Doc(9, <<Sec("C", "maths", 8), Sec("A", "none", 1)>>, 5, "long"),
           Doc(4, <<Sec("B", "none", 1), Sec("A", "maths", 3)>>, 0, "hour"),
           Doc(4, <<Sec("A", "maths", 2), Sec("A2", "maths", 2)>>, 4, "none"),
           Doc(2, <<>>, 4, "none"), Doc(0, <<>>, 0, "long")}
Headings == {"", "none", "Section", "maths", "logic", "A", "A2", "B", "C"}

Mix(e, m, h) == [easy |-> e, medium |-> m, hard |-> h]
Plan(s, n, m) == [subject |-> s, count |-> n, mix |-> m]
Hands == {<<Plan("maths", 2, Mix(50, 0, 50)), Plan("maths", 1, <<>>)>>,
          <<Plan("maths", 1, <<>>), Plan("logic", 2, Mix(1, 1, 1)), Plan("none", 3, <<>>)>>,
          <<Plan("logic", 1, <<>>), Plan("maths", 3, Mix(20, 30, 50)), Plan("logic", 1, Mix(0, 0, 0))>>}

Q(i, s, d, r) == [id |-> i, subject |-> s, difficulty |-> d, relevance |-> r, borrowed |-> FALSE,
                  answered |-> TRUE, passed |-> TRUE, status |-> "draft"]
Rich == {Q(1, "maths", "easy", 1), Q(2, "maths", "medium", 1), Q(3, "maths", "hard", 1),
         [Q(4, "maths", "medium", 0) EXCEPT !.borrowed = TRUE, !.status = "approved"],
         Q(5, "logic", "easy", 1), [Q(6, "logic", "hard", 1) EXCEPT !.answered = FALSE]}
Poor == {Q(1, "maths", "hard", 1), [Q(2, "maths", "hard", 0) EXCEPT !.borrowed = TRUE],
         [Q(3, "maths", "easy", 1) EXCEPT !.status = "rejected"], [Q(4, "maths", "easy", 1) EXCEPT !.passed = FALSE],
         [Q(5, "logic", "medium", 1) EXCEPT !.answered = FALSE, !.status = "approved"]}
Banks == {Rich, Poor}

Req(n, m, b, a, k, u) == [type |-> "mixed", total |-> n, mix |-> m, borrowed |-> b, onlyApproved |-> a, requireAnswer |-> k, unvetted |-> u,
                          excluded |-> {}]
Requests == {Req(0, <<>>, TRUE, FALSE, TRUE, FALSE), [Req(4, <<>>, TRUE, FALSE, FALSE, FALSE) EXCEPT !.type = "easy"],
             Req(2, Mix(60, 35, 5), FALSE, FALSE, TRUE, FALSE), Req(3, Mix(3, 0, 0), TRUE, FALSE, FALSE, FALSE),
             [Req(1, <<>>, TRUE, TRUE, FALSE, FALSE) EXCEPT !.excluded = {Q(1, "maths", "easy", 1)}]}
=============================================================================
