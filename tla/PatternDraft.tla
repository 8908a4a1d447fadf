---------------------------- MODULE PatternDraft ----------------------------
(***************************************************************************)
(* What the analysis infers from an exam's parsed papers                   *)
(* (internal/pattern/analyze.go and scheme.go), as functions of the papers *)
(* observed.  A paper is                                                   *)
(*    questions : how many were parsed,                                    *)
(*    sections  : a sequence of [label, subject, count], the subject "none"*)
(*                when its heading matched nothing,                        *)
(*    options   : choices per question, 0 if unknown,                      *)
(*    header    : the rules on its front page, line by line.               *)
(* A header line is a record with a "kind" and the numbers the code's      *)
(* patterns find in it; marks and penalties are in hundredths.  The scores *)
(* of agreement and confidence, which nothing acts on, are left out.       *)
(***************************************************************************)
EXTENDS Integers, Sequences, FiniteSets, FiniteSetsExt, SequencesExt, TLC, Lists

(***************************************************************************)
(* Numeric helpers.                                                        *)
(***************************************************************************)
\* math.Round(a / b) for natural numbers: halves go up.
RoundDiv(a, b) == (2 * a + b) \div (2 * b)

\* The k-th smallest of a family of numbers.
Nth(c, k) == Min({c[i] : i \in {j \in DOMAIN c : Cardinality({m \in DOMAIN c : c[m] <= c[j]}) >= k}})
\* Mutant: the mean.
MeanInt(c) == IF DOMAIN c = {} THEN 0
              ELSE RoundDiv(MapThenSumSet(LAMBDA i : c[i], DOMAIN c), Cardinality(DOMAIN c))
MedianInt(c) == LET n == Cardinality(DOMAIN c)
                IN IF n = 0 THEN 0
                   ELSE IF n % 2 = 1 THEN Nth(c, (n + 1) \div 2)
                   ELSE RoundDiv(Nth(c, n \div 2) + Nth(c, n \div 2 + 1), 2)

\* The running count of modeInt and modeFloat: a value displaces the best one
\* when it has been met more often, or as often and is larger.
Met(c, n) == Cardinality({j \in 1..n : c[j] = c[n]})
ModeInt(c) ==
  LET best[n \in 0..Len(c)] ==
        IF n = 0 THEN [v |-> 0, n |-> 0]
        ELSE IF Met(c, n) > best[n - 1].n \/ (Met(c, n) = best[n - 1].n /\ c[n] > best[n - 1].v)
             THEN [v |-> c[n], n |-> Met(c, n)] ELSE best[n - 1]
  IN best[Len(c)].v

RoundTo(v, multiple) == IF multiple <= 1 \/ v <= 0 THEN v ELSE multiple * RoundDiv(v, multiple)

(***************************************************************************)
(* The rules printed on the front page.                                    *)
(***************************************************************************)
\* The first value above 0 a header's lines yield, 0 if none does.
FirstValue(header, Value(_)) ==
  LET hit == {i \in DOMAIN header : Value(header[i]) > 0} IN IF hit = {} THEN 0 ELSE Value(header[Min(hit)])
InRange(n, low, high) == IF n \in low..high THEN n ELSE 0

\* "2 hours 30 minutes", "90 minutes", or a bare number that can be minutes.  A
\* small number of minutes beside hours is the hours repeated.
DurationOf(line) ==
  LET hours == 60 * InRange(line.hours, 1, 12)
      minutes == IF hours = 0 \/ line.minutes >= 5 THEN InRange(line.minutes, 1, 599) ELSE 0
      sum == hours + minutes
  IN InRange(IF sum = 0 THEN InRange(line.bare, 10, 600) ELSE sum, 1, 600)
DetectDuration(header) == FirstValue(header, LAMBDA l : IF l.kind = "time" THEN DurationOf(l) ELSE 0)
DetectTotalMarks(header) == FirstValue(header, LAMBDA l : IF l.kind = "total" THEN InRange(l.marks, 1, 1000000) ELSE 0)
DetectMarksPerQuestion(header) == FirstValue(header, LAMBDA l : IF l.kind = "each" THEN InRange(l.marks, 1, 10000) ELSE 0)

\* A penalty: a fraction, else the first number on the line that can be one.
PenaltyOf(line) ==
  LET fraction == IF line.den > 0 THEN InRange(RoundDiv(100 * line.num, line.den), 1, 1000) ELSE 0
  IN IF fraction > 0 THEN fraction ELSE FirstValue(line.numbers, LAMBDA n : InRange(n, 1, 1000))
\* The penalty a paper states, 0 when it says there is none.
Silent == -1
DetectNegative(header) ==
  LET v == FirstValue(header, LAMBDA l : IF l.kind = "penalty" THEN PenaltyOf(l) ELSE 0)
  IN IF \E i \in DOMAIN header : header[i].kind = "no penalty" THEN 0
     ELSE IF v > 0 THEN v ELSE Silent

Stated(docs, Value(_)) == Among([i \in DOMAIN docs |-> Value(docs[i].header)], Nat \ {0})
DetectScheme(docs) ==
  [duration |-> ModeInt(Stated(docs, DetectDuration)),
   total    |-> ModeInt(Stated(docs, DetectTotalMarks)),
   each     |-> ModeInt(Stated(docs, DetectMarksPerQuestion)),
   negative |-> ModeInt(Among([i \in DOMAIN docs |-> DetectNegative(docs[i].header)], Nat))]

(***************************************************************************)
(* Sections.  Sightings of one section in several papers are collected by  *)
(* its subject, or by its label when the heading matched no subject.  A    *)
(* place is a paper and one of its sections; a group of sightings is known *)
(* by the place of the first.                                              *)
(***************************************************************************)
Whole(doc) == IF doc.sections = <<>> THEN <<[label |-> "", subject |-> "none", count |-> doc.questions]>>
              ELSE doc.sections
KeyOf(s) == IF s.subject = "none" THEN <<"label", s.label>> ELSE <<"subject", s.subject>>

Places(docs) == UNION {{<<d, i>> : i \in DOMAIN Whole(docs[d])} : d \in DOMAIN docs}
At(docs, p) == Whole(docs[p[1]])[p[2]]
Before(p, q) == p[1] < q[1] \/ (p[1] = q[1] /\ p[2] < q[2])
Sightings(docs, p) == {q \in Places(docs) : KeyOf(At(docs, q)) = KeyOf(At(docs, p))}
CollectGroups(docs) == {p \in Places(docs) : \A q \in Sightings(docs, p) : ~Before(q, p)}

\* Where in its papers a section tends to stand.
AverageOrder(docs, seen) ==
  RoundDiv(Total([d \in DOMAIN docs |->
             Total([i \in DOMAIN Whole(docs[d]) |-> IF <<d, i>> \in seen THEN i - 1 ELSE 0])]),
           Cardinality(seen))
SectionAt(docs, multiple, p) ==
  LET s == At(docs, p)
      seen == Sightings(docs, p)
  IN [first   |-> p,
      name    |-> IF s.label # "" THEN s.label ELSE IF s.subject # "none" THEN s.subject ELSE "Section",
      subject |-> s.subject,
      count   |-> RoundTo(MedianInt([q \in seen |-> At(docs, q).count]), multiple),
      seenIn  |-> Cardinality(seen),
      order   |-> AverageOrder(docs, seen)]
\* By average order, then by first sighting.
Ahead(g, h) == g.order < h.order \/ (g.order = h.order /\ Before(g.first, h.first))
BuildSections(docs, multiple) ==
  LET kept == {g \in {SectionAt(docs, multiple, p) : p \in CollectGroups(docs)} : g.count > 0}
      rank(g) == Cardinality({h \in kept : Ahead(h, g)})
  IN [n \in 1..Cardinality(kept) |-> CHOOSE g \in kept : rank(g) = n - 1]

\* Shares of the paper in hundredths of a percent, each rounded; what the shares
\* lack of 100 before rounding, nothing here, goes to the largest section.
AssignWeightage(sections, total) ==
  [i \in DOMAIN sections |-> [name |-> sections[i].name, subject |-> sections[i].subject, count |-> sections[i].count,
                              seenIn |-> sections[i].seenIn,
                              weightage |-> IF total > 0 THEN RoundDiv(10000 * sections[i].count, total) ELSE 0]]

(***************************************************************************)
(* The draft.                                                              *)
(***************************************************************************)
\* Only papers that yielded questions inform the pattern.
WithQuestions(observed) == Among(observed, {d \in Range(observed) : d.questions > 0})
Analyze(observed, multiple) ==
  LET docs == WithQuestions(observed)
      scheme == DetectScheme(docs)
      sections == BuildSections(docs, multiple)
      sum == Total([i \in DOMAIN sections |-> sections[i].count])
      total == IF sum > 0 THEN sum ELSE RoundTo(MedianInt([i \in DOMAIN docs |-> docs[i].questions]), multiple)
      each == IF scheme.each > 0 THEN scheme.each ELSE 100
      Distance(n) == IF n > total THEN n - total ELSE total - n
  IN [derivedFrom |-> Len(docs),
      total       |-> total,
      options     |-> ModeInt(Among([i \in DOMAIN docs |-> docs[i].options], Nat \ {0})),
      duration    |-> scheme.duration,
      each        |-> each,
      negative    |-> scheme.negative,
      totalMarks  |-> IF scheme.total > 0 THEN scheme.total ELSE total * each,
      sections    |-> AssignWeightage(sections, total),
      unmatched   |-> Cardinality({i \in DOMAIN sections : sections[i].subject = "none"}),
      suspect     |-> {i \in DOMAIN docs : total > 0 /\ 3 * Distance(docs[i].questions) > total}]
=============================================================================
