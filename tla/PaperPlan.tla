----------------------------- MODULE PaperPlan -----------------------------
(***************************************************************************)
(* How a paper is planned and filled (internal/blueprint/build.go), as     *)
(* functions.  A question is a record                                      *)
(*    subject, difficulty, relevance, borrowed, answered, passed : what the*)
(*    selection tells apart; status is "draft", "approved" or "rejected"   *)
(* and a request is a record                                               *)
(*    type, total (0: the pattern's), mix (<<>>: the sections'), borrowed,  *)
(*    onlyApproved, requireAnswer, unvetted, excluded.                     *)
(* A pattern section has a subject ("none": unmapped), a count and a mix.  *)
(* The range of years, which narrows both queries alike, is left out.      *)
(***************************************************************************)
EXTENDS Integers, Sequences, FiniteSets, FiniteSetsExt, Lists

Difficulty == {"easy", "medium", "hard"}
RoundShare(a, b) == (2 * a + b) \div (2 * b)

(***************************************************************************)
(* Targets.                                                                *)
(***************************************************************************)
MixOf(e, m, h) == [easy |-> e, medium |-> m, hard |-> h]
DefaultMixFor(type) ==
  CASE type = "easy" -> MixOf(60, 35, 5) [] type = "tough" -> MixOf(10, 35, 55)
    [] type = "speed" -> MixOf(55, 40, 5) [] OTHER -> MixOf(30, 50, 20)
DefaultMix == DefaultMixFor("balanced")
\* A mix scaled to 100 in whole percents, the remainder hard.
Normalized(m) ==
  LET sum == m.easy + m.medium + m.hard
      share(n) == (100 * n) \div sum
  IN IF sum <= 0 THEN DefaultMix ELSE IF sum = 100 THEN m
     ELSE [easy |-> share(m.easy), medium |-> share(m.medium), hard |-> 100 - share(m.easy) - share(m.medium)]
MixFor(req, section) ==
  IF req.mix # <<>> THEN Normalized(req.mix)
  ELSE IF section.mix # <<>> /\ section.mix.easy + section.mix.medium + section.mix.hard > 0
       THEN Normalized(section.mix) ELSE DefaultMixFor(req.type)

\* The sections with a count and a subject, in order.
Usable(sections) == Among(sections, {s \in Range(sections) : s.count > 0 /\ s.subject # "none"})
PatternTotal(u) == Total([i \in DOMAIN u |-> u[i].count])
Target(req, u) == IF req.total > 0 THEN req.total ELSE PatternTotal(u)

\* Each section is scaled in proportion and to at least one, unless the total is
\* the pattern's own; the last takes whatever the others leave.
Scaled(req, u) ==
  [i \in DOMAIN u |-> IF Target(req, u) = PatternTotal(u) THEN u[i].count
                      ELSE Max({1, RoundShare(u[i].count * Target(req, u), PatternTotal(u))})]
\* Mutant: every section is scaled, none absorbs the drift.
WantsAll(req, u) ==
  [i \in DOMAIN u |-> IF Target(req, u) = PatternTotal(u) THEN u[i].count
                      ELSE RoundShare(u[i].count * Target(req, u), PatternTotal(u))]
Wants(req, u) ==
  LET assigned == RunningSum(Scaled(req, u))[Len(u) - 1]
  IN [i \in DOMAIN u |-> IF i = Len(u) /\ Target(req, u) # PatternTotal(u)
                         THEN Max({0, Target(req, u) - assigned}) ELSE Scaled(req, u)[i]]
ScaleSections(req, sections) ==
  LET u == Usable(sections)
  IN [i \in DOMAIN u |-> [subject |-> u[i].subject, mix |-> MixFor(req, u[i]), want |-> Wants(req, u)[i]]]

(***************************************************************************)
(* Candidates.                                                             *)
(***************************************************************************)
LoadCandidates(bank, req, subject) ==
  {q \in bank : /\ q.subject = subject
                /\ req.borrowed \/ ~q.borrowed
                /\ IF req.onlyApproved THEN q.status = "approved" ELSE q.status # "rejected"
                /\ req.requireAnswer => q.answered
                /\ req.unvetted \/ q.passed}

(***************************************************************************)
(* Selection.  Buckets are taken up to their targets; what is missing is   *)
(* taken one at a time from medium, easy and hard in turn, until there is  *)
(* enough or every bucket is empty.                                        *)
(***************************************************************************)
Buckets(free) == [d \in Difficulty |-> {q \in free : q.difficulty = d}]
Sizes(free) == [d \in Difficulty |-> Cardinality(Buckets(free)[d])]
Targets(plan) ==
  LET part(n) == (plan.want * n) \div 100 IN
    [easy |-> part(plan.mix.easy), hard |-> part(plan.mix.hard),
     medium |-> plan.want - part(plan.mix.easy) - part(plan.mix.hard)]
SumOf(t) == t.easy + t.medium + t.hard

\* After n turns a bucket has had its own share of them, as long as it lasts.
Turns(n) == [medium |-> (n + 2) \div 3, easy |-> (n + 1) \div 3, hard |-> n \div 3]
After(size, first, n) == [d \in Difficulty |-> Min({size[d], first[d] + Turns(n)[d]})]
Enough(size, first, want) ==
  {n \in 0..(3 * want) : n = 3 * want \/ SumOf(After(size, first, n)) >= want}
InTurn(size, first, want) == After(size, first, Min(Enough(size, first, want)))

\* Mutant: the targets are ignored, buckets are taken in turn from the start.
TakenInTurn(free, plan) == InTurn(Sizes(free), [d \in Difficulty |-> 0], plan.want)
Taken(free, plan) ==
  InTurn(Sizes(free), [d \in Difficulty |-> Min({Targets(plan)[d], Sizes(free)[d]})], plan.want)
\* The selections a shuffle can lead to: from each bucket the most relevant.
SelectForSection(free, plan) ==
  {S \in SUBSET free : \A d \in Difficulty : LET b == Buckets(free)[d] IN
     /\ Cardinality(S \intersect b) = Taken(free, plan)[d]
     /\ \A x \in S \intersect b, y \in b \ S : x.relevance >= y.relevance}

(***************************************************************************)
(* Inspect: the supply of each section, before anything is built.  An      *)
(* error in counting the answered or the approved questions, where the     *)
(* request asks for these, is a count of 0 (countWith), and 0 the section's*)
(* supply; uncounted are the sections this happens to.                     *)
(***************************************************************************)
CountsNeeded(req) == req.requireAnswer \/ req.onlyApproved
\* Mutant: only what has passed the checks and is answered counts.
UsableVetted(bank, req, subject) ==
  Cardinality({q \in LoadCandidates(bank, [req EXCEPT !.requireAnswer = TRUE], subject) : q.passed})
UsableCount(bank, req, subject) ==
  LET pool == LoadCandidates(bank, [req EXCEPT !.borrowed = TRUE, !.onlyApproved = FALSE, !.requireAnswer = FALSE], subject)
      held == {q \in bank : q.subject = subject /\ (req.borrowed \/ ~q.borrowed)}
  IN Min({Cardinality({q \in pool : req.borrowed \/ ~q.borrowed})}
         \union (IF req.requireAnswer THEN {Cardinality({q \in held : q.answered})} ELSE {})
         \union (IF req.onlyApproved THEN {Cardinality({q \in held : q.status = "approved"})} ELSE {}))
Inspect(bank, req, sections, uncounted) ==
  LET plans == ScaleSections(req, sections)
      usable == [i \in DOMAIN plans |-> IF i \in uncounted THEN 0 ELSE UsableCount(bank, req, plans[i].subject)]
  IN [sufficient |-> {i \in DOMAIN plans : usable[i] >= plans[i].want},
      uncounted |-> uncounted, available |-> Total(usable)]
=============================================================================
