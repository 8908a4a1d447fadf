---------------------------- MODULE PaperParser ----------------------------
(***************************************************************************)
(* The body parser (internal/extract/parser.go), one line at a time.  Text *)
(* is the set of the lines it came from.  A line is a record               *)
(*    kind  : "blank", "text", "lead-in", "directions", "heading" (it names *)
(*            a subject), "part" (a heading that names none), "answer",     *)
(*            "solution", or "marks": it carries a number or option labels, *)
(*    n     : the question number its start can be read as, 0 if none,     *)
(*    idx, count : the first option label on it and how many follow in     *)
(*            order; with behind TRUE they stand behind a stem,            *)
(*    from, to : the range a directions line prints,                       *)
(*    verdict  : the option an answer or a solution names, 0 if none,      *)
(*    label    : the section a heading names,                              *)
(*    size     : its length in units of four characters.                   *)
(* The parser's state is a record p; a question being read is in p.cur.    *)
(***************************************************************************)
EXTENDS Integers, Sequences, FiniteSets, FiniteSetsExt, Lists

CONSTANTS OptTarget,       \* choices per question in this document
          MinOptions,      \* choices that make a question complete
          MaxNumberGap,    \* how far the numbering may jump
          OpenContextCap,  \* questions an open preamble may cover
          FirstQuestion    \* where the numbering was found to start, 0 if it was not
ASSUME ParserAssumption ==
  /\ OptTarget \in Nat /\ OptTarget >= 2 /\ MinOptions \in 0..OptTarget
  /\ MaxNumberGap \in Nat /\ OpenContextCap \in Nat /\ FirstQuestion \in Nat

None == <<>>
Option == 1..OptTarget
NewParser == [out |-> <<>>, cur |-> None, at |-> 0, dest |-> "stem", buf |-> {}, last |-> 0, complete |-> FALSE,
              blank |-> FALSE, section |-> "none", sections |-> <<>>, pending |-> None, contexts |-> <<>>]
NewQuestion(n, i, section) ==
  [number |-> n, line |-> i, section |-> section, text |-> [d \in {"stem", "explanation", "trailing"} |-> {}],
   options |-> [k \in Option |-> {}], width |-> 0, correct |-> 0, context |-> {}, issues |-> {}]
Filled(q) == Cardinality({k \in Option : q.options[k] # {}})
AddIssue(q, code) == [q EXCEPT !.issues = @ \union {code}]

(***************************************************************************)
(* Committing text and closing what is open.                               *)
(***************************************************************************)
Size(doc, text) == Total([i \in DOMAIN doc |-> IF i \in text THEN doc[i].size ELSE 0])
\* Adding text would make option k longer than four times the median of its
\* siblings, three or more, and than sixteen characters.
Overrun(doc, q, k, text) ==
  LET siblings == {j \in Option \ {k} : q.options[j] # {}}
      length == Size(doc, q.options[k]) + Size(doc, text)
  IN Cardinality(siblings) >= 3 /\ length > 4
     /\ Cardinality({j \in siblings : 4 * Size(doc, q.options[j]) < length}) > Cardinality(siblings) \div 2
CommitTo(doc, p) ==
  CASE p.dest = "context" -> IF p.pending = None THEN p ELSE [p EXCEPT !.pending.text = @ \union p.buf]
    [] p.dest # "context" /\ p.cur = None -> p
    [] p.dest = "option" /\ p.cur # None ->
         IF Overrun(doc, p.cur, p.at, p.buf)
         THEN [p EXCEPT !.cur = AddIssue([p.cur EXCEPT !.text.trailing = @ \union p.buf], "overrun")]
         ELSE [p EXCEPT !.cur.options[p.at] = @ \union p.buf]
    [] OTHER -> [p EXCEPT !.cur.text[p.dest] = @ \union p.buf]
Commit(doc, p) == IF p.buf = {} THEN p ELSE [CommitTo(doc, p) EXCEPT !.buf = {}]

CloseQuestion(doc, p) ==
  LET r == Commit(doc, p) IN
    IF r.cur = None THEN [r EXCEPT !.at = 0, !.dest = "stem"]
    ELSE [r EXCEPT !.complete = Filled(r.cur) >= MinOptions, !.out = Append(@, r.cur), !.cur = None, !.at = 0, !.dest = "stem"]
Seal(contexts, upto) ==
  [i \in DOMAIN contexts |-> IF contexts[i].to = 0 /\ contexts[i].from <= upto THEN [contexts[i] EXCEPT !.to = upto] ELSE contexts[i]]
\* Mutant: an open preamble is not sealed by the next one.
CloseContextOpen(doc, p, next) ==
  LET r == Commit(doc, p)
      c == [r.pending EXCEPT !.from = IF @ = 0 THEN next ELSE @]
  IN IF r.pending = None THEN r
     ELSE [r EXCEPT !.pending = None, !.contexts = IF c.text = {} THEN @ ELSE Append(@, c)]
CloseContext(doc, p, next) ==
  LET r == Commit(doc, p)
      c == [r.pending EXCEPT !.from = IF @ = 0 THEN next ELSE @]
  IN IF r.pending = None THEN r
     ELSE [r EXCEPT !.pending = None, !.contexts = IF c.text = {} THEN @ ELSE
                      Append(IF c.from > 1 THEN Seal(@, c.from - 1) ELSE @, c)]
StartSection(doc, p, l) ==
  LET r == CloseContext(doc, CloseQuestion(doc, p), p.last + 1) IN
    [r EXCEPT !.contexts = Seal(@, r.last), !.section = l.label, !.sections = Append(@, l.label)]
OpenContext(doc, p, l, i) ==
  LET r == CloseContext(doc, CloseQuestion(doc, p), 0) IN
    [r EXCEPT !.pending = [from |-> l.from, to |-> l.to, text |-> {}, explicit |-> l.from > 0, capped |-> FALSE],
              !.dest = "context", !.buf = {i}]

(***************************************************************************)
(* What a line is taken for.  The tests are made in this order.            *)
(***************************************************************************)
PlausibleRange(l) == l.kind = "directions" /\ l.from >= 1 /\ l.to \in l.from..(l.from + 199) /\ l.to <= 2000
Between(p) == p.cur = None \/ (p.at >= OptTarget /\ Filled(p.cur) >= OptTarget)
ClaimedByOption(style, p, l) == style = "digits" /\ p.cur # None /\ p.at < OptTarget /\ l.n = p.at + 1
AcceptQuestionNumber(style, p, n) ==
  LET complete == IF p.cur = None THEN p.complete ELSE Filled(p.cur) >= MinOptions IN
    \/ style = "prefixed"
    \/ p.last = 0 /\ IF FirstQuestion > 0 THEN n = FirstQuestion ELSE n <= 50
    \/ p.last > 0 /\ (n = p.last + 1 \/ (n - p.last \in 1..MaxNumberGap /\ complete))
MidOptionRun(p) == p.at \in 1..(OptTarget - 1)
Class(style, p, l) ==
  LET open == p.cur # None IN
  IF l.kind = "blank" THEN "blank"
  ELSE IF PlausibleRange(l) \/ (l.kind = "lead-in" /\ l.n = 0 /\ Between(p)) THEN "preamble"
  ELSE IF l.n > 0 /\ ~ClaimedByOption(style, p, l) /\ AcceptQuestionNumber(style, p, l.n) THEN "marker"
  ELSE IF open /\ l.count >= 2 /\ l.idx \in {1, p.at + 1} THEN "row"
  ELSE IF open /\ l.idx = p.at + 1 /\ l.idx <= OptTarget THEN "option"
  ELSE IF open /\ l.kind \in {"answer", "solution"} THEN l.kind
  ELSE IF (l.kind = "heading" \/ (l.kind = "part" /\ ~open)) /\ ~MidOptionRun(p) THEN "heading"
  ELSE "text"

(***************************************************************************)
(* One operator per class: the state after line i, which is l.             *)
(***************************************************************************)
\* A complete option set followed by a blank line is over.
\* Mutant: it is not.
SettleNever(doc, p) == [p EXCEPT !.blank = FALSE]
Settle(doc, p) ==
  IF p.blank /\ p.dest = "option" /\ p.cur # None /\ p.at >= OptTarget
  THEN [Commit(doc, p) EXCEPT !.dest = "trailing", !.blank = FALSE] ELSE [p EXCEPT !.blank = FALSE]

\* The options a question has room for, filled or not.
Widen(q, k) == [q EXCEPT !.width = Max({@, Min({k, OptTarget})})]
FillOptions(q, i, from, count) ==
  Widen([q EXCEPT !.options = [k \in Option |-> IF k \in from..(from + count - 1) THEN @[k] \union {i} ELSE @[k]]],
        from + count - 1)
ReadMarker(doc, p, l, i) ==
  LET r == CloseQuestion(doc, CloseContext(doc, p, l.n))
      q == NewQuestion(l.n, i, p.section)
      full == l.behind /\ l.count >= 2
  IN [r EXCEPT !.last = l.n, !.cur = IF full THEN FillOptions([q EXCEPT !.text.stem = {i}], i, 1, l.count) ELSE q,
               !.at = IF full THEN Min({l.count, OptTarget}) ELSE 0,
               !.dest = IF full THEN "option" ELSE "stem", !.buf = IF full THEN {} ELSE {i}]
\* A row of labels; one that starts again at the first replaces a complete set.
\* What stands before it belongs to the stem while no option has been read.
ReadRow(doc, p, l, i) ==
  LET s == Commit(doc, p)
      r == IF l.behind /\ p.at = 0 THEN Commit(doc, [s EXCEPT !.buf = {i}]) ELSE s
      again == l.idx = 1 /\ p.at >= OptTarget
      q == IF again THEN AddIssue([r.cur EXCEPT !.options = [k \in Option |-> {}]], "replaced") ELSE r.cur
  IN [r EXCEPT !.cur = FillOptions(q, i, l.idx, l.count), !.dest = "option",
               !.at = IF l.idx > OptTarget THEN @ ELSE Min({l.idx + l.count - 1, OptTarget})]
ReadOption(doc, p, l, i) == [Commit(doc, p) EXCEPT !.cur = Widen(@, l.idx), !.at = l.idx, !.dest = "option", !.buf = {i}]
\* The question's own answer line decides; a verdict only where nothing has.
ReadAnswer(doc, p, l) ==
  LET r == [Commit(doc, p) EXCEPT !.dest = "stem"] IN
    IF l.verdict \in Option THEN [r EXCEPT !.cur = [Widen(r.cur, l.verdict) EXCEPT !.correct = l.verdict]] ELSE r
ReadSolution(doc, p, l, i) ==
  LET r == [Commit(doc, p) EXCEPT !.dest = "explanation", !.buf = {i}] IN
    IF l.verdict \in Option
    THEN [r EXCEPT !.cur = [Widen(r.cur, l.verdict) EXCEPT !.correct = IF @ = 0 THEN l.verdict ELSE @]] ELSE r
ReadText(p, i) == [p EXCEPT !.buf = @ \union {i}]
\* The end of the body.
EndBody(doc, p) == CloseQuestion(doc, CloseContext(doc, p, p.last + 1))
=============================================================================
