---------------------------- MODULE PaperLayout ----------------------------
(***************************************************************************)
(* How the parser learns a document's conventions before it reads it       *)
(* (internal/extract/markers.go, findRegions in types.go): how options are *)
(* labelled, how many a question has, how questions are numbered and from  *)
(* where, and where the answers behind the questions begin.                *)
(* A line is a record of what the patterns find on it:                     *)
(*    label  : per option style, the index of the label it starts with, 0  *)
(*             if none,                                                    *)
(*    inline : per option style, the indexes of all labels on it in order, *)
(*    number : per numbering style, the number it starts with, 0 if none,  *)
(*    title  : "key" or "solutions" for a heading of answers, else "none", *)
(*    pairs  : how many pairs of a number and an answer it seems to hold.  *)
(* Digits can label options and, with the same mark, number questions.     *)
(***************************************************************************)
EXTENDS Integers, Sequences, FiniteSets, SequencesExt, FiniteSetsExt, Lists

CONSTANTS MaxQuestionNumber,   \* what can still be a question's number
          Window,              \* lines in which a heading's answers are counted
          MinPairs             \* pairs that make a heading one of answers
ASSUME LayoutAssumption == MaxQuestionNumber \in Nat /\ Window \in Nat \ {0, 1} /\ MinPairs \in Nat

OptionStyles == <<"letters", "roman", "digits">>
QuestionStyles == <<"prefixed", "plain">>

(***************************************************************************)
(* Runs of option labels.                                                  *)
(***************************************************************************)
\* The commonest element of a sequence, the largest of these; 0 if empty.
Commonest(lengths) ==
  LET count(n) == Cardinality({i \in DOMAIN lengths : lengths[i] = n}) IN
    Max({0} \union {n \in ToSet(lengths) : \A m \in ToSet(lengths) : count(m) <= count(n)})
Long(run) == IF run >= 2 THEN <<run>> ELSE <<>>
\* Runs that start at the first label, one label at the start of each line.
LineRuns(style, lines) ==
  LET step(r, l) == LET k == l.label[style] IN
        IF k > 1 /\ k = r.run + 1 /\ r.run > 0 THEN [r EXCEPT !.run = k]
        ELSE [run |-> IF k = 1 THEN 1 ELSE 0, found |-> r.found \o Long(r.run)]
      end == FoldLeft(step, [run |-> 0, found |-> <<>>], lines)
  IN end.found \o Long(end.run)
\* The longest run from the first label inside one line.
InlineRunLength(labels) ==
  LET step(r, k) == IF k = r.next THEN [r EXCEPT !.next = k + 1]
                    ELSE [next |-> IF k = 1 THEN 2 ELSE 1, best |-> Max({r.best, r.next - 1})]
      end == FoldLeft(step, [next |-> 1, best |-> 0], labels)
  IN IF Len(labels) < 2 THEN 0 ELSE Max({end.best, end.next - 1})
InlineRuns(style, lines) == FlattenSeq([i \in DOMAIN lines |-> Long(InlineRunLength(lines[i].inline[style]))])
LabelSequence(style, l) ==
  IF Len(l.inline[style]) > 1 THEN l.inline[style] ELSE IF l.label[style] > 0 THEN <<l.label[style]>> ELSE <<>>
\* From one first label to the next, over as many lines as it takes.  What is
\* out of order is ignored.
\* Mutant: a cycle ends with its line.
CycleByLine(style, lines) == Commonest(InlineRuns(style, lines))
ModalCycleLength(style, lines) ==
  LET labels == FlattenSeq([i \in DOMAIN lines |-> LabelSequence(style, lines[i])])
      step(r, k) == IF k = r.cursor + 1 THEN [r EXCEPT !.cursor = k]
                    ELSE IF k = 1 THEN [cursor |-> 1, found |-> r.found \o Long(r.cursor)] ELSE r
      end == FoldLeft(step, [cursor |-> 0, found |-> <<>>], labels)
  IN Commonest(end.found \o Long(end.cursor))

(***************************************************************************)
(* The option style.                                                       *)
(***************************************************************************)
StyleScore(style, lines) ==
  LET runs == LineRuns(style, lines) \o InlineRuns(style, lines) IN
    [style |-> style, runs |-> Len(runs), markers |-> FoldLeft(+, 0, runs),
     modal |-> Max({Commonest(runs), ModalCycleLength(style, lines)})]
BetterStyle(candidate, current) ==
  IF candidate.style = "digits" /\ current.style # "digits" THEN candidate.markers > 2 * current.markers
  ELSE IF candidate.style # "digits" /\ current.style = "digits" THEN 2 * candidate.markers >= current.markers
  ELSE candidate.markers > current.markers \/ (candidate.markers = current.markers /\ candidate.runs > current.runs)
DetectOptionStyle(lines) ==
  LET scores == SelectSeq([i \in DOMAIN OptionStyles |-> StyleScore(OptionStyles[i], lines)], LAMBDA s : s.runs > 0)
      best == FoldLeft(LAMBDA b, s : IF BetterStyle(s, b) THEN s ELSE b, scores[1], scores)
  IN IF scores = <<>> THEN [style |-> "none", count |-> 0] ELSE [style |-> best.style, count |-> best.modal]

(***************************************************************************)
(* The numbering: the style with the longest run of ascending numbers when *)
(* the digits that continue a question's options are left to them.         *)
(***************************************************************************)
ScanNumber(style, opt, r, l) ==
  LET n == l.number[style]
      k == IF opt.style \in {"none", "digits"} THEN 0 ELSE l.label[opt.style]
      seen == [r EXCEPT !.seen = @ + 1]
      opens == [seen EXCEPT !.last = n, !.at = 0]
  IN IF k > 0 THEN [r EXCEPT !.at = IF k = 1 \/ k = @ + 1 THEN k ELSE @]
     ELSE IF n = 0 THEN r
     ELSE IF opt.style = "digits" /\ r.last > 0 /\ r.at < opt.count /\ n = r.at + 1 THEN [seen EXCEPT !.at = n]
     ELSE IF r.last = 0 /\ n <= MaxQuestionNumber THEN [opens EXCEPT !.ascending = @ + 1, !.first = n]
     ELSE IF n = r.last + 1 THEN [opens EXCEPT !.ascending = @ + 1]
     ELSE IF r.ascending <= 1 /\ n = 1 /\ r.last # 1 THEN [opens EXCEPT !.first = 1]
     ELSE seen
NumberingScore(style, opt, lines) ==
  LET r == FoldLeft(LAMBDA a, l : ScanNumber(style, opt, a, l),
                    [last |-> 0, first |-> 0, at |-> 0, ascending |-> 0, seen |-> 0], lines)
  IN [style |-> style, first |-> r.first,
      score |-> 10 * r.ascending + r.seen + IF style = "prefixed" /\ r.ascending > 0 THEN 500 ELSE 0]
DetectQuestionStyle(lines, opt) ==
  LET scores == [i \in DOMAIN QuestionStyles |-> NumberingScore(QuestionStyles[i], opt, lines)]
      best == FoldLeft(LAMBDA b, s : IF s.score > b.score THEN s ELSE b, [style |-> "none", first |-> 0, score |-> 0], scores)
  IN [numbering |-> best.style, first |-> best.first]

(***************************************************************************)
(* Splitting a line that holds several options: of its ascending runs, the *)
(* one that continues the question, or starts anew, or is the longest and  *)
(* latest.                                                                 *)
(***************************************************************************)
RunsOf(labels) ==
  LET starts == {i \in DOMAIN labels : i = 1 \/ labels[i] # labels[i - 1] + 1}
      length(i) == Min({j \in starts \union {Len(labels) + 1} : j > i}) - i
  IN {[at |-> i, first |-> labels[i], count |-> length(i)] : i \in {j \in starts : length(j) >= 2}}
\* Mutant: the first run of labels is taken.
SplitFirstRun(labels, wanted) == {run \in RunsOf(labels) : \A other \in RunsOf(labels) : run.at <= other.at}
SplitInlineOptions(labels, wanted) ==
  LET rank(run) == IF run.first = wanted THEN 3 ELSE IF run.first = 1 THEN 2 ELSE 1
      before(a, b) == \/ rank(a) < rank(b)
                      \/ rank(a) = rank(b) /\ (a.count < b.count \/ (a.count = b.count /\ a.at <= b.at))
  IN {run \in RunsOf(labels) : \A other \in RunsOf(labels) : before(other, run)}

(***************************************************************************)
(* Where the questions end: at the first heading of answers in the last    *)
(* four fifths that enough pairs follow; else at the first of solutions.   *)
(***************************************************************************)
\* Mutant: a heading of answers counts wherever it stands.
FindAnywhere(lines) ==
  LET heading == {i \in DOMAIN lines : lines[i].title # "none"}
      key == IF heading = {} THEN 0 ELSE Min(heading)
      later == {i \in heading : lines[i].title = "solutions"}
      solutions == IF later = {} THEN 0 ELSE Min(later)
  IN [key |-> key, solutions |-> solutions, end |-> IF key > 0 THEN key - 1 ELSE Len(lines)]
FindRegions(lines) ==
  LET earliest == Len(lines) \div 5
      heading == {i \in DOMAIN lines : lines[i].title # "none"}
      pairs(i) == Total([k \in 1..(Min({Len(lines), i + Window - 1}) - i + 1) |-> lines[i + k - 1].pairs])
      backed == {i \in heading : i > earliest /\ pairs(i) >= MinPairs}
      key == IF backed = {} THEN 0 ELSE Min(backed)
      later == {i \in heading : lines[i].title = "solutions" /\ i > (IF key > 0 THEN key - 1 ELSE earliest)}
      solutions == IF later = {} THEN 0 ELSE Min(later)
  IN [key |-> key, solutions |-> solutions,
      end |-> IF key > 0 THEN key - 1 ELSE IF solutions > 0 THEN solutions - 1 ELSE Len(lines)]
=============================================================================
