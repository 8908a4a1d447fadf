----------------------------- MODULE Extraction -----------------------------
(***************************************************************************)
(* A question paper is printed line by line and read as it is printed.     *)
(* The printer keeps to the forms the parser is written for and notes what *)
(* it means by each line; the parser sees the line alone.  When the body   *)
(* ends, preambles, a key and worked solutions are folded in.              *)
(***************************************************************************)
EXTENDS PaperAnswers

CONSTANTS Style,     \* of "letters", "digits" (options look like numbers), "prefixed" ("Q1")
          Back,      \* [key, solutions]: what may stand behind the questions
          MaxLines,  \* bound on the body's lines, for each style
          MaxKeyed   \* bound on those of a body with a key or solutions behind it
PairSeq == Seq(Nat \X Nat)
ASSUME PrinterAssumption ==
  /\ FirstQuestion >= 1 /\ MaxNumberGap >= 2
  /\ \A b \in Back : b.key \in Seq([table : PairSeq, wrapped : PairSeq, bare : PairSeq])

VARIABLES style, doc,
          sheet,     \* what the printer means
          p,         \* the parser
          back, parsed
vars == <<style, doc, sheet, p, back, parsed>>

Line == [kind |-> "text", n |-> 0, idx |-> 0, count |-> 0, behind |-> FALSE, from |-> 0, to |-> 0,
         verdict |-> 0, label |-> "none", size |-> 1]
Blank == [Line EXCEPT !.kind = "blank"]
LongText == [Line EXCEPT !.size = 12]

Init == /\ style \in Style /\ doc = <<>> /\ p = NewParser /\ back = None /\ parsed = None
        /\ sheet = [qs |-> <<>>, phase |-> "front", given |-> 0, packed |-> FALSE, govs |-> <<>>, label |-> "none"]

(***************************************************************************)
(* The printer: each operator is a set of pairs of a line and the sheet    *)
(* after it.                                                               *)
(***************************************************************************)
line == Len(doc) + 1
here == Len(sheet.qs)
gov == Len(sheet.govs)
After(kinds) == doc # <<>> /\ doc[Len(doc)].kind \in kinds
Done == sheet.phase \in {"closed", "answered", "solved", "spilled"} \/ (sheet.phase = "options" /\ sheet.given = OptTarget)
Wanting == sheet.phase = "stem" \/ (sheet.phase = "options" /\ sheet.given < OptTarget)
Latest == IF here = 0 THEN FirstQuestion - 1 ELSE sheet.qs[here].number
Say(l, next) == {<<l, next>>}
When(cond, choices) == IF cond THEN choices ELSE {}

PrintBlank ==
  When(After({"text", "marks", "lead-in"}) /\ sheet.phase \notin {"front", "preamble"},
       Say(Blank, [sheet EXCEPT !.phase = IF @ \in {"options", "spilled"} /\ sheet.given = OptTarget THEN "closed" ELSE @]))
\* The preambles that reach question n: the latest unless a heading closed it,
\* an explicit one within its range.
Reaching(n) == {g \in {gov} \ {0} : IF sheet.govs[g].explicit THEN n \in sheet.govs[g].from..sheet.govs[g].to
                                    ELSE ~sheet.govs[g].closed}
\* The line that starts question n, its options behind it or not.
Starting(n, behind) ==
  LET question == [number |-> n, section |-> sheet.label, stem |-> {line}, trailing |-> {}, explanation |-> {}, own |-> 0,
                   options |-> [k \in Option |-> IF behind THEN {line} ELSE {}], issues |-> {}, govs |-> Reaching(n)]
  IN <<[Line EXCEPT !.kind = "marks", !.n = n, !.behind = behind, !.idx = IF behind THEN 1 ELSE IF style = "digits" THEN n ELSE 0,
                    !.count = IF behind THEN OptTarget ELSE IF style = "digits" THEN 1 ELSE 0],
       [sheet EXCEPT !.qs = Append(@, question), !.phase = IF behind THEN "options" ELSE "stem",
                     !.given = IF behind THEN OptTarget ELSE 0, !.packed = behind,
                     !.govs = IF @ # <<>> /\ @[gov].from = 0 THEN [@ EXCEPT ![gov].from = n] ELSE @]>>
PrintMarker ==
  LET finished == Done \/ sheet.phase \in {"front", "preamble"}
      filed == MinOptions < OptTarget \/ sheet.packed \/ sheet.phase # "options"
      numbers == {Latest + 1} \union When(finished /\ here > 0 /\ filed, {Latest + 2})
  IN When(finished \/ style # "digits", {Starting(n, behind) : n \in numbers, behind \in BOOLEAN})
\* The next option alone on its line, two or all that are left in a row, or,
\* when the set is complete, the real choices after a list of statements.
PrintOptions ==
  LET marks(idx, count) == [Line EXCEPT !.kind = "marks", !.n = IF style = "digits" THEN idx ELSE 0, !.idx = idx, !.count = count]
      left == OptTarget - sheet.given
      given(count) == [sheet EXCEPT !.phase = "options", !.given = @ + count, !.packed = count > 1,
          !.qs[here].options = [k \in Option |-> IF k \in (sheet.given + 1)..(sheet.given + count) THEN {line} ELSE @[k]]]
  IN When(Wanting, {<<marks(sheet.given + 1, count), given(count)>> : count \in {1, 2, left} \intersect 1..left})
     \union When(sheet.phase = "options" /\ sheet.given = OptTarget,
          Say(marks(1, OptTarget), [sheet EXCEPT !.packed = TRUE, !.qs[here].options = [k \in Option |-> {line}],
                                                   !.qs[here].issues = @ \union {"replaced"}]))
\* More of the stem, which may read like a lead-in or start with a figure.
PrintStem ==
  LET more == [sheet EXCEPT !.qs[here].stem = @ \union {line}] IN
    When(sheet.phase = "stem", Say(Line, more) \union Say([Line EXCEPT !.kind = "lead-in"], more)
      \union When(style # "prefixed", Say([Line EXCEPT !.kind = "marks", !.n = Latest + MaxNumberGap + 1], more)))
\* An option runs on to a second line, which may read like a heading.
PrintWrap ==
  LET more == [sheet EXCEPT !.qs[here].options[sheet.given] = @ \union {line}] IN
    When(sheet.phase = "options" /\ After({"marks"}),
      Say(Line, more) \union When(sheet.given < OptTarget, Say([Line EXCEPT !.kind = "heading", !.label = "A"], more)))
\* A running header, after a blank line or so long that it cannot be an option's.
PrintFurniture ==
  LET more == [sheet EXCEPT !.qs[here].trailing = @ \union {line}] IN
    When(sheet.phase = "closed", Say(Line, more) \union Say([Line EXCEPT !.kind = "part"], more))
    \union When(sheet.phase = "options" /\ sheet.given = OptTarget /\ sheet.packed /\ After({"marks"}) /\ OptTarget >= 4,
         Say(LongText, [more EXCEPT !.phase = "spilled", !.qs[here].issues = @ \union {"overrun"}]))
PrintPreamble ==
  LET next == Latest + 1
      closed == [g \in DOMAIN sheet.govs |-> [sheet.govs[g] EXCEPT !.closed = TRUE]]
      opened(from, to) == [sheet EXCEPT !.phase = "preamble", !.govs = Append(closed,
                            [text |-> {line}, from |-> from, to |-> to, explicit |-> from > 0, closed |-> FALSE])]
      free == gov = 0 \/ ~sheet.govs[gov].explicit \/ sheet.govs[gov].to < next
  IN When(free /\ (Done \/ sheet.phase = "front") /\ next < 2000,
          Say([Line EXCEPT !.kind = "directions", !.from = next, !.to = next + 1], opened(next, next + 1))
          \union When(sheet.phase # "options" \/ sheet.packed, Say([Line EXCEPT !.kind = "lead-in"], opened(0, 0))))
     \union When(sheet.phase = "preamble", Say(Line, [sheet EXCEPT !.govs[gov].text = @ \union {line}]))
PrintHeading ==
  LET closed == [g \in DOMAIN sheet.govs |-> [sheet.govs[g] EXCEPT !.closed = TRUE]]
      headed(label) == [sheet EXCEPT !.phase = "front", !.label = label, !.govs = closed]
  IN When(Done \/ sheet.phase = "front",
          Say([Line EXCEPT !.kind = "heading", !.label = "A"], headed("A")))
     \union When(sheet.phase = "front", Say([Line EXCEPT !.kind = "part", !.label = "P"], headed("P")))
PrintAnswer ==
  When(Done /\ sheet.phase \notin {"answered", "solved"},
       Say([Line EXCEPT !.kind = "answer", !.verdict = 2], [sheet EXCEPT !.phase = "answered", !.qs[here].own = 2]))
  \union When(Done /\ sheet.phase # "solved",
       {<<[Line EXCEPT !.kind = "solution", !.verdict = v],
          [sheet EXCEPT !.phase = "solved", !.qs[here].explanation = @ \union {line}, !.qs[here].own = IF @ = 0 THEN v ELSE @]>>
          : v \in {0, 3} \intersect 0..OptTarget})
  \union When(sheet.phase = "solved", Say(Line, [sheet EXCEPT !.qs[here].explanation = @ \union {line}]))
Printable == PrintBlank \union PrintMarker \union PrintOptions \union PrintStem \union PrintWrap \union PrintFurniture
             \union PrintPreamble \union PrintHeading \union PrintAnswer

(***************************************************************************)
(* The parser's steps.                                                     *)
(***************************************************************************)
Settled(l) == IF l.kind = "blank" THEN p ELSE Settle(doc, p)
\* A line of a class is printed and read.
Reading(class, l, next) ==
  /\ parsed = None /\ Len(doc) < MaxLines[style] /\ Class(style, Settled(l), l) = class
  /\ doc' = Append(doc, l) /\ sheet' = next /\ UNCHANGED <<style, back, parsed>>
BlankLine(l, next)    == Reading("blank", l, next) /\ p' = [Commit(doc, p) EXCEPT !.blank = TRUE]
PreambleLine(l, next) == Reading("preamble", l, next) /\ p' = OpenContext(doc, Settled(l), l, line)
MarkerLine(l, next)   == Reading("marker", l, next) /\ p' = ReadMarker(doc, Settled(l), l, line)
RowLine(l, next)      == Reading("row", l, next) /\ p' = ReadRow(doc, Settled(l), l, line)
OptionLine(l, next)   == Reading("option", l, next) /\ p' = ReadOption(doc, Settled(l), l, line)
AnswerLine(l, next)   == Reading("answer", l, next) /\ p' = ReadAnswer(doc, Settled(l), l)
SolutionLine(l, next) == Reading("solution", l, next) /\ p' = ReadSolution(doc, Settled(l), l, line)
HeadingLine(l, next)  == Reading("heading", l, next) /\ p' = StartSection(doc, Settled(l), l)
TextLine(l, next)     == Reading("text", l, next) /\ p' = ReadText(Settled(l), line)
Parse ==
  /\ parsed = None /\ here > 0
  /\ p' = EndBody(doc, p)
  /\ \E b \in Back :
       /\ Len(doc) <= MaxKeyed \/ (b.key = <<>> /\ b.solutions = <<>>)
       /\ back' = b
       /\ parsed' = Finalize(ApplyExplanations(ApplyAnswerKey(ApplyContexts(p'.out, p'.contexts, p'.last),
                                                              ParseAnswerKey(b.key)), ParseExplanations(b.solutions)))
  /\ UNCHANGED <<style, doc, sheet>>
Next ==
  \/ \E choice \in Printable : LET l == choice[1] next == choice[2] IN
       \/ BlankLine(l, next) \/ PreambleLine(l, next) \/ MarkerLine(l, next) \/ RowLine(l, next) \/ OptionLine(l, next)
       \/ AnswerLine(l, next) \/ SolutionLine(l, next) \/ HeadingLine(l, next) \/ TextLine(l, next)
  \/ Parse
Spec == Init /\ [][Next]_vars

(***************************************************************************)
(* Properties.                                                             *)
(***************************************************************************)
\* Every section is summarised once, with the questions printed under its heading.
SectionsAsPrinted ==
  parsed # None => LET s == SummarizeSections(p.sections, parsed)
                       printed == [j \in DOMAIN parsed |-> sheet.qs[j].section] IN
    /\ {s[a].label : a \in DOMAIN s} = Range(printed) /\ Cardinality(Range(printed)) = Len(s)
    /\ \A a \in DOMAIN s : s[a].count = Cardinality({j \in DOMAIN parsed : printed[j] = s[a].label})
\* A question that has been filed holds what was printed as its own and nothing
\* else: number, section, stem, each option, what was set aside.
ReadAsPrinted ==
  /\ SectionsAsPrinted
  /\ \A j \in DOMAIN p.out : LET q == p.out[j] m == sheet.qs[j] IN
    /\ q.number = m.number /\ q.section = m.section /\ q.options = m.options /\ q.correct = m.own
    /\ q.text = [stem |-> m.stem, trailing |-> m.trailing, explanation |-> m.explanation]
    /\ q.issues = m.issues
\* A preamble reaches the questions printed under it: those in its range, or all
\* up to the next preamble or heading, at most OpenContextCap if none comes.
PreamblesAsPrinted ==
  parsed # None => \A j \in DOMAIN parsed :
    parsed[j].context = UNION {sheet.govs[g].text : g \in {g \in sheet.qs[j].govs :
      LET c == sheet.govs[g] IN c.explicit \/ c.closed \/ sheet.qs[j].number < c.from + OpenContextCap}}
\* An answer comes from the key where it has a valid pair, a bracketed or
\* tabulated one first; else from the question's own lines; else its solution.
KeyOptions(n, form) ==
  LET lines == {k \in DOMAIN back.key : form = "bare" => back.key[k].table = <<>>} IN
    UNION {{pair[2] : pair \in {x \in ToSet(back.key[k][form]) : x[1] = n /\ x[2] \in Option}} : k \in lines}
AnswersByPrecedence ==
  parsed # None => \A j \in DOMAIN parsed : LET q == parsed[j]
                                                sure == KeyOptions(q.number, "table") \union KeyOptions(q.number, "wrapped")
                                            IN
    Filled(q) = OptTarget =>
      /\ sure # {} => q.correct \in sure
      /\ sure = {} /\ KeyOptions(q.number, "bare") # {} => q.correct \in KeyOptions(q.number, "bare")
      /\ sure = {} /\ KeyOptions(q.number, "bare") = {} /\ sheet.qs[j].own # 0 => q.correct = sheet.qs[j].own
=============================================================================
