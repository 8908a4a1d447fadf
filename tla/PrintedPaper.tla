---------------------------- MODULE PrintedPaper ----------------------------
(***************************************************************************)
(* A paper is printed in one convention, with the disturbances that real   *)
(* ones have; the detectors of PaperLayout see its lines alone.            *)
(***************************************************************************)
EXTENDS PaperLayout, TLC

CONSTANTS Conventions,   \* [option, count, numbering, first]
          Noise,         \* disturbances that may stand in a stem, at most one in a paper
          MaxQuestions, MaxBack
\* A question has an option, and the answers behind the questions are not so
\* long that they begin in the first fifth of a paper.
ASSUME PrintedAssumption ==
  /\ \A c \in Conventions : c.count \in Nat \ {0} /\ c.first \in Nat
  /\ MaxQuestions \in Nat /\ MaxBack \in 0..(4 * MaxQuestions + 4)

VARIABLES conv, lines,
          asked, given,  \* questions begun, options printed of the last one
          row,           \* the options on the last line, and all labels behind its number
          noisy,         \* a disturbance was printed
          rear           \* where the key and the solutions begin, lines behind the questions
layoutVars == <<conv, lines, asked, given, row, noisy, rear>>

Plain == [label |-> [s \in ToSet(OptionStyles) |-> 0], inline |-> [s \in ToSet(OptionStyles) |-> <<>>],
          number |-> [s \in ToSet(QuestionStyles) |-> 0], title |-> "none", pairs |-> 0]
\* A line of labels, the first of them at its start if it is anchored.
Labelled(style, labels, anchored) ==
  [Plain EXCEPT !.inline[style] = labels, !.label[style] = IF anchored THEN labels[1] ELSE 0,
                !.number["plain"] = IF anchored /\ style = "digits" THEN labels[1] ELSE 0]
Marker(n, labels) ==
  LET l == Labelled(conv.option, labels, FALSE) IN
    IF conv.numbering = "prefixed" THEN [l EXCEPT !.number["prefixed"] = n]
    ELSE [l EXCEPT !.number["plain"] = n, !.label["digits"] = n, !.inline["digits"] = <<n>> \o @]
Options(from, size) == [k \in 1..size |-> from + k - 1]
NoRow == [from |-> 0, size |-> 0, labels |-> <<>>]

InitLayout == /\ conv \in Conventions /\ lines = <<>> /\ asked = 0 /\ given = conv.count
        /\ row = NoRow /\ noisy = FALSE /\ rear = [key |-> 0, solutions |-> 0, size |-> 0]
Put(l) == lines' = Append(lines, l)
Finished == given = conv.count
\* What may stand before a row: nothing, or text that cites options.
Citations == {<<>>} \union IF "citation" \in Noise /\ ~noisy THEN {<<1>>, <<2>>, <<1, 2>>, <<2, 3>>} ELSE {}

\* The cover has a title that reads like a heading of answers.
PrintCover ==
  /\ lines = <<>> /\ Put([Plain EXCEPT !.title = "solutions"])
  /\ UNCHANGED <<conv, asked, given, row, noisy, rear>>
\* A question, its options on lines of their own or behind the stem.
PrintQuestion ==
  /\ Finished /\ asked < MaxQuestions /\ asked' = asked + 1
  /\ \/ given' = 0 /\ row' = NoRow /\ noisy' = noisy /\ Put(Marker(conv.first + asked, <<>>))
     \/ /\ given' = conv.count
        /\ \E cited \in Citations : LET labels == cited \o Options(1, conv.count) IN
             /\ row' = [from |-> 1, size |-> conv.count, labels |-> labels] /\ noisy' = (noisy \/ cited # <<>>)
             /\ Put(Marker(conv.first + asked, labels))
  /\ UNCHANGED <<conv, rear>>
\* The next options: one, two in a row, or all that are left.
PrintRow ==
  /\ ~Finished
  /\ \E size \in {1, 2, conv.count - given} \intersect 1..(conv.count - given) :
     \E cited \in IF given = 0 /\ size > 1 THEN Citations ELSE {<<>>} :
       LET labels == cited \o Options(given + 1, size) IN
         /\ given' = given + size /\ row' = [from |-> given + 1, size |-> size, labels |-> labels]
         /\ noisy' = (noisy \/ cited # <<>>) /\ Put(Labelled(conv.option, labels, cited = <<>>))
  /\ UNCHANGED <<conv, asked, rear>>
\* In a stem: a list of two statements, or a figure at the start of a line.  It
\* is not the next option's label, nor a 1 in the first question of a paper that
\* starts later.
Figures == {24} \union (IF conv.option = "digits" THEN {} ELSE {2})
                \union (IF conv.option = "digits" \/ (asked = 1 /\ conv.first > 1) THEN {} ELSE {1})
PrintNoise ==
  /\ given = 0 /\ ~noisy /\ noisy' = TRUE
  /\ \/ "statements" \in Noise /\ lines' = lines \o <<Labelled("roman", <<1>>, TRUE), Labelled("roman", <<2>>, TRUE)>>
     \/ "figure" \in Noise /\ \E n \in Figures : Put(Labelled("digits", <<n>>, TRUE))
  /\ UNCHANGED <<conv, asked, given, row, rear>>
\* Behind the questions: a key or solutions, each with lines of pairs.
PrintBack ==
  /\ Finished /\ asked = MaxQuestions /\ rear.size < MaxBack
  /\ \/ rear.size = 0 /\ Put([Plain EXCEPT !.title = "key"]) /\ rear' = [rear EXCEPT !.key = Len(lines'), !.size = 1]
     \/ /\ rear.size # 1 /\ rear.solutions = 0 /\ Put([Plain EXCEPT !.title = "solutions"])
        /\ rear' = [key |-> IF rear.size = 0 THEN Len(lines') ELSE rear.key, solutions |-> Len(lines'), size |-> rear.size + 1]
     \/ /\ rear.size > 0 /\ Put([Plain EXCEPT !.number["plain"] = conv.first, !.pairs = MinPairs])
        /\ rear' = [rear EXCEPT !.size = @ + 1]
  /\ row' = NoRow /\ UNCHANGED <<conv, asked, given, noisy>>
NextLayout == PrintCover \/ PrintQuestion \/ PrintRow \/ PrintNoise \/ PrintBack
LayoutSpec == InitLayout /\ [][NextLayout]_layoutVars

(***************************************************************************)
(* Properties, of papers of five lines and three questions at least.       *)
(***************************************************************************)
Regions == FindRegions(lines)
Detected ==
  LET body == SubSeq(lines, 1, Regions.end)
      opt == DetectOptionStyle(body)
  IN [option |-> opt.style, count |-> opt.count] @@ DetectQuestionStyle(body, opt)
Whole == Finished /\ asked >= 3 /\ Len(lines) >= 5 /\ rear.size # 1
\* The questions end where they were printed to end, and the key and the
\* solutions begin where they were printed, whatever the cover says.
AnswersFound == Whole => Regions = [key |-> rear.key, solutions |-> rear.solutions, end |-> Len(lines) - rear.size]
\* The convention found is the one the paper is printed in: the labels, the
\* number of options, the numbering and its start, in any layout of options and
\* beside one disturbance.
ConventionDetected == Whole => Detected = conv
\* A line with several options gives those printed as options, wherever the text
\* before them cites labels.
RowsSplitAsPrinted ==
  row.size >= 2 => SplitInlineOptions(row.labels, row.from) =
                     {[at |-> Len(row.labels) - row.size + 1, first |-> row.from, count |-> row.size]}
=============================================================================
