---------------------------- MODULE PaperAnswers ----------------------------
(***************************************************************************)
(* What is folded onto the questions once the body is read                 *)
(* (internal/extract/parser.go and answerkey.go): shared preambles, the    *)
(* answer key, worked solutions; then empty questions are dropped, the     *)
(* others flagged, and the sections counted.                               *)
(* A line of a key is [table, wrapped, bare], each a sequence of pairs     *)
(* <<number, option>>; a line of the solutions is [n, verdict, line], n 0  *)
(* when no number can be read at its start.                                *)
(***************************************************************************)
EXTENDS PaperParser, SequencesExt

(***************************************************************************)
(* Preambles.  An inferred range that nothing closed is capped.            *)
(***************************************************************************)
Closed(c, last) ==
  LET limit == c.from + OpenContextCap - 1 IN
    IF c.to # 0 THEN c ELSE IF c.explicit \/ limit >= last THEN [c EXCEPT !.to = last]
    ELSE [c EXCEPT !.to = limit, !.capped = TRUE]
ApplyContexts(questions, contexts, last) ==
  LET closed == [i \in DOMAIN contexts |-> Closed(contexts[i], last)]
      covering(q) == {i \in DOMAIN closed : q.number \in closed[i].from..closed[i].to}
      withContext(q) == LET c == closed[Min(covering(q))] IN
        [q EXCEPT !.context = c.text, !.issues = IF c.capped THEN @ \union {"capped"} ELSE @]
  IN [j \in DOMAIN questions |-> IF covering(questions[j]) = {} THEN questions[j] ELSE withContext(questions[j])]

(***************************************************************************)
(* Keys.  Tables and bracketed pairs come before bare ones, and the first  *)
(* pair for a question wins; of two in one table row, the last.            *)
(***************************************************************************)
Valid(pair) == pair[1] >= 1 /\ pair[2] \in Option
\* Where a pair stands: the pass that reads it, its line, table or text, and its
\* place there, from the end in a table.
Pairs(lines) ==
  LET read(k, form) == {[pass |-> IF form = "bare" THEN 2 ELSE 1, line |-> k, form |-> IF form = "table" THEN 1 ELSE 2,
                         place |-> IF form = "table" THEN -x ELSE x, pair |-> lines[k][form][x]] : x \in DOMAIN lines[k][form]}
  IN UNION {read(k, "table") \union read(k, "wrapped")
            \union (IF lines[k].table = <<>> THEN read(k, "bare") ELSE {}) : k \in DOMAIN lines}
Before(x, y) ==
  \/ x.pass < y.pass
  \/ x.pass = y.pass /\ x.line < y.line
  \/ x.pass = y.pass /\ x.line = y.line /\ x.form < y.form
  \/ x.pass = y.pass /\ x.line = y.line /\ x.form = y.form /\ x.place < y.place
ParseAnswerKey(lines) ==
  LET valid == {x \in Pairs(lines) : Valid(x.pair)} IN
    {x.pair : x \in {x \in valid : \A y \in valid : y.pair[1] = x.pair[1] => ~Before(y, x)}}
ApplyAnswerKey(questions, key) ==
  [j \in DOMAIN questions |->
     LET q == questions[j]
         hit == {pair \in key : pair[1] = q.number /\ pair[2] <= q.width}
     IN IF hit = {} THEN q ELSE [q EXCEPT !.correct = (CHOOSE pair \in hit : TRUE)[2]]]

(***************************************************************************)
(* Worked solutions: a number opens a block when it goes forward by 60 at  *)
(* most; the first verdict in a block is its answer.                       *)
(***************************************************************************)
Extend(b, l) == [b EXCEPT !.text = @ \union {l.line}, !.answer = IF @ = 0 THEN l.verdict ELSE @]
ParseExplanations(lines) ==
  FoldLeft(LAMBDA blocks, l :
             LET last == IF blocks = <<>> THEN 0 ELSE blocks[Len(blocks)].number IN
               IF l.n \in (last + 1)..(last + 60) THEN Append(blocks, Extend([number |-> l.n, text |-> {}, answer |-> 0], l))
               ELSE IF blocks = <<>> THEN blocks ELSE [blocks EXCEPT ![Len(blocks)] = Extend(@, l)],
           <<>>, lines)
\* Mutant: a solution's verdict replaces an answer the question has.
ApplyOverriding(questions, blocks) ==
  [j \in DOMAIN questions |->
     LET q == questions[j]
         mine == {i \in DOMAIN blocks : blocks[i].number = q.number}
     IN IF mine = {} \/ blocks[Min(mine)].answer = 0 THEN q ELSE [q EXCEPT !.correct = blocks[Min(mine)].answer]]
ApplyExplanations(questions, blocks) ==
  [j \in DOMAIN questions |->
     LET q == questions[j]
         mine == {i \in DOMAIN blocks : blocks[i].number = q.number}
         b == blocks[Min(mine)]
     IN IF mine = {} \/ (\E k \in DOMAIN questions : k > j /\ questions[k].number = q.number) THEN q
        ELSE [q EXCEPT !.text.explanation = IF @ = {} THEN b.text ELSE @,
                       !.correct = IF @ = 0 /\ b.answer \in 1..q.width THEN b.answer ELSE @]]

(***************************************************************************)
(* Finalize and sections.                                                  *)
(***************************************************************************)
Flagged(q) ==
  LET last == Max({0} \union {k \in Option : q.options[k] # {}})
      missing == IF Filled(q) = 0 THEN {"no options"} ELSE IF Filled(q) < OptTarget THEN {"incomplete"} ELSE {}
      aside == IF q.text.trailing # {} /\ "overrun" \notin q.issues THEN {"trailing"} ELSE {}
  IN [q EXCEPT !.issues = @ \union missing \union aside, !.correct = IF @ \in 1..last THEN @ ELSE 0]
Finalize(questions) ==
  LET kept == Among(questions, {q \in ToSet(questions) : q.text.stem # {} \/ Filled(q) > 0}) IN [j \in DOMAIN kept |-> Flagged(kept[j])]
SummarizeSections(sections, kept) ==
  LET labels == sections \o [j \in DOMAIN kept |-> kept[j].section]
      of(label) == {j \in DOMAIN kept : kept[j].section = label}
      numbers(label) == {kept[j].number : j \in of(label)}
      first == {k \in DOMAIN labels : of(labels[k]) # {} /\ \A m \in 1..(k - 1) : labels[m] # labels[k]}
      order == Among([k \in DOMAIN labels |-> k], first)
  IN [a \in DOMAIN order |-> LET label == labels[order[a]] IN
        [label |-> label, first |-> Min(numbers(label)), last |-> Max(numbers(label)), count |-> Cardinality(of(label))]]
=============================================================================
