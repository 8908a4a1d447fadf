-------------------------- MODULE ExtractionProofs --------------------------
(***************************************************************************)
(* Theorems about Extraction, for documents of any length and any number   *)
(* of options.                                                             *)
(*                                                                         *)
(* While the parser reads, ReaderOK relates it to the printer's sheet:     *)
(* what it has filed is what was printed (FiledOK), the numbers go on      *)
(* where they were left (NumbersOK), the question being read is the one    *)
(* being printed once the buffer is counted in (OpenOK), the parser stands *)
(* where the printer does (PhaseOK), the options are as short as an option *)
(* is (LengthsOK), and each preamble reaches the questions it was printed  *)
(* for (ContextsOK).  Each kind of line the printer can print is first     *)
(* shown to be taken for what it is (Class...) and then to keep ReaderOK   *)
(* (Hears...).  Parses then follows a filed question through what is done  *)
(* at the end: preambles, key, solutions, flags and the sections' summary. *)
(***************************************************************************)
EXTENDS Extraction, ListFacts

\* The types of the parser's records and of the printer's.
Kinds == {"blank", "text", "lead-in", "directions", "heading", "part", "answer", "solution", "marks"}
Labels == {"none", "A", "P"}
Issues == {"overrun", "replaced", "capped", "no options", "incomplete", "trailing"}
Phases == {"front", "preamble", "stem", "options", "closed", "spilled", "answered", "solved"}
Parts == {"stem", "explanation", "trailing"}
Dests == Parts \union {"option", "context"}
Texts == SUBSET Nat
Lines == [kind : Kinds, n : Nat, idx : Nat, count : Nat, behind : BOOLEAN, from : Nat, to : Nat,
          verdict : 0..OptTarget, label : Labels, size : Nat]
Question == [number : Nat, line : Nat, section : Labels, text : [Parts -> Texts], options : [Option -> Texts],
             width : 0..OptTarget, correct : 0..OptTarget, context : Texts, issues : SUBSET Issues]
Context == [from : Nat, to : Nat, text : Texts, explicit : BOOLEAN, capped : BOOLEAN]
Parser == [out : Seq(Question), cur : Question \union {None}, at : 0..OptTarget, dest : Dests, buf : Texts, last : Nat,
           complete : BOOLEAN, blank : BOOLEAN, section : Labels, sections : Seq(Labels), pending : Context \union {None},
           contexts : Seq(Context)]
Printed == [number : Nat, section : Labels, stem : Texts, trailing : Texts, explanation : Texts, own : 0..OptTarget,
            options : [Option -> Texts], issues : SUBSET Issues, govs : Texts]
Preamble == [text : Texts, from : Nat, to : Nat, explicit : BOOLEAN, closed : BOOLEAN]
Sheet == [qs : Seq(Printed), phase : Phases, given : 0..OptTarget, packed : BOOLEAN, govs : Seq(Preamble), label : Labels]
Typed(d, sh, q) == d \in Seq(Lines) /\ sh \in Sheet /\ q \in Parser

NumberOf(sh) == IF sh.qs = <<>> THEN 0 ELSE sh.qs[Len(sh.qs)].number
Aside(sh) == sh.phase \in {"front", "preamble"}
Current(sh) == sh.qs[Len(sh.qs)]
\* A question as it is printed.
Fits(c) == \A k \in Option : c.options[k] # {} => k <= c.width
Same(c, m) ==
  /\ c.number = m.number /\ c.section = m.section /\ c.options = m.options /\ c.correct = m.own
  /\ c.text["stem"] = m.stem /\ c.text["trailing"] = m.trailing /\ c.text["explanation"] = m.explanation /\ c.issues = m.issues
  /\ c.context = {} /\ m.stem # {} /\ Fits(c)
\* The questions filed, and the numbers.
FiledOK(sh, q) ==
  /\ Len(q.out) = Len(sh.qs) - (IF Aside(sh) THEN 0 ELSE 1)
  /\ \A j \in 1..Len(q.out) : Same(q.out[j], sh.qs[j])
NumbersOK(sh, q) ==
  /\ q.last = NumberOf(sh) /\ q.section = sh.label
  /\ \A j \in 1..Len(sh.qs) : sh.qs[j].number >= FirstQuestion
  /\ \A j, k \in 1..Len(sh.qs) : j < k => sh.qs[j].number < sh.qs[k].number
  /\ Aside(sh) /\ sh.qs # <<>> => q.complete
\* The question being read: what is committed and what is in the buffer, which is
\* for one of its parts or, when it has spilled, to be set aside.
Held(q, part) == IF q.dest = part THEN q.buf ELSE {}
Spilled(sh, q) == IF sh.phase = "spilled" THEN q.buf ELSE {}
HeldBy(sh, q, k) == IF k = q.at /\ sh.phase # "spilled" THEN Held(q, "option") ELSE {}
Matches(sh, q, c, m) ==
  /\ c.number = m.number /\ c.section = m.section /\ c.correct = m.own /\ c.context = {} /\ m.stem # {}
  /\ c.text["stem"] \union Held(q, "stem") = m.stem
  /\ c.text["explanation"] \union Held(q, "explanation") = m.explanation
  /\ c.text["trailing"] \union Held(q, "trailing") \union Spilled(sh, q) = m.trailing
  /\ \A k \in Option : c.options[k] \union HeldBy(sh, q, k) = m.options[k]
  /\ c.issues \union (IF sh.phase = "spilled" THEN {"overrun"} ELSE {}) = m.issues
  /\ q.at <= c.width /\ Fits(c)
OpenOK(sh, q) ==
  ~Aside(sh) => sh.qs # <<>> /\ q.cur \in Question /\ q.pending = None /\ Matches(sh, q, q.cur, Current(sh))
\* Where the parser stands in each phase of the printer.
Complete(sh, q) == q.at = OptTarget /\ sh.given = OptTarget /\ \A k \in Option : q.cur.options[k] # {}
PhaseOK(sh, q) ==
  LET m == Current(sh) IN
    /\ sh.phase = "front" => q.cur = None /\ q.dest = "stem" /\ q.buf = {} /\ q.pending = None /\ q.at = 0
    /\ sh.phase = "preamble" => q.cur = None /\ q.dest = "context" /\ q.pending # None /\ q.at = 0
    /\ sh.phase = "stem" => q.dest = "stem" /\ q.at = 0 /\ sh.given = 0 /\ m.own = 0 /\ \A k \in Option : m.options[k] = {}
    /\ sh.phase = "options" => /\ q.dest = "option" /\ q.at = sh.given /\ q.at >= 1 /\ m.own = 0
                               /\ \A k \in Option : m.options[k] # {} <=> k <= q.at
                               /\ sh.packed => \A k \in 1..q.at : q.cur.options[k] # {}
                               /\ q.at = OptTarget => ~q.blank
    /\ sh.phase = "closed" => Complete(sh, q) /\ (q.dest = "trailing" \/ (q.dest = "option" /\ q.blank /\ q.buf = {})) /\ m.own = 0
    /\ sh.phase = "spilled" => Complete(sh, q) /\ q.dest = "option" /\ ~q.blank /\ m.own = 0
    /\ sh.phase = "answered" => Complete(sh, q) /\ q.dest = "stem" /\ q.buf = {}
    /\ sh.phase = "solved" => Complete(sh, q) /\ q.dest = "explanation"
AfterMarks(d) == d # <<>> /\ d[Len(d)].kind = "marks"
\* Lengths: an option is two lines at most, what spills is longer.
Short(d, m) == \A k \in Option : m.options[k] \subseteq 1..Len(d) /\ Size(d, m.options[k]) <= 2
LengthsOK(d, sh, q) ==
  /\ q.buf \subseteq 1..Len(d)
  /\ sh.phase \in {"options", "spilled"} => Short(d, Current(sh))
  /\ sh.phase = "options" /\ AfterMarks(d) => Size(d, Current(sh).options[sh.given]) <= 1 /\ (sh.packed => q.buf = {})
  /\ sh.phase = "spilled" => OptTarget >= 4 /\ Size(d, q.buf) = 12
\* The preambles: what the parser has of each, whom it reaches, and the one that
\* still waits for its first question.
Told(c, v) ==
  /\ c.text = v.text /\ c.text # {} /\ c.from = v.from /\ c.from >= 1 /\ c.explicit = v.explicit /\ ~c.capped
  /\ c.explicit => c.to = v.to /\ c.to >= c.from
Ended(sh, g, c, v, L) ==
  /\ ~c.explicit => /\ c.from <= NumberOf(sh) /\ c.to <= NumberOf(sh) /\ (c.to # 0 => v.closed)
                    /\ (c.to = 0 /\ v.closed => sh.phase = "preamble" /\ g = L)
  /\ g < Len(sh.govs) => v.closed /\ c.to <= NumberOf(sh)
  /\ g < L => c.to # 0
Reaches(c, n) == c.from <= n /\ (c.to = 0 \/ n <= c.to)
Awaited(sh, q) ==
  LET c == q.pending v == sh.govs[Len(sh.govs)] IN
    /\ c \in Context /\ c.text \union q.buf = v.text /\ v.text # {} /\ c.from = v.from /\ c.to = v.to
    /\ c.explicit = v.explicit /\ ~c.capped /\ ~v.closed
    /\ v.explicit => v.from = (IF sh.qs = <<>> THEN FirstQuestion ELSE NumberOf(sh) + 1) /\ v.to = v.from + 1
    /\ ~v.explicit => v.from = 0 /\ v.to = 0
ContextsOK(sh, q) ==
  LET L == Len(q.contexts) IN
    /\ Len(sh.govs) = L + IF sh.phase = "preamble" THEN 1 ELSE 0
    /\ sh.qs = <<>> => L = 0
    /\ \A g \in 1..L : Told(q.contexts[g], sh.govs[g]) /\ Ended(sh, g, q.contexts[g], sh.govs[g], L)
    /\ \A g \in 1..L, j \in 1..Len(sh.qs) : g \in sh.qs[j].govs <=> Reaches(q.contexts[g], sh.qs[j].number)
    /\ \A j \in 1..Len(sh.qs) : sh.qs[j].govs \subseteq 1..L /\ \A a, b \in sh.qs[j].govs : a = b
    /\ sh.phase = "preamble" => Awaited(sh, q)
ReaderOK(d, sh, q) ==
  Typed(d, sh, q) /\ FiledOK(sh, q) /\ NumbersOK(sh, q) /\ OpenOK(sh, q) /\ PhaseOK(sh, q) /\ LengthsOK(d, sh, q) /\ ContextsOK(sh, q)

-----------------------------------------------------------------------------
\* What the parser does with what it holds.

\* Records of a parser's type: one field changed.
LEMMA ParserWith ==
  ASSUME NEW q \in Parser
  PROVE  /\ \A B \in Texts : [q EXCEPT !.buf = B] \in Parser
         /\ \A c \in Question \union {None} : [q EXCEPT !.cur = c] \in Parser
         /\ \A c \in Context \union {None} : [q EXCEPT !.pending = c] \in Parser
         /\ \A x \in Dests : [q EXCEPT !.dest = x] \in Parser
         /\ \A b \in BOOLEAN : [q EXCEPT !.blank = b] \in Parser
         /\ \A k \in 0..OptTarget : [q EXCEPT !.at = k] \in Parser
  BY DEF Parser
\* The types of a parser's fields.
LEMMA ParserOf ==
  ASSUME NEW q \in Parser
  PROVE  /\ q.out \in Seq(Question) /\ q.cur \in Question \union {None} /\ q.at \in 0..OptTarget /\ q.at \in Nat /\ q.dest \in Dests
         /\ q.buf \in Texts /\ q.last \in Nat /\ q.complete \in BOOLEAN /\ q.blank \in BOOLEAN /\ q.section \in Labels
         /\ q.sections \in Seq(Labels) /\ q.pending \in Context \union {None} /\ q.contexts \in Seq(Context)
  BY ParserAssumption DEF Parser

\* A question is not the absence of one, nor a preamble.
LEMMA QuestionIsOpen == \A c \in Question : c # None
<1> TAKE c \in Question
<1>1. "number" \in DOMAIN c
  BY DEF Question
<1>2. "number" \notin DOMAIN None
  BY DEF None
<1> QED
  BY <1>1, <1>2
\* A preamble is not the absence of one.
LEMMA ContextIsOpen == \A c \in Context : c # None
<1> TAKE c \in Context
<1>1. "from" \in DOMAIN c
  BY DEF Context
<1>2. "from" \notin DOMAIN None
  BY DEF None
<1> QED
  BY <1>1, <1>2

\* What a commit leaves as it is.
Rest(r, q) ==
  /\ r.out = q.out /\ r.at = q.at /\ r.dest = q.dest /\ r.last = q.last /\ r.complete = q.complete /\ r.blank = q.blank
  /\ r.section = q.section /\ r.sections = q.sections /\ r.contexts = q.contexts
\* A commit moves the buffer to where it belongs.
LEMMA CommitNothing == ASSUME NEW d, NEW q, q.buf = {} PROVE Commit(d, q) = q
  BY DEF Commit
\* Commit, where it changes the question being read: that and the buffer only.
LEMMA CommitCur ==
  ASSUME NEW d, NEW q \in Parser, NEW new \in Question, q.buf # {}, CommitTo(d, q) = [q EXCEPT !.cur = new]
  PROVE  LET r == Commit(d, q) IN r \in Parser /\ Rest(r, q) /\ r.buf = {} /\ r.pending = q.pending /\ r.cur = new
<1> DEFINE s == [q EXCEPT !.cur = new]
           r == [s EXCEPT !.buf = {}]
<1>1. Commit(d, q) = r
  BY DEF Commit
<1>2. s \in Parser
  BY ParserWith
<1>3. s.cur = new /\ Rest(s, q) /\ s.pending = q.pending
  BY DEF Parser, Rest
<1> HIDE DEF s
<1>4. {} \in Texts
  BY DEF Texts
<1>5. r \in Parser
  BY <1>2, <1>4, ParserWith
<1>6. r.cur = s.cur /\ Rest(r, s) /\ r.pending = s.pending /\ r.buf = {}
  BY <1>2 DEF Parser, Rest
<1> HIDE DEF r
<1>7. r \in Parser /\ Rest(r, q) /\ r.buf = {} /\ r.pending = q.pending /\ r.cur = new
  BY <1>3, <1>5, <1>6 DEF Rest
<1> QED
  BY <1>1, <1>7 DEF r, s

\* Commit, where it changes the preamble that waits: that and the buffer only.
LEMMA CommitWaiting ==
  ASSUME NEW d, NEW q \in Parser, NEW new \in Context, q.buf # {}, CommitTo(d, q) = [q EXCEPT !.pending = new]
  PROVE  LET r == Commit(d, q) IN r \in Parser /\ Rest(r, q) /\ r.buf = {} /\ r.cur = q.cur /\ r.pending = new
<1> DEFINE s == [q EXCEPT !.pending = new]
           r == [s EXCEPT !.buf = {}]
<1>1. Commit(d, q) = r
  BY DEF Commit
<1>2. s \in Parser
  BY ParserWith
<1>3. s.pending = new /\ Rest(s, q) /\ s.cur = q.cur
  BY DEF Parser, Rest
<1> HIDE DEF s
<1>4. {} \in Texts
  BY DEF Texts
<1>5. r \in Parser
  BY <1>2, <1>4, ParserWith
<1>6. r.pending = s.pending /\ Rest(r, s) /\ r.cur = s.cur /\ r.buf = {}
  BY <1>2 DEF Parser, Rest
<1> HIDE DEF r
<1>7. r \in Parser /\ Rest(r, q) /\ r.buf = {} /\ r.cur = q.cur /\ r.pending = new
  BY <1>3, <1>5, <1>6 DEF Rest
<1> QED
  BY <1>1, <1>7 DEF r, s

\* What is held for the stem, the solution or what is set aside goes there.
LEMMA CommitPart ==
  ASSUME NEW d, NEW q \in Parser, q.cur \in Question, q.dest \in Parts
  PROVE  LET r == Commit(d, q) c == q.cur IN
           /\ r \in Parser /\ Rest(r, q) /\ r.buf = {} /\ r.pending = q.pending /\ r.cur \in Question
           /\ \A part \in Parts : r.cur.text[part] = c.text[part] \union Held(q, part)
           /\ r.cur.number = c.number /\ r.cur.section = c.section /\ r.cur.options = c.options /\ r.cur.width = c.width
           /\ r.cur.correct = c.correct /\ r.cur.context = c.context /\ r.cur.issues = c.issues
<1> DEFINE c == q.cur
           text == [c.text EXCEPT ![q.dest] = @ \union q.buf]
           new == [c EXCEPT !.text = text]
<1>1. c \in Question /\ c # None /\ q.buf \in Texts /\ c.text \in [Parts -> Texts]
  BY QuestionIsOpen, ParserOf DEF Question
<1>2. text \in [Parts -> Texts] /\ \A part \in Parts : text[part] = c.text[part] \union Held(q, part)
  BY <1>1 DEF Held, Texts
<1>3. CASE q.buf = {}
  <2>1. Commit(d, q) = q
    BY <1>3, CommitNothing
  <2>2. \A part \in Parts : Held(q, part) = {}
    BY <1>3 DEF Held
  <2> QED
    BY <1>1, <1>3, <2>1, <2>2 DEF Rest
<1>4. CASE q.buf # {}
  <2>1. CommitTo(d, q) = [q EXCEPT !.cur = new]
    BY <1>1 DEF CommitTo, Parser, Parts, Question
  <2> HIDE DEF text, c
  <2>2. new \in Question /\ new.text = text /\ new.number = c.number /\ new.section = c.section /\ new.options = c.options
        /\ new.width = c.width /\ new.correct = c.correct /\ new.context = c.context /\ new.issues = c.issues
    BY <1>1, <1>2 DEF Question
  <2>3. q.cur = c
    BY DEF c
  <2> HIDE DEF new
  <2> DEFINE r == Commit(d, q)
  <2>4. r \in Parser /\ Rest(r, q) /\ r.buf = {} /\ r.pending = q.pending /\ r.cur = new
    BY <1>4, <2>1, <2>2, CommitCur
  <2> HIDE DEF r
  <2>5. /\ r \in Parser /\ Rest(r, q) /\ r.buf = {} /\ r.pending = q.pending /\ r.cur \in Question
        /\ \A part \in Parts : r.cur.text[part] = c.text[part] \union Held(q, part)
        /\ r.cur.number = c.number /\ r.cur.section = c.section /\ r.cur.options = c.options /\ r.cur.width = c.width
        /\ r.cur.correct = c.correct /\ r.cur.context = c.context /\ r.cur.issues = c.issues
    BY <1>2, <2>2, <2>4
  <2> QED
    BY <2>3, <2>5 DEF r
<1> QED
  BY <1>3, <1>4
\* What is held for an option goes to that option, unless it is overlong.
LEMMA CommitOption ==
  ASSUME NEW d, NEW q \in Parser, q.cur \in Question, q.dest = "option", q.at \in Option, ~Overrun(d, q.cur, q.at, q.buf)
  PROVE  LET r == Commit(d, q) c == q.cur IN
           /\ r \in Parser /\ Rest(r, q) /\ r.buf = {} /\ r.pending = q.pending /\ r.cur \in Question
           /\ \A k \in Option : r.cur.options[k] = c.options[k] \union (IF k = q.at THEN q.buf ELSE {})
           /\ r.cur.number = c.number /\ r.cur.section = c.section /\ r.cur.text = c.text /\ r.cur.width = c.width
           /\ r.cur.correct = c.correct /\ r.cur.context = c.context /\ r.cur.issues = c.issues
<1> DEFINE c == q.cur
           options == [c.options EXCEPT ![q.at] = @ \union q.buf]
           new == [c EXCEPT !.options = options]
<1>1. c \in Question /\ c # None /\ q.buf \in Texts /\ c.options \in [Option -> Texts]
  BY QuestionIsOpen, ParserOf DEF Question
<1>2. options \in [Option -> Texts] /\ \A k \in Option : options[k] = c.options[k] \union (IF k = q.at THEN q.buf ELSE {})
  BY <1>1 DEF Texts
<1>3. CASE q.buf = {}
  <2>1. Commit(d, q) = q
    BY <1>3, CommitNothing
  <2> QED
    BY <1>1, <1>3, <2>1 DEF Rest
<1>4. CASE q.buf # {}
  <2>1. CommitTo(d, q) = [q EXCEPT !.cur = new]
    BY <1>1 DEF CommitTo, Parser, Question
  <2> HIDE DEF options, c
  <2>2. new \in Question /\ new.text = c.text /\ new.number = c.number /\ new.section = c.section /\ new.options = options
        /\ new.width = c.width /\ new.correct = c.correct /\ new.context = c.context /\ new.issues = c.issues
    BY <1>1, <1>2 DEF Question
  <2>3. q.cur = c
    BY DEF c
  <2> HIDE DEF new
  <2> DEFINE r == Commit(d, q)
  <2>4. r \in Parser /\ Rest(r, q) /\ r.buf = {} /\ r.pending = q.pending /\ r.cur = new
    BY <1>4, <2>1, <2>2, CommitCur
  <2> HIDE DEF r
  <2>5. /\ r \in Parser /\ Rest(r, q) /\ r.buf = {} /\ r.pending = q.pending /\ r.cur \in Question
        /\ \A k \in Option : r.cur.options[k] = c.options[k] \union (IF k = q.at THEN q.buf ELSE {})
        /\ r.cur.number = c.number /\ r.cur.section = c.section /\ r.cur.text = c.text /\ r.cur.width = c.width
        /\ r.cur.correct = c.correct /\ r.cur.context = c.context /\ r.cur.issues = c.issues
    BY <1>2, <2>2, <2>4
  <2> QED
    BY <2>3, <2>5 DEF r
<1> QED
  BY <1>3, <1>4
\* What is overlong behind an option is set aside, and the question flagged.
LEMMA CommitAside ==
  ASSUME NEW d, NEW q \in Parser, q.cur \in Question, q.dest = "option", q.buf # {}, Overrun(d, q.cur, q.at, q.buf)
  PROVE  LET r == Commit(d, q) c == q.cur IN
           /\ r \in Parser /\ Rest(r, q) /\ r.buf = {} /\ r.pending = q.pending /\ r.cur \in Question
           /\ r.cur.text["trailing"] = c.text["trailing"] \union q.buf /\ r.cur.issues = c.issues \union {"overrun"}
           /\ r.cur.text["stem"] = c.text["stem"] /\ r.cur.text["explanation"] = c.text["explanation"]
           /\ r.cur.number = c.number /\ r.cur.section = c.section /\ r.cur.options = c.options /\ r.cur.width = c.width
           /\ r.cur.correct = c.correct /\ r.cur.context = c.context
<1> DEFINE c == q.cur
           text == [c.text EXCEPT !["trailing"] = @ \union q.buf]
           issues == c.issues \union {"overrun"}
           new == [c EXCEPT !.text = text, !.issues = issues]
<1>1. c \in Question /\ c # None /\ q.buf \in Texts /\ c.text \in [Parts -> Texts] /\ issues \in SUBSET Issues
  BY QuestionIsOpen, ParserOf DEF Question, Issues
<1>2. /\ text \in [Parts -> Texts] /\ text["trailing"] = c.text["trailing"] \union q.buf
      /\ text["stem"] = c.text["stem"] /\ text["explanation"] = c.text["explanation"]
  BY <1>1 DEF Texts, Parts
<1>3. CommitTo(d, q) = [q EXCEPT !.cur = new]
  <2> DEFINE with == [c EXCEPT !.text = text]
  <2>1. with = [q.cur EXCEPT !.text.trailing = @ \union q.buf]
    BY <1>1 DEF Question
  <2>2. CommitTo(d, q) = [q EXCEPT !.cur = AddIssue([q.cur EXCEPT !.text.trailing = @ \union q.buf], "overrun")]
    BY <1>1 DEF CommitTo
  <2>3. AddIssue(with, "overrun") = new
    BY <1>1 DEF AddIssue, Question
  <2> HIDE DEF with
  <2>4. CommitTo(d, q) = [q EXCEPT !.cur = AddIssue(with, "overrun")]
    BY <2>1, <2>2 DEF Parser
  <2> QED
    BY <2>3, <2>4
<1> HIDE DEF text, c, issues
<1>4. new \in Question /\ new.text = text /\ new.number = c.number /\ new.section = c.section /\ new.options = c.options
      /\ new.width = c.width /\ new.correct = c.correct /\ new.context = c.context /\ new.issues = issues
  BY <1>1, <1>2 DEF Question
<1>5. q.cur = c
  BY DEF c
<1> HIDE DEF new
<1> DEFINE r == Commit(d, q)
<1>6. r \in Parser /\ Rest(r, q) /\ r.buf = {} /\ r.pending = q.pending /\ r.cur = new
  BY <1>3, <1>4, CommitCur
<1> HIDE DEF r
<1>7. /\ r \in Parser /\ Rest(r, q) /\ r.buf = {} /\ r.pending = q.pending /\ r.cur \in Question
      /\ r.cur.text["trailing"] = c.text["trailing"] \union q.buf /\ r.cur.issues = c.issues \union {"overrun"}
      /\ r.cur.text["stem"] = c.text["stem"] /\ r.cur.text["explanation"] = c.text["explanation"]
      /\ r.cur.number = c.number /\ r.cur.section = c.section /\ r.cur.options = c.options /\ r.cur.width = c.width
      /\ r.cur.correct = c.correct /\ r.cur.context = c.context
  BY <1>2, <1>4, <1>6 DEF issues
<1> QED
  BY <1>5, <1>7 DEF r
\* What is held for a preamble goes to it.
LEMMA CommitPending ==
  ASSUME NEW d, NEW q \in Parser, q.dest = "context", q.pending \in Context
  PROVE  LET r == Commit(d, q) c == q.pending IN
           /\ r \in Parser /\ Rest(r, q) /\ r.buf = {} /\ r.cur = q.cur /\ r.pending \in Context
           /\ r.pending.text = c.text \union q.buf /\ r.pending.from = c.from /\ r.pending.to = c.to
           /\ r.pending.explicit = c.explicit /\ r.pending.capped = c.capped
<1> DEFINE c == q.pending
           text == c.text \union q.buf
           new == [c EXCEPT !.text = text]
<1>1. c \in Context /\ c # None /\ text \in Texts
  BY ContextIsOpen, ParserOf DEF Context, Texts
<1>2. CASE q.buf = {}
  <2>1. Commit(d, q) = q
    BY <1>2, CommitNothing
  <2> QED
    BY <1>1, <1>2, <2>1 DEF Rest
<1>3. CASE q.buf # {}
  <2>1. CommitTo(d, q) = [q EXCEPT !.pending = new]
    BY <1>1 DEF CommitTo, Parser, Context
  <2> HIDE DEF text, c
  <2>2. new \in Context /\ new.text = text /\ new.from = c.from /\ new.to = c.to /\ new.explicit = c.explicit /\ new.capped = c.capped
    BY <1>1 DEF Context
  <2>3. q.pending = c
    BY DEF c
  <2> HIDE DEF new
  <2> DEFINE r == Commit(d, q)
  <2>4. r \in Parser /\ Rest(r, q) /\ r.buf = {} /\ r.cur = q.cur /\ r.pending = new
    BY <1>3, <2>1, <2>2, CommitWaiting
  <2> HIDE DEF r
  <2>5. /\ r \in Parser /\ Rest(r, q) /\ r.buf = {} /\ r.cur = q.cur /\ r.pending \in Context
        /\ r.pending.text = c.text \union q.buf /\ r.pending.from = c.from /\ r.pending.to = c.to
        /\ r.pending.explicit = c.explicit /\ r.pending.capped = c.capped
    BY <2>2, <2>4 DEF text
  <2> QED
    BY <2>3, <2>5 DEF r
<1> QED
  BY <1>2, <1>3

-----------------------------------------------------------------------------
\* Lengths.

Sizes(d, text) == [i \in DOMAIN d |-> IF i \in text THEN d[i].size ELSE 0]

\* The lengths of a document's lines, and of the lines of one text.
LEMMA SizesOf ==
  ASSUME NEW d \in Seq(Lines), NEW text
  PROVE  /\ Sizes(d, text) \in Seq(Nat) /\ Sizes(d, text) \in Seq(Int) /\ Len(Sizes(d, text)) = Len(d)
         /\ \A i \in 1..Len(d) : d[i].size \in Nat /\ Sizes(d, text)[i] = IF i \in text THEN d[i].size ELSE 0
         /\ Size(d, text) = Total(Sizes(d, text))
<1>1. DOMAIN d = 1..Len(d) /\ Len(d) \in Nat
  OBVIOUS
<1>2. \A i \in 1..Len(d) : d[i].size \in Nat
  <2>1. \A i \in 1..Len(d) : d[i] \in Lines
    BY ElementOfSeq
  <2>2. \A l \in Lines : l.size \in Nat
    BY DEF Lines
  <2> QED
    BY <2>1, <2>2
<1>3. Sizes(d, text) \in [1..Len(d) -> Nat]
  BY <1>1, <1>2 DEF Sizes
<1> QED
  BY <1>1, <1>2, <1>3 DEF Size, Sizes

\* A text's length is a number.
LEMMA SizeNat == ASSUME NEW d \in Seq(Lines), NEW text PROVE Size(d, text) \in Nat
<1>1. Len(Sizes(d, text)) \in 0..Len(Sizes(d, text))
  BY SizesOf
<1> QED
  BY <1>1, SizesOf, SumsNatural DEF Total

\* A part of a text is no longer than the text.
LEMMA SizePart ==
  ASSUME NEW d \in Seq(Lines), NEW text, NEW more, text \subseteq more
  PROVE  Size(d, text) <= Size(d, more)
<1>1. ASSUME NEW i \in 1..Len(d) PROVE Sizes(d, text)[i] <= Sizes(d, more)[i]
  <2>1. d[i].size \in Nat /\ Sizes(d, text)[i] = IF i \in text THEN d[i].size ELSE 0
    BY SizesOf
  <2>2. Sizes(d, more)[i] = IF i \in more THEN d[i].size ELSE 0
    BY SizesOf
  <2> QED
    BY <2>1, <2>2
<1> QED
  BY <1>1, SizesOf, SumsOrdered

\* The empty text has no length.
LEMMA SizeNothing == ASSUME NEW d \in Seq(Lines) PROVE Size(d, {}) = 0
<1>1. \A i \in 1..Len(d) : Sizes(d, {})[i] = 0
  BY SizesOf
<1> QED
  BY <1>1, SizesOf, SumsOfZero

\* The next line adds its own size.
LEMMA SizeGrows ==
  ASSUME NEW d \in Seq(Lines), NEW l \in Lines, NEW text, text \subseteq 1..Len(d)
  PROVE  /\ Size(Append(d, l), text) = Size(d, text)
         /\ Size(Append(d, l), text \union {Len(d) + 1}) = Size(d, text) + l.size
<1> DEFINE e == Append(d, l)
<1>1. /\ e \in Seq(Lines) /\ Len(e) = Len(d) + 1 /\ e[Len(e)] = l /\ Len(d) \in Nat
      /\ \A i \in 1..Len(d) : e[i] = d[i] /\ i # Len(d) + 1 /\ i \in 1..Len(e)
  OBVIOUS
<1> HIDE DEF e
<1>2. ASSUME NEW t, \A i \in 1..Len(d) : i \in t <=> i \in text
      PROVE  Size(e, t) = Size(d, text) + (IF Len(d) + 1 \in t THEN l.size ELSE 0)
  <2> DEFINE a == Sizes(e, t)
             b == Sizes(d, text)
  <2>1. a \in Seq(Int) /\ Len(a) = Len(d) + 1 /\ Size(e, t) = Total(a)
    BY <1>1, SizesOf
  <2>2. b \in Seq(Int) /\ Len(b) = Len(d) /\ Size(d, text) = Total(b)
    BY SizesOf
  <2>3. a[Len(d) + 1] = IF Len(d) + 1 \in t THEN l.size ELSE 0
    <3>1. Len(d) + 1 \in 1..Len(e) /\ e[Len(d) + 1] = l
      BY <1>1
    <3> QED
      BY <1>1, <3>1, SizesOf
  <2>4. \A i \in 1..Len(d) : a[i] = b[i]
    <3> TAKE i \in 1..Len(d)
    <3>1. a[i] = IF i \in t THEN e[i].size ELSE 0
      BY <1>1, SizesOf
    <3>2. b[i] = IF i \in text THEN d[i].size ELSE 0
      BY SizesOf
    <3> QED
      BY <1>1, <1>2, <3>1, <3>2
  <2> HIDE DEF a, b
  <2>5. RunningSum(a)[Len(d)] = RunningSum(b)[Len(d)]
    <3> DEFINE m == Len(d)
    <3>1. m \in Nat /\ m <= Len(a) /\ m <= Len(b) /\ \A i \in 1..m : a[i] = b[i]
      BY <1>1, <2>1, <2>2, <2>4
    <3> HIDE DEF m
    <3>2. RunningSum(a)[m] = RunningSum(b)[m]
      BY <2>1, <2>2, <3>1, SumsAgree
    <3> QED
      BY <3>2 DEF m
  <2>6. Len(d) + 1 \in 1..Len(a) /\ (Len(d) + 1) - 1 = Len(d)
    BY <1>1, <2>1
  <2>7. RunningSum(a)[Len(d) + 1] = RunningSum(a)[Len(d)] + a[Len(d) + 1]
    <3>1. \A n \in 1..Len(a) : RunningSum(a)[n] = RunningSum(a)[n - 1] + a[n]
      BY <2>1, RunningSums
    <3> QED
      BY <2>6, <3>1
  <2> QED
    BY <2>1, <2>2, <2>3, <2>5, <2>7 DEF Total
<1>3. Len(d) + 1 \notin text /\ Len(d) + 1 \in text \union {Len(d) + 1}
  BY <1>1
<1>4. Size(e, text) = Size(d, text) + 0
  BY <1>2, <1>3
<1>5. Size(e, text \union {Len(d) + 1}) = Size(d, text) + l.size
  <2>1. \A i \in 1..Len(d) : i \in text \union {Len(d) + 1} <=> i \in text
    BY <1>1
  <2> QED
    BY <1>2, <1>3, <2>1
<1> QED
  BY <1>4, <1>5, SizeNat DEF e

-----------------------------------------------------------------------------
\* What is committed is what is printed.

\* The types of a sheet's fields.
LEMMA SheetOf ==
  ASSUME NEW sh \in Sheet
  PROVE  /\ sh.qs \in Seq(Printed) /\ Len(sh.qs) \in Nat /\ sh.phase \in Phases /\ sh.given \in 0..OptTarget /\ sh.given \in Nat
         /\ sh.packed \in BOOLEAN /\ sh.govs \in Seq(Preamble) /\ Len(sh.govs) \in Nat /\ sh.label \in Labels
<1>1. /\ sh.qs \in Seq(Printed) /\ sh.phase \in Phases /\ sh.given \in 0..OptTarget
      /\ sh.packed \in BOOLEAN /\ sh.govs \in Seq(Preamble) /\ sh.label \in Labels
  BY DEF Sheet
<1>2. sh.given \in Nat
  BY <1>1, ParserAssumption
<1> QED
  BY <1>1, <1>2

\* The question being printed is the last one of the sheet.
LEMMA CurrentOf ==
  ASSUME NEW sh \in Sheet, sh.qs # <<>>
  PROVE  Len(sh.qs) \in 1..Len(sh.qs) /\ Len(sh.qs) >= 1 /\ Current(sh) \in Printed /\ Current(sh) = sh.qs[Len(sh.qs)]
<1>1. sh.qs \in Seq(Printed)
  BY SheetOf
<1>2. Len(sh.qs) \in 1..Len(sh.qs) /\ Len(sh.qs) >= 1
  BY <1>1
<1> QED
  BY <1>1, <1>2, ElementOfSeq DEF Current

\* The types of a printed question's fields.
LEMMA PrintedOf ==
  ASSUME NEW m \in Printed
  PROVE  /\ m.number \in Nat /\ m.section \in Labels /\ m.stem \in Texts /\ m.trailing \in Texts /\ m.explanation \in Texts
         /\ m.own \in 0..OptTarget /\ m.options \in [Option -> Texts] /\ m.issues \in SUBSET Issues /\ m.govs \in Texts
  BY DEF Printed

\* The types of a question's fields.
LEMMA QuestionOf ==
  ASSUME NEW c \in Question
  PROVE  /\ c.number \in Nat /\ c.section \in Labels /\ c.text \in [Parts -> Texts] /\ c.options \in [Option -> Texts]
         /\ c.width \in 0..OptTarget /\ c.width \in Nat /\ c.correct \in 0..OptTarget /\ c.context \in Texts /\ c.issues \in SUBSET Issues
<1>1. /\ c.number \in Nat /\ c.section \in Labels /\ c.text \in [Parts -> Texts] /\ c.options \in [Option -> Texts]
      /\ c.width \in 0..OptTarget /\ c.correct \in 0..OptTarget /\ c.context \in Texts /\ c.issues \in SUBSET Issues
  BY DEF Question
<1> QED
  BY <1>1, ParserAssumption

\* What is known of a question being read.
LEMMA OpenFacts ==
  ASSUME NEW d, NEW sh, NEW q, ReaderOK(d, sh, q), ~Aside(sh)
  PROVE  /\ d \in Seq(Lines) /\ sh \in Sheet /\ q \in Parser /\ sh.qs # <<>> /\ Current(sh) \in Printed /\ q.cur \in Question
         /\ q.cur # None /\ q.pending = None /\ Matches(sh, q, q.cur, Current(sh)) /\ PhaseOK(sh, q) /\ LengthsOK(d, sh, q)
         /\ sh.phase \in {"stem", "options", "closed", "spilled", "answered", "solved"}
<1>1. d \in Seq(Lines) /\ sh \in Sheet /\ q \in Parser
  BY DEF ReaderOK, Typed
<1>2. sh.qs # <<>> /\ q.cur \in Question /\ q.pending = None /\ Matches(sh, q, q.cur, Current(sh))
  BY DEF ReaderOK, OpenOK
<1>3. sh.phase \in {"stem", "options", "closed", "spilled", "answered", "solved"}
  BY <1>1, SheetOf DEF Phases, Aside
<1> QED
  BY <1>1, <1>2, <1>3, CurrentOf, QuestionIsOpen DEF ReaderOK

\* An option is never made too long by what is printed as its own.
LEMMA OptionFits ==
  ASSUME NEW d, NEW sh, NEW q, ReaderOK(d, sh, q), sh.phase = "options"
  PROVE  q.at \in Option /\ q.dest = "option" /\ ~Overrun(d, q.cur, q.at, q.buf)
<1> DEFINE m == Current(sh)
           a == Size(d, q.cur.options[q.at])
           b == Size(d, q.buf)
<1>1. ~Aside(sh) /\ sh.phase # "spilled"
  BY DEF Aside
<1>2. q.dest = "option" /\ q.at = sh.given /\ q.at >= 1 /\ q.at \in Option
  <2>1. q.dest = "option" /\ q.at = sh.given /\ q.at >= 1
    BY <1>1, OpenFacts DEF PhaseOK
  <2>2. q.at \in 0..OptTarget
    BY <1>1, OpenFacts, ParserOf
  <2> QED
    BY <2>1, <2>2, ParserAssumption DEF Option
<1>3. q.cur.options[q.at] \union q.buf = m.options[q.at]
  BY <1>1, <1>2, OpenFacts DEF Matches, HeldBy, Held
<1>4. d \in Seq(Lines) /\ Size(d, m.options[q.at]) <= 2
  BY <1>1, <1>2, OpenFacts DEF LengthsOK, Short
<1>5. a \in Nat /\ b \in Nat /\ Size(d, m.options[q.at]) \in Nat
  BY <1>4, SizeNat
<1>6. a <= Size(d, m.options[q.at])
  BY <1>3, <1>4, SizePart
<1>7. b <= Size(d, m.options[q.at])
  BY <1>3, <1>4, SizePart
<1>8. ~(a + b > 4)
  <2> HIDE DEF a, b
  <2> QED
    BY <1>4, <1>5, <1>6, <1>7
<1>9. ~Overrun(d, q.cur, q.at, q.buf)
  BY <1>8 DEF Overrun
<1> QED
  BY <1>2, <1>9

\* What has spilled is.
LEMMA SpillOverruns ==
  ASSUME NEW d, NEW sh, NEW q, ReaderOK(d, sh, q), sh.phase = "spilled"
  PROVE  q.at = OptTarget /\ q.dest = "option" /\ q.buf # {} /\ Overrun(d, q.cur, q.at, q.buf)
<1> DEFINE m == Current(sh)
           c == q.cur
           siblings == {j \in Option \ {q.at} : c.options[j] # {}}
           length == Size(d, c.options[q.at]) + Size(d, q.buf)
           shorter == {j \in siblings : 4 * Size(d, c.options[j]) < length}
<1>1. ~Aside(sh)
  BY DEF Aside
<1>2. q.at = OptTarget /\ q.dest = "option" /\ \A k \in Option : c.options[k] # {}
  BY <1>1, OpenFacts DEF PhaseOK, Complete
<1>3. d \in Seq(Lines) /\ OptTarget >= 4 /\ Size(d, q.buf) = 12
  BY <1>1, OpenFacts DEF LengthsOK
<1>4. q.buf # {}
  <2> SUFFICES ASSUME q.buf = {} PROVE FALSE
    OBVIOUS
  <2>1. Size(d, q.buf) = 0
    BY <1>3, SizeNothing
  <2> QED
    BY <1>3, <2>1
<1>5. length \in Nat /\ length >= 12
  <2>1. Size(d, c.options[q.at]) \in Nat
    BY <1>3, SizeNat
  <2> QED
    BY <1>3, <2>1
<1>6. \A j \in siblings : 4 * Size(d, c.options[j]) < length
  <2> SUFFICES ASSUME NEW j \in siblings PROVE 4 * Size(d, c.options[j]) < length
    OBVIOUS
  <2>1. j \in Option
    OBVIOUS
  <2>2. c.options[j] \subseteq m.options[j] /\ Size(d, m.options[j]) <= 2
    BY <1>1, <2>1, OpenFacts DEF Matches, LengthsOK, Short
  <2>3. Size(d, c.options[j]) <= Size(d, m.options[j]) /\ Size(d, c.options[j]) \in Nat /\ Size(d, m.options[j]) \in Nat
    BY <1>3, <2>2, SizePart, SizeNat
  <2> HIDE DEF length, c, m
  <2>4. Size(d, c.options[j]) <= 2
    BY <2>2, <2>3
  <2> QED
    BY <1>5, <2>3, <2>4
<1>7. siblings = 1..(OptTarget - 1) /\ shorter = siblings
  BY <1>2, <1>6, ParserAssumption DEF Option
<1>8. Cardinality(siblings) = OptTarget - 1
  <2>1. OptTarget - 1 \in Nat
    BY ParserAssumption
  <2>2. Cardinality(1..(OptTarget - 1)) = OptTarget - 1
    BY <2>1, FS_Interval
  <2> HIDE DEF siblings
  <2> QED
    BY <1>7, <2>2
<1>9. Cardinality(siblings) >= 3 /\ length > 4 /\ Cardinality(shorter) > Cardinality(siblings) \div 2
  <2> HIDE DEF siblings, shorter, length
  <2> QED
    BY <1>3, <1>5, <1>7, <1>8, ParserAssumption
<1>10. Overrun(d, c, q.at, q.buf)
  BY <1>9 DEF Overrun
<1> QED
  BY <1>2, <1>4, <1>10

\* Once the buffer is committed the question read is the one being printed.
LEMMA Committed ==
  ASSUME NEW d, NEW sh, NEW q, ReaderOK(d, sh, q), ~Aside(sh)
  PROVE  LET r == Commit(d, q) IN
           /\ r \in Parser /\ Rest(r, q) /\ r.buf = {} /\ r.pending = None /\ r.cur \in Question
           /\ Same(r.cur, Current(sh)) /\ q.at <= r.cur.width
<1> DEFINE m == Current(sh)
           c == q.cur
           r == Commit(d, q)
<1>1. /\ q \in Parser /\ m \in Printed /\ c \in Question /\ q.pending = None /\ Matches(sh, q, c, m) /\ PhaseOK(sh, q)
      /\ c.options \in [Option -> Texts] /\ m.options \in [Option -> Texts]
      /\ sh.phase \in {"stem", "options", "closed", "spilled", "answered", "solved"}
  BY OpenFacts, PrintedOf, QuestionOf
<1> HIDE DEF m, c, r
<1>2. CASE sh.phase # "spilled" /\ q.dest \in Parts
  <2>1. /\ r \in Parser /\ Rest(r, q) /\ r.buf = {} /\ r.pending = q.pending /\ r.cur \in Question
        /\ \A part \in Parts : r.cur.text[part] = c.text[part] \union Held(q, part)
        /\ r.cur.number = c.number /\ r.cur.section = c.section /\ r.cur.options = c.options /\ r.cur.width = c.width
        /\ r.cur.correct = c.correct /\ r.cur.context = c.context /\ r.cur.issues = c.issues
    BY <1>1, <1>2, CommitPart DEF r, c
  <2>2. c.options = m.options
    <3>1. \A k \in Option : HeldBy(sh, q, k) = {}
      BY <1>2 DEF HeldBy, Held, Parts
    <3>2. \A k \in Option : c.options[k] = m.options[k]
      <4>1. \A k \in Option : c.options[k] \union HeldBy(sh, q, k) = m.options[k]
        BY <1>1 DEF Matches
      <4> QED
        BY <3>1, <4>1
    <3>3. c.options \in [Option -> Texts] /\ m.options \in [Option -> Texts]
      BY <1>1
    <3> QED
      BY <3>2, <3>3
  <2>3. /\ r.cur.text["stem"] = m.stem /\ r.cur.text["explanation"] = m.explanation /\ r.cur.text["trailing"] = m.trailing
        /\ r.cur.issues = m.issues
    BY <1>1, <1>2, <2>1 DEF Matches, Spilled, Parts
  <2>4. /\ r.cur.number = m.number /\ r.cur.section = m.section /\ r.cur.correct = m.own /\ r.cur.context = {} /\ m.stem # {}
        /\ r.cur.options = m.options /\ Fits(r.cur) /\ q.at <= r.cur.width
    BY <1>1, <2>1, <2>2 DEF Matches, Fits
  <2>5. Same(r.cur, m)
    BY <2>3, <2>4 DEF Same
  <2> QED
    BY <1>1, <2>1, <2>4, <2>5 DEF r, m
<1>3. CASE sh.phase = "options"
  <2>1. q.at \in Option /\ q.dest = "option" /\ ~Overrun(d, c, q.at, q.buf)
    BY <1>3, OptionFits DEF c
  <2>2. /\ r \in Parser /\ Rest(r, q) /\ r.buf = {} /\ r.pending = q.pending /\ r.cur \in Question
        /\ \A k \in Option : r.cur.options[k] = c.options[k] \union (IF k = q.at THEN q.buf ELSE {})
        /\ r.cur.number = c.number /\ r.cur.section = c.section /\ r.cur.text = c.text /\ r.cur.width = c.width
        /\ r.cur.correct = c.correct /\ r.cur.context = c.context /\ r.cur.issues = c.issues
    BY <1>1, <2>1, CommitOption DEF r, c
  <2>3. r.cur.options = m.options
    <3>1. \A k \in Option : HeldBy(sh, q, k) = IF k = q.at THEN q.buf ELSE {}
      BY <1>3, <2>1 DEF HeldBy, Held
    <3>2. ASSUME NEW k \in Option PROVE r.cur.options[k] = m.options[k]
      <4>1. c.options[k] \union HeldBy(sh, q, k) = m.options[k]
        BY <1>1 DEF Matches
      <4> QED
        BY <2>2, <3>1, <4>1
    <3>3. r.cur.options \in [Option -> Texts]
      BY <2>2, QuestionOf
    <3> QED
      BY <1>1, <3>2, <3>3
  <2>4. \A part \in Parts : Held(q, part) = {}
    BY <2>1 DEF Held, Parts
  <2>5. /\ r.cur.text["stem"] = m.stem /\ r.cur.text["explanation"] = m.explanation /\ r.cur.text["trailing"] = m.trailing
        /\ r.cur.issues = m.issues
    BY <1>1, <1>3, <2>2, <2>4 DEF Matches, Spilled, Parts
  <2>6. \A k \in Option : m.options[k] # {} => k <= c.width
    <3>1. \A k \in Option : m.options[k] # {} => k <= q.at
      BY <1>1, <1>3 DEF PhaseOK, m
    <3>2. q.at <= c.width /\ q.at \in Int /\ c.width \in Int
      BY <1>1, ParserOf, QuestionOf DEF Matches
    <3> QED
      BY <3>1, <3>2, ParserAssumption DEF Option
  <2>7. /\ r.cur.number = m.number /\ r.cur.section = m.section /\ r.cur.correct = m.own /\ r.cur.context = {} /\ m.stem # {}
        /\ Fits(r.cur) /\ q.at <= r.cur.width
    BY <1>1, <2>2, <2>3, <2>6 DEF Matches, Fits
  <2>8. Same(r.cur, m)
    BY <2>3, <2>5, <2>7 DEF Same
  <2> QED
    BY <1>1, <2>2, <2>7, <2>8 DEF r, m
<1>4. CASE sh.phase = "spilled"
  <2>1. q.dest = "option" /\ q.buf # {} /\ Overrun(d, c, q.at, q.buf)
    BY <1>4, SpillOverruns DEF c
  <2>2. /\ r \in Parser /\ Rest(r, q) /\ r.buf = {} /\ r.pending = q.pending /\ r.cur \in Question
        /\ r.cur.text["trailing"] = c.text["trailing"] \union q.buf /\ r.cur.issues = c.issues \union {"overrun"}
        /\ r.cur.text["stem"] = c.text["stem"] /\ r.cur.text["explanation"] = c.text["explanation"]
        /\ r.cur.number = c.number /\ r.cur.section = c.section /\ r.cur.options = c.options /\ r.cur.width = c.width
        /\ r.cur.correct = c.correct /\ r.cur.context = c.context
    BY <1>1, <2>1, CommitAside DEF r, c
  <2>3. c.options = m.options
    <3>1. \A k \in Option : HeldBy(sh, q, k) = {}
      BY <1>4 DEF HeldBy
    <3>2. \A k \in Option : c.options[k] = m.options[k]
      BY <1>1, <3>1 DEF Matches
    <3> QED
      BY <1>1, <3>2
  <2>4. \A part \in Parts : Held(q, part) = {}
    BY <2>1 DEF Held, Parts
  <2>5. /\ r.cur.text["stem"] = m.stem /\ r.cur.text["explanation"] = m.explanation /\ r.cur.text["trailing"] = m.trailing
        /\ r.cur.issues = m.issues
    BY <1>1, <1>4, <2>2, <2>4 DEF Matches, Spilled, Parts
  <2>6. /\ r.cur.number = m.number /\ r.cur.section = m.section /\ r.cur.correct = m.own /\ r.cur.context = {} /\ m.stem # {}
        /\ r.cur.options = m.options /\ Fits(r.cur) /\ q.at <= r.cur.width
    BY <1>1, <2>2, <2>3 DEF Matches, Fits
  <2>7. Same(r.cur, m)
    BY <2>5, <2>6 DEF Same
  <2> QED
    BY <1>1, <2>2, <2>6, <2>7 DEF r, m
<1>5. CASE sh.phase = "closed" /\ q.dest = "option" /\ q.buf = {}
  <2>1. r = q
    BY <1>5, CommitNothing DEF r
  <2>2. c.options = m.options
    <3>1. \A k \in Option : HeldBy(sh, q, k) = {}
      BY <1>5 DEF HeldBy, Held
    <3>2. \A k \in Option : c.options[k] = m.options[k]
      BY <1>1, <3>1 DEF Matches
    <3> QED
      BY <1>1, <3>2
  <2>3. \A part \in Parts : Held(q, part) = {}
    BY <1>5 DEF Held, Parts
  <2>4. Same(c, m) /\ q.at <= c.width
    BY <1>1, <1>5, <2>2, <2>3 DEF Matches, Spilled, Parts, Same
  <2> QED
    BY <1>1, <1>5, <2>1, <2>4 DEF r, m, c, Rest
<1> QED
  <2>1. sh.phase \notin {"options", "spilled"} => q.dest \in Parts \/ (sh.phase = "closed" /\ q.dest = "option" /\ q.buf = {})
    BY <1>1 DEF PhaseOK, Parts
  <2> QED
    BY <1>2, <1>3, <1>4, <1>5, <2>1

-----------------------------------------------------------------------------
\* Before a line is read: a complete set of options behind a blank line is over.

\* A line that is not blank settles where text goes, and changes nothing else.
LEMMA SettleStep ==
  ASSUME NEW d, NEW sh, NEW q, ReaderOK(d, sh, q)
  PROVE  LET s == Settle(d, q) IN
           /\ s \in Parser /\ s.out = q.out /\ s.last = q.last /\ s.complete = q.complete /\ s.section = q.section
           /\ s.contexts = q.contexts /\ s.pending = q.pending /\ s.cur = q.cur /\ s.at = q.at /\ s.buf = q.buf /\ ~s.blank
           /\ \/ s.dest = q.dest /\ (sh.phase = "closed" => s.dest = "trailing")
              \/ sh.phase = "closed" /\ s.dest = "trailing" /\ q.dest = "option" /\ q.buf = {}
<1> DEFINE over == q.blank /\ q.dest = "option" /\ q.cur # None /\ q.at >= OptTarget
<1>1. q \in Parser /\ sh \in Sheet /\ FALSE \in BOOLEAN /\ "trailing" \in Dests
  BY DEF ReaderOK, Typed, Dests, Parts
<1>2. CASE over
  <2>1. sh.phase = "closed" /\ q.buf = {}
    <3>1. sh.phase \notin {"front", "preamble"}
      BY <1>2 DEF ReaderOK, PhaseOK
    <3>2. ~Aside(sh)
      BY <3>1 DEF Aside
    <3>3. PhaseOK(sh, q) /\ sh.phase \in {"stem", "options", "closed", "spilled", "answered", "solved"}
      BY <3>2, OpenFacts
    <3>4. q.at \in Nat /\ q.at <= OptTarget /\ OptTarget \in Nat
      BY <1>1, ParserOf, ParserAssumption
    <3>5. q.at = OptTarget
      BY <1>2, <3>4
    <3> QED
      BY <1>2, <3>3, <3>5 DEF PhaseOK
  <2>2. Commit(d, q) = q
    BY <2>1, CommitNothing
  <2> DEFINE u == [q EXCEPT !.dest = "trailing"]
             s == [u EXCEPT !.blank = FALSE]
  <2>3. Settle(d, q) = s
    BY <1>2, <2>2 DEF Settle
  <2>4. u \in Parser
    BY <1>1, ParserWith
  <2>5. /\ u.out = q.out /\ u.last = q.last /\ u.complete = q.complete /\ u.section = q.section
        /\ u.contexts = q.contexts /\ u.pending = q.pending /\ u.cur = q.cur /\ u.at = q.at /\ u.buf = q.buf /\ u.dest = "trailing"
    BY <1>1 DEF Parser
  <2> HIDE DEF u
  <2>6. s \in Parser
    BY <1>1, <2>4, ParserWith
  <2>7. /\ s.out = u.out /\ s.last = u.last /\ s.complete = u.complete /\ s.section = u.section
        /\ s.contexts = u.contexts /\ s.pending = u.pending /\ s.cur = u.cur /\ s.at = u.at /\ s.buf = u.buf /\ s.dest = u.dest
        /\ ~s.blank
    BY <2>4 DEF Parser
  <2> HIDE DEF s
  <2>8. /\ s \in Parser /\ s.out = q.out /\ s.last = q.last /\ s.complete = q.complete /\ s.section = q.section
        /\ s.contexts = q.contexts /\ s.pending = q.pending /\ s.cur = q.cur /\ s.at = q.at /\ s.buf = q.buf /\ ~s.blank
        /\ sh.phase = "closed" /\ s.dest = "trailing" /\ q.dest = "option" /\ q.buf = {}
    BY <1>2, <2>1, <2>5, <2>6, <2>7
  <2> QED
    BY <2>3, <2>8
<1>3. CASE ~over
  <2> DEFINE s == [q EXCEPT !.blank = FALSE]
  <2>1. Settle(d, q) = s
    BY <1>3 DEF Settle
  <2>2. s \in Parser
    BY <1>1, ParserWith
  <2>3. /\ s.out = q.out /\ s.last = q.last /\ s.complete = q.complete /\ s.section = q.section /\ s.dest = q.dest
        /\ s.contexts = q.contexts /\ s.pending = q.pending /\ s.cur = q.cur /\ s.at = q.at /\ s.buf = q.buf /\ ~s.blank
    BY <1>1 DEF Parser
  <2>4. ASSUME sh.phase = "closed" PROVE q.dest = "trailing"
    <3>1. ~Aside(sh)
      BY <2>4 DEF Aside
    <3>2. Complete(sh, q) /\ (q.dest = "trailing" \/ (q.dest = "option" /\ q.blank)) /\ q.cur # None
      BY <2>4, <3>1, OpenFacts DEF PhaseOK
    <3>3. q.at >= OptTarget
      BY <3>2, ParserAssumption DEF Complete
    <3> QED
      BY <1>3, <3>2, <3>3
  <2> HIDE DEF s
  <2> QED
    BY <2>1, <2>2, <2>3, <2>4
<1> QED
  BY <1>2, <1>3

\* Settling keeps the parser in step with the printer.
LEMMA Settling ==
  ASSUME NEW d, NEW sh, NEW q, ReaderOK(d, sh, q)
  PROVE  LET s == Settle(d, q) IN
           ReaderOK(d, sh, s) /\ ~s.blank /\ (sh.phase = "closed" => s.dest = "trailing")
<1> DEFINE s == Settle(d, q)
<1>1. /\ s \in Parser /\ s.out = q.out /\ s.last = q.last /\ s.complete = q.complete /\ s.section = q.section
      /\ s.contexts = q.contexts /\ s.pending = q.pending /\ s.cur = q.cur /\ s.at = q.at /\ s.buf = q.buf /\ ~s.blank
      /\ \/ s.dest = q.dest /\ (sh.phase = "closed" => s.dest = "trailing")
         \/ sh.phase = "closed" /\ s.dest = "trailing" /\ q.dest = "option" /\ q.buf = {}
  BY SettleStep
<1> HIDE DEF s
<1>2. Typed(d, sh, s)
  BY <1>1 DEF ReaderOK, Typed
<1>3. FiledOK(sh, s)
  BY <1>1 DEF ReaderOK, FiledOK
<1>4. NumbersOK(sh, s)
  BY <1>1 DEF ReaderOK, NumbersOK
<1>5. LengthsOK(d, sh, s)
  BY <1>1 DEF ReaderOK, LengthsOK
<1>6. ContextsOK(sh, s)
  <2>1. sh.phase = "preamble" => Awaited(sh, s)
    BY <1>1 DEF ReaderOK, ContextsOK, Awaited
  <2> QED
    BY <1>1, <2>1 DEF ReaderOK, ContextsOK
<1>7. OpenOK(sh, s)
  <2> SUFFICES ASSUME ~Aside(sh) PROVE sh.qs # <<>> /\ s.cur \in Question /\ s.pending = None /\ Matches(sh, s, s.cur, Current(sh))
    BY DEF OpenOK
  <2>1. sh.qs # <<>> /\ q.cur \in Question /\ q.pending = None /\ Matches(sh, q, q.cur, Current(sh))
    BY OpenFacts
  <2>2. \A part \in {"stem", "explanation", "trailing", "option"} : Held(s, part) = Held(q, part)
    BY <1>1 DEF Held
  <2>3. Matches(sh, s, q.cur, Current(sh))
    BY <1>1, <2>1, <2>2 DEF Matches, HeldBy, Spilled
  <2> QED
    BY <1>1, <2>1, <2>3
<1>8. PhaseOK(sh, s)
  BY <1>1 DEF ReaderOK, PhaseOK, Complete
<1> QED
  BY <1>1, <1>2, <1>3, <1>4, <1>5, <1>6, <1>7, <1>8 DEF ReaderOK, s

-----------------------------------------------------------------------------
\* Lines of the question being read: what they leave alone.

\* The printed sheets that differ in the current question alone, which keeps its
\* number, its section and the preambles that reach it.
Onward(sh, next) ==
  /\ sh \in Sheet /\ next \in Sheet /\ sh.qs # <<>> /\ next.qs # <<>> /\ ~Aside(sh) /\ ~Aside(next)
  /\ Len(next.qs) = Len(sh.qs) /\ next.govs = sh.govs /\ next.label = sh.label
  /\ \A j \in 1..Len(sh.qs) : /\ j # Len(sh.qs) => next.qs[j] = sh.qs[j]
                              /\ next.qs[j].number = sh.qs[j].number /\ next.qs[j].govs = sh.qs[j].govs

\* The sheet with another current question.
Redraw(sh, m, phase, given, packed) ==
  [sh EXCEPT !.qs = [@ EXCEPT ![Len(sh.qs)] = m], !.phase = phase, !.given = given, !.packed = packed]

\* Redrawing the question being printed leaves the others as they are.
LEMMA Redrawn ==
  ASSUME NEW sh \in Sheet, sh.qs # <<>>, NEW m \in Printed, NEW phase \in Phases, NEW given \in 0..OptTarget, NEW packed \in BOOLEAN,
         m.number = Current(sh).number, m.govs = Current(sh).govs, ~Aside(sh), phase \notin {"front", "preamble"}
  PROVE  LET next == Redraw(sh, m, phase, given, packed) IN
           /\ Onward(sh, next) /\ Current(next) = m /\ next.phase = phase /\ next.given = given /\ next.packed = packed
<1> DEFINE qs == [sh.qs EXCEPT ![Len(sh.qs)] = m]
           next == [sh EXCEPT !.qs = qs, !.phase = phase, !.given = given, !.packed = packed]
<1>1. sh.qs \in Seq(Printed) /\ Len(sh.qs) \in 1..Len(sh.qs) /\ Current(sh) = sh.qs[Len(sh.qs)]
  BY SheetOf, CurrentOf
<1>2. /\ qs \in Seq(Printed) /\ qs # <<>> /\ Len(qs) = Len(sh.qs) /\ qs[Len(sh.qs)] = m
      /\ \A j \in 1..Len(sh.qs) : j # Len(sh.qs) => qs[j] = sh.qs[j]
  BY <1>1
<1> HIDE DEF qs
<1>3. /\ next \in Sheet /\ next.qs = qs /\ next.phase = phase /\ next.given = given /\ next.packed = packed
      /\ next.govs = sh.govs /\ next.label = sh.label
  BY <1>2 DEF Sheet
<1> HIDE DEF next
<1>4. Current(next) = m /\ ~Aside(next)
  BY <1>2, <1>3 DEF Current, Aside
<1>5. \A j \in 1..Len(sh.qs) : qs[j].number = sh.qs[j].number /\ qs[j].govs = sh.qs[j].govs
  BY <1>1, <1>2
<1>6. Onward(sh, next)
  BY <1>2, <1>3, <1>4, <1>5 DEF Onward
<1>7. Onward(sh, next) /\ Current(next) = m /\ next.phase = phase /\ next.given = given /\ next.packed = packed
  BY <1>3, <1>4, <1>6
<1> QED
  BY <1>7 DEF next, qs, Redraw

\* Reading on in the same question: the filed ones, the numbers and the preambles stay.
LEMMA SameQuestion ==
  ASSUME NEW d, NEW sh, NEW q, ReaderOK(d, sh, q), NEW next, Onward(sh, next), NEW l \in Lines,
         NEW t \in Parser, t.out = q.out, t.last = q.last, t.section = q.section, t.contexts = q.contexts,
         OpenOK(next, t), PhaseOK(next, t), LengthsOK(Append(d, l), next, t)
  PROVE  ReaderOK(Append(d, l), next, t)
<1>1. ~Aside(sh) /\ ~Aside(next) /\ sh.phase # "preamble" /\ next.phase # "preamble" /\ NumberOf(next) = NumberOf(sh)
  <2>1. Len(sh.qs) \in 1..Len(sh.qs)
    BY CurrentOf DEF Onward
  <2> QED
    BY <2>1 DEF Onward, Aside, NumberOf
<1>2. Typed(Append(d, l), next, t)
  BY DEF ReaderOK, Typed, Onward
<1>3. FiledOK(next, t)
  <2>1. Len(q.out) = Len(sh.qs) - 1 /\ \A j \in 1..Len(q.out) : Same(q.out[j], sh.qs[j])
    BY <1>1 DEF ReaderOK, FiledOK
  <2>2. Len(sh.qs) \in Nat /\ Len(q.out) \in Nat
    BY SheetOf, ParserOf DEF Onward, ReaderOK, Typed
  <2>3. \A j \in 1..Len(q.out) : j \in 1..Len(sh.qs) /\ j # Len(sh.qs)
    BY <2>1, <2>2
  <2>4. \A j \in 1..Len(q.out) : next.qs[j] = sh.qs[j]
    BY <2>3 DEF Onward
  <2> QED
    BY <1>1, <2>1, <2>4 DEF FiledOK, Onward
<1>4. NumbersOK(next, t)
  BY <1>1 DEF ReaderOK, NumbersOK, Onward
<1>5. ContextsOK(next, t)
  <2> DEFINE L == Len(q.contexts)
  <2>1. /\ Len(sh.govs) = L + 0 /\ sh.qs # <<>>
        /\ \A g \in 1..L : Told(q.contexts[g], sh.govs[g]) /\ Ended(sh, g, q.contexts[g], sh.govs[g], L)
        /\ \A g \in 1..L, j \in 1..Len(sh.qs) : g \in sh.qs[j].govs <=> Reaches(q.contexts[g], sh.qs[j].number)
        /\ \A j \in 1..Len(sh.qs) : sh.qs[j].govs \subseteq 1..L /\ \A a, b \in sh.qs[j].govs : a = b
    BY <1>1 DEF ReaderOK, ContextsOK, Onward
  <2>2. \A g \in 1..L : Ended(next, g, q.contexts[g], next.govs[g], L)
    BY <1>1, <2>1 DEF Ended, Onward
  <2>3. \A g \in 1..L, j \in 1..Len(next.qs) : g \in next.qs[j].govs <=> Reaches(q.contexts[g], next.qs[j].number)
    BY <2>1 DEF Onward
  <2>4. \A j \in 1..Len(next.qs) : next.qs[j].govs \subseteq 1..L /\ \A a, b \in next.qs[j].govs : a = b
    BY <2>1 DEF Onward
  <2>5. next.govs = sh.govs /\ next.qs # <<>> /\ t.contexts = q.contexts
    BY DEF Onward
  <2> QED
    BY <1>1, <2>1, <2>2, <2>3, <2>4, <2>5 DEF ContextsOK
<1> QED
  BY <1>2, <1>3, <1>4, <1>5 DEF ReaderOK

-----------------------------------------------------------------------------
\* Lines that go on with what is being read.

Ready(d, sh, q) == ReaderOK(d, sh, q) /\ ~q.blank /\ (sh.phase = "closed" => q.dest = "trailing")

\* Text only goes to the buffer.
LEMMA ReadTextOf ==
  ASSUME NEW q \in Parser, NEW i \in Nat
  PROVE  LET t == ReadText(q, i) IN
           /\ t \in Parser /\ Rest(t, q) /\ t.cur = q.cur /\ t.pending = q.pending /\ t.buf = q.buf \union {i}
<1>1. q.buf \union {i} \in Texts
  BY ParserOf DEF Texts
<1>2. [q EXCEPT !.buf = q.buf \union {i}] \in Parser
  BY <1>1, ParserWith
<1> QED
  BY <1>2 DEF ReadText, Parser, Rest

\* What is known of a question that a line goes on with.
LEMMA GoesOn ==
  ASSUME NEW d, NEW sh, NEW q, Ready(d, sh, q), ~Aside(sh), NEW l \in Lines
  PROVE  LET t == ReadText(q, Len(d) + 1) IN
           /\ t \in Parser /\ Rest(t, q) /\ t.cur = q.cur /\ t.cur \in Question /\ t.pending = None
           /\ t.buf = q.buf \union {Len(d) + 1} /\ ~t.blank
           /\ Len(d) \in Nat /\ Len(Append(d, l)) = Len(d) + 1 /\ t.buf \subseteq 1..Len(Append(d, l))
<1>1. q \in Parser /\ q.cur \in Question /\ q.pending = None /\ d \in Seq(Lines) /\ q.buf \subseteq 1..Len(d)
  BY OpenFacts DEF Ready, LengthsOK
<1>2. Len(d) \in Nat /\ Len(Append(d, l)) = Len(d) + 1 /\ Len(d) + 1 \in Nat
  BY <1>1
<1>3. q.buf \union {Len(d) + 1} \subseteq 1..(Len(d) + 1)
  BY <1>1, <1>2
<1> DEFINE t == ReadText(q, Len(d) + 1)
<1>4. t \in Parser /\ Rest(t, q) /\ t.cur = q.cur /\ t.pending = q.pending /\ t.buf = q.buf \union {Len(d) + 1}
  BY <1>1, <1>2, ReadTextOf
<1> HIDE DEF t
<1>5. ~t.blank
  BY <1>4 DEF Ready, Rest
<1>6. /\ t \in Parser /\ Rest(t, q) /\ t.cur = q.cur /\ t.cur \in Question /\ t.pending = None
      /\ t.buf = q.buf \union {Len(d) + 1} /\ ~t.blank
      /\ Len(d) \in Nat /\ Len(Append(d, l)) = Len(d) + 1 /\ t.buf \subseteq 1..Len(Append(d, l))
  BY <1>1, <1>2, <1>3, <1>4, <1>5
<1> QED
  BY <1>6 DEF t

\* More of the stem.
LEMMA StemLine ==
  ASSUME NEW d, NEW sh, NEW q, Ready(d, sh, q), NEW l \in Lines, sh.phase = "stem"
  PROVE  ReaderOK(Append(d, l), [sh EXCEPT !.qs[Len(sh.qs)].stem = @ \union {Len(d) + 1}], ReadText(q, Len(d) + 1))
<1> DEFINE m == Current(sh)
           i == Len(d) + 1
           n == [m EXCEPT !.stem = @ \union {i}]
           t == ReadText(q, i)
           next == Redraw(sh, n, sh.phase, sh.given, sh.packed)
<1>1. /\ sh \in Sheet /\ q \in Parser /\ sh.qs # <<>> /\ m \in Printed /\ ~Aside(sh) /\ ReaderOK(d, sh, q)
      /\ Matches(sh, q, q.cur, m) /\ q.dest = "stem" /\ q.at = 0 /\ sh.given = 0 /\ m.own = 0 /\ \A k \in Option : m.options[k] = {}
  BY OpenFacts DEF Ready, Aside, PhaseOK
<1>2. /\ t \in Parser /\ Rest(t, q) /\ t.cur = q.cur /\ t.cur \in Question /\ t.pending = None
      /\ t.buf = q.buf \union {i} /\ ~t.blank
      /\ Len(d) \in Nat /\ Len(Append(d, l)) = i /\ t.buf \subseteq 1..Len(Append(d, l))
  BY <1>1, GoesOn
<1>3. [sh EXCEPT !.qs[Len(sh.qs)].stem = @ \union {i}] = next
  BY <1>1 DEF Sheet, Current, Redraw
<1> HIDE DEF m, t, i
<1>4. m.stem \union {i} \in Texts
  BY <1>1, <1>2, PrintedOf DEF Texts, i
<1>5. /\ n \in Printed /\ n.stem = m.stem \union {i} /\ n.number = m.number /\ n.section = m.section /\ n.trailing = m.trailing
      /\ n.explanation = m.explanation /\ n.own = m.own /\ n.options = m.options /\ n.issues = m.issues /\ n.govs = m.govs
  BY <1>1, <1>4 DEF Printed
<1> HIDE DEF n
<1>6. /\ Onward(sh, next) /\ Current(next) = n /\ next.phase = "stem" /\ next.given = 0
  BY <1>1, <1>5, SheetOf, Redrawn DEF m
<1> HIDE DEF next
<1>7. OpenOK(next, t)
  <2>1. Matches(next, t, t.cur, n)
    BY <1>1, <1>2, <1>5, <1>6 DEF Matches, Held, HeldBy, Spilled, Rest
  <2> QED
    BY <1>2, <1>6, <2>1 DEF OpenOK, Onward
<1>8. PhaseOK(next, t)
  BY <1>1, <1>2, <1>5, <1>6 DEF PhaseOK, Rest
<1>9. LengthsOK(Append(d, l), next, t)
  BY <1>2, <1>6 DEF LengthsOK
<1>10. ReaderOK(Append(d, l), next, t)
  BY <1>1, <1>2, <1>6, <1>7, <1>8, <1>9, SameQuestion DEF Rest
<1> QED
  BY <1>3, <1>10 DEF t, i

\* A running header behind a question that is over.
LEMMA FurnitureLine ==
  ASSUME NEW d, NEW sh, NEW q, Ready(d, sh, q), NEW l \in Lines, sh.phase = "closed"
  PROVE  ReaderOK(Append(d, l), [sh EXCEPT !.qs[Len(sh.qs)].trailing = @ \union {Len(d) + 1}], ReadText(q, Len(d) + 1))
<1> DEFINE m == Current(sh)
           i == Len(d) + 1
           n == [m EXCEPT !.trailing = @ \union {i}]
           t == ReadText(q, i)
           next == Redraw(sh, n, sh.phase, sh.given, sh.packed)
<1>1. /\ sh \in Sheet /\ q \in Parser /\ sh.qs # <<>> /\ m \in Printed /\ ~Aside(sh) /\ ReaderOK(d, sh, q)
      /\ Matches(sh, q, q.cur, m) /\ q.dest = "trailing" /\ Complete(sh, q) /\ m.own = 0
  BY OpenFacts DEF Ready, Aside, PhaseOK
<1>2. /\ t \in Parser /\ Rest(t, q) /\ t.cur = q.cur /\ t.cur \in Question /\ t.pending = None
      /\ t.buf = q.buf \union {i} /\ ~t.blank
      /\ Len(d) \in Nat /\ Len(Append(d, l)) = i /\ t.buf \subseteq 1..Len(Append(d, l))
  BY <1>1, GoesOn
<1>3. [sh EXCEPT !.qs[Len(sh.qs)].trailing = @ \union {i}] = next
  BY <1>1 DEF Sheet, Current, Redraw
<1> HIDE DEF m, t, i
<1>4. m.trailing \union {i} \in Texts
  BY <1>1, <1>2, PrintedOf DEF Texts, i
<1>5. /\ n \in Printed /\ n.trailing = m.trailing \union {i} /\ n.number = m.number /\ n.section = m.section /\ n.stem = m.stem
      /\ n.explanation = m.explanation /\ n.own = m.own /\ n.options = m.options /\ n.issues = m.issues /\ n.govs = m.govs
  BY <1>1, <1>4 DEF Printed
<1> HIDE DEF n
<1>6. /\ Onward(sh, next) /\ Current(next) = n /\ next.phase = "closed" /\ next.given = sh.given
  BY <1>1, <1>5, SheetOf, Redrawn DEF m
<1> HIDE DEF next
<1>7. OpenOK(next, t)
  <2>1. Matches(next, t, t.cur, n)
    BY <1>1, <1>2, <1>5, <1>6 DEF Matches, Held, HeldBy, Spilled, Rest
  <2> QED
    BY <1>2, <1>6, <2>1 DEF OpenOK, Onward
<1>8. PhaseOK(next, t)
  BY <1>1, <1>2, <1>5, <1>6 DEF PhaseOK, Rest, Complete
<1>9. LengthsOK(Append(d, l), next, t)
  BY <1>2, <1>6 DEF LengthsOK
<1>10. ReaderOK(Append(d, l), next, t)
  BY <1>1, <1>2, <1>6, <1>7, <1>8, <1>9, SameQuestion DEF Rest
<1> QED
  BY <1>3, <1>10 DEF t, i

\* More of a worked solution.
LEMMA SolvedLine ==
  ASSUME NEW d, NEW sh, NEW q, Ready(d, sh, q), NEW l \in Lines, sh.phase = "solved"
  PROVE  ReaderOK(Append(d, l), [sh EXCEPT !.qs[Len(sh.qs)].explanation = @ \union {Len(d) + 1}], ReadText(q, Len(d) + 1))
<1> DEFINE m == Current(sh)
           i == Len(d) + 1
           n == [m EXCEPT !.explanation = @ \union {i}]
           t == ReadText(q, i)
           next == Redraw(sh, n, sh.phase, sh.given, sh.packed)
<1>1. /\ sh \in Sheet /\ q \in Parser /\ sh.qs # <<>> /\ m \in Printed /\ ~Aside(sh) /\ ReaderOK(d, sh, q)
      /\ Matches(sh, q, q.cur, m) /\ q.dest = "explanation" /\ Complete(sh, q)
  BY OpenFacts DEF Ready, Aside, PhaseOK
<1>2. /\ t \in Parser /\ Rest(t, q) /\ t.cur = q.cur /\ t.cur \in Question /\ t.pending = None
      /\ t.buf = q.buf \union {i} /\ ~t.blank
      /\ Len(d) \in Nat /\ Len(Append(d, l)) = i /\ t.buf \subseteq 1..Len(Append(d, l))
  BY <1>1, GoesOn
<1>3. [sh EXCEPT !.qs[Len(sh.qs)].explanation = @ \union {i}] = next
  BY <1>1 DEF Sheet, Current, Redraw
<1> HIDE DEF m, t, i
<1>4. m.explanation \union {i} \in Texts
  BY <1>1, <1>2, PrintedOf DEF Texts, i
<1>5. /\ n \in Printed /\ n.explanation = m.explanation \union {i} /\ n.number = m.number /\ n.section = m.section /\ n.stem = m.stem
      /\ n.trailing = m.trailing /\ n.own = m.own /\ n.options = m.options /\ n.issues = m.issues /\ n.govs = m.govs
  BY <1>1, <1>4 DEF Printed
<1> HIDE DEF n
<1>6. /\ Onward(sh, next) /\ Current(next) = n /\ next.phase = "solved" /\ next.given = sh.given
  BY <1>1, <1>5, SheetOf, Redrawn DEF m
<1> HIDE DEF next
<1>7. OpenOK(next, t)
  <2>1. Matches(next, t, t.cur, n)
    BY <1>1, <1>2, <1>5, <1>6 DEF Matches, Held, HeldBy, Spilled, Rest
  <2> QED
    BY <1>2, <1>6, <2>1 DEF OpenOK, Onward
<1>8. PhaseOK(next, t)
  BY <1>1, <1>2, <1>5, <1>6 DEF PhaseOK, Rest, Complete
<1>9. LengthsOK(Append(d, l), next, t)
  BY <1>2, <1>6 DEF LengthsOK
<1>10. ReaderOK(Append(d, l), next, t)
  BY <1>1, <1>2, <1>6, <1>7, <1>8, <1>9, SameQuestion DEF Rest
<1> QED
  BY <1>3, <1>10 DEF t, i

\* An option runs on to a second line.
LEMMA WrapLine ==
  ASSUME NEW d, NEW sh, NEW q, Ready(d, sh, q), NEW l \in Lines, l.size = 1, l.kind # "marks", sh.phase = "options", AfterMarks(d)
  PROVE  ReaderOK(Append(d, l), [sh EXCEPT !.qs[Len(sh.qs)].options[sh.given] = @ \union {Len(d) + 1}], ReadText(q, Len(d) + 1))
<1> DEFINE m == Current(sh)
           i == Len(d) + 1
           options == [m.options EXCEPT ![sh.given] = @ \union {i}]
           n == [m EXCEPT !.options = options]
           t == ReadText(q, i)
           next == Redraw(sh, n, sh.phase, sh.given, sh.packed)
<1>1. /\ sh \in Sheet /\ q \in Parser /\ d \in Seq(Lines) /\ sh.qs # <<>> /\ m \in Printed /\ ~Aside(sh) /\ ReaderOK(d, sh, q)
      /\ Matches(sh, q, q.cur, m) /\ PhaseOK(sh, q) /\ LengthsOK(d, sh, q) /\ ~q.blank
  BY OpenFacts DEF Ready, Aside
<1>2. /\ t \in Parser /\ Rest(t, q) /\ t.cur = q.cur /\ t.cur \in Question /\ t.pending = None
      /\ t.buf = q.buf \union {i} /\ ~t.blank
      /\ Len(d) \in Nat /\ Len(Append(d, l)) = i /\ t.buf \subseteq 1..Len(Append(d, l))
  BY <1>1, GoesOn
<1>3. [sh EXCEPT !.qs[Len(sh.qs)].options[sh.given] = @ \union {i}] = next
  BY <1>1 DEF Sheet, Current, Redraw
<1>4. q.at \in Option /\ q.at = sh.given /\ q.dest = "option"
  BY <1>1, OptionFits DEF PhaseOK
<1> HIDE DEF m, t
<1>5. /\ options \in [Option -> Texts] /\ options[q.at] = m.options[q.at] \union {i}
      /\ \A k \in Option : k # q.at => options[k] = m.options[k]
  BY <1>1, <1>2, <1>4, PrintedOf DEF Texts
<1> HIDE DEF options, i
<1>6. /\ n \in Printed /\ n.stem = m.stem /\ n.number = m.number /\ n.section = m.section /\ n.trailing = m.trailing
      /\ n.explanation = m.explanation /\ n.own = m.own /\ n.options = options /\ n.issues = m.issues /\ n.govs = m.govs
  BY <1>1, <1>5 DEF Printed
<1> HIDE DEF n
<1>7. Onward(sh, next) /\ Current(next) = n /\ next.phase = "options" /\ next.given = sh.given /\ next.packed = sh.packed
  BY <1>1, <1>6, SheetOf, Redrawn DEF m
<1> HIDE DEF next
<1>8. OpenOK(next, t)
  <2>1. \A k \in Option : t.cur.options[k] \union HeldBy(next, t, k) = n.options[k]
    <3> TAKE k \in Option
    <3>1. q.cur.options[k] \union HeldBy(sh, q, k) = m.options[k]
      BY <1>1 DEF Matches
    <3>2. HeldBy(sh, q, k) = IF k = q.at THEN q.buf ELSE {}
      BY <1>4 DEF HeldBy, Held
    <3>3. HeldBy(next, t, k) = IF k = q.at THEN t.buf ELSE {}
      BY <1>2, <1>4, <1>7 DEF HeldBy, Held, Rest
    <3> QED
      BY <1>2, <1>5, <1>6, <3>1, <3>2, <3>3
  <2>2. Matches(next, t, t.cur, n)
    BY <1>1, <1>2, <1>4, <1>6, <1>7, <2>1 DEF Matches, Held, Spilled, Rest
  <2> QED
    BY <1>2, <1>7, <2>2 DEF OpenOK, Onward
<1>9. PhaseOK(next, t)
  <2>1. \A k \in Option : n.options[k] # {} <=> k <= q.at
    <3>1. \A k \in Option : m.options[k] # {} <=> k <= q.at
      BY <1>1 DEF PhaseOK, m
    <3>2. n.options[q.at] # {}
      BY <1>5, <1>6
    <3>3. q.at <= q.at
      BY <1>4, ParserAssumption DEF Option
    <3> QED
      BY <1>5, <1>6, <3>1, <3>2, <3>3
  <2> QED
    BY <1>1, <1>2, <1>6, <1>7, <2>1 DEF PhaseOK, Rest, m
<1>10. LengthsOK(Append(d, l), next, t)
  <2>1. Short(d, m) /\ Size(d, m.options[q.at]) <= 1
    BY <1>1, <1>4 DEF LengthsOK, m
  <2>2. ASSUME NEW k \in Option PROVE n.options[k] \subseteq 1..Len(Append(d, l)) /\ Size(Append(d, l), n.options[k]) <= 2
    <3>1. m.options[k] \subseteq 1..Len(d) /\ Size(d, m.options[k]) <= 2 /\ Size(d, m.options[k]) \in Nat
      BY <1>1, <2>1, SizeNat DEF Short
    <3>2. CASE k # q.at
      <4>1. n.options[k] = m.options[k]
        BY <1>5, <1>6, <3>2
      <4>2. Size(Append(d, l), m.options[k]) = Size(d, m.options[k])
        BY <1>1, <3>1, SizeGrows
      <4>3. m.options[k] \subseteq 1..Len(Append(d, l))
        BY <1>2, <3>1 DEF i
      <4> QED
        BY <3>1, <4>1, <4>2, <4>3
    <3>3. CASE k = q.at
      <4>1. n.options[k] = m.options[k] \union {Len(d) + 1}
        BY <1>5, <1>6, <3>3 DEF i
      <4>2. Size(Append(d, l), n.options[k]) = Size(d, m.options[k]) + 1
        BY <1>1, <3>1, <4>1, SizeGrows
      <4>3. n.options[k] \subseteq 1..Len(Append(d, l))
        BY <1>2, <3>1, <4>1 DEF i
      <4> QED
        BY <2>1, <3>1, <3>3, <4>2, <4>3
    <3> QED
      BY <3>2, <3>3
  <2>3. Short(Append(d, l), n)
    BY <2>2 DEF Short
  <2>4. ~AfterMarks(Append(d, l))
    BY <1>1 DEF AfterMarks
  <2> QED
    BY <1>2, <1>7, <2>3, <2>4 DEF LengthsOK
<1>11. ReaderOK(Append(d, l), next, t)
  BY <1>1, <1>2, <1>7, <1>8, <1>9, <1>10, SameQuestion DEF Rest
<1> QED
  BY <1>3, <1>11 DEF t, i

\* A foreign text so long that it cannot be an option's.
LEMMA SpillLine ==
  ASSUME NEW d, NEW sh, NEW q, Ready(d, sh, q), NEW l \in Lines, l.size = 12, sh.phase = "options", sh.given = OptTarget, sh.packed,
         AfterMarks(d), OptTarget >= 4
  PROVE  ReaderOK(Append(d, l), [[sh EXCEPT !.qs[Len(sh.qs)].trailing = @ \union {Len(d) + 1}] EXCEPT
                                    !.phase = "spilled", !.qs[Len(sh.qs)].issues = @ \union {"overrun"}], ReadText(q, Len(d) + 1))
<1> DEFINE m == Current(sh)
           i == Len(d) + 1
           n == [m EXCEPT !.trailing = @ \union {i}, !.issues = @ \union {"overrun"}]
           t == ReadText(q, i)
           next == Redraw(sh, n, "spilled", sh.given, sh.packed)
<1>1. /\ sh \in Sheet /\ q \in Parser /\ d \in Seq(Lines) /\ sh.qs # <<>> /\ m \in Printed /\ ~Aside(sh) /\ ReaderOK(d, sh, q)
      /\ Matches(sh, q, q.cur, m) /\ PhaseOK(sh, q) /\ LengthsOK(d, sh, q) /\ ~q.blank
  BY OpenFacts DEF Ready, Aside
<1>2. /\ t \in Parser /\ Rest(t, q) /\ t.cur = q.cur /\ t.cur \in Question /\ t.pending = None
      /\ t.buf = q.buf \union {i} /\ ~t.blank
      /\ Len(d) \in Nat /\ Len(Append(d, l)) = i /\ t.buf \subseteq 1..Len(Append(d, l))
  BY <1>1, GoesOn
<1>3. [[sh EXCEPT !.qs[Len(sh.qs)].trailing = @ \union {i}] EXCEPT
          !.phase = "spilled", !.qs[Len(sh.qs)].issues = @ \union {"overrun"}] = next
  <2>1. sh.qs \in Seq(Printed) /\ Len(sh.qs) \in 1..Len(sh.qs)
    BY <1>1, SheetOf, CurrentOf
  <2> DEFINE half == [m EXCEPT !.trailing = @ \union {i}]
             qs == [sh.qs EXCEPT ![Len(sh.qs)] = half]
             more == [sh EXCEPT !.qs = qs]
  <2>2. [sh EXCEPT !.qs[Len(sh.qs)].trailing = @ \union {i}] = more
    BY <1>1 DEF Sheet, Current
  <2>3. [half EXCEPT !.issues = @ \union {"overrun"}] = n
    BY <1>1 DEF Printed
  <2> HIDE DEF half, n
  <2>4. qs[Len(sh.qs)] = half /\ [qs EXCEPT ![Len(sh.qs)] = n] = [sh.qs EXCEPT ![Len(sh.qs)] = n]
    BY <2>1
  <2> HIDE DEF qs
  <2>5. more.qs = qs /\ [more EXCEPT !.phase = "spilled", !.qs = [sh.qs EXCEPT ![Len(sh.qs)] = n]] = next
    BY <1>1 DEF Sheet, Redraw
  <2> HIDE DEF more, next
  <2> QED
    BY <2>2, <2>3, <2>4, <2>5
<1>4. q.at = OptTarget /\ q.dest = "option" /\ Complete(sh, q) /\ m.own = 0 /\ q.buf = {}
  <2>1. q.at \in Option /\ q.dest = "option" /\ q.at = sh.given /\ m.own = 0 /\ \A k \in 1..q.at : q.cur.options[k] # {}
    BY <1>1, OptionFits DEF PhaseOK
  <2>2. q.buf = {}
    BY <1>1 DEF LengthsOK
  <2> QED
    BY <2>1, <2>2 DEF Complete, Option
<1> HIDE DEF m, t, i
<1>5. m.trailing \union {i} \in Texts /\ m.issues \union {"overrun"} \in SUBSET Issues
  <2>1. m.trailing \in Texts /\ m.issues \in SUBSET Issues /\ i \in Nat
    BY <1>1, <1>2, PrintedOf DEF i
  <2>2. m.trailing \union {i} \in Texts
    BY <2>1 DEF Texts
  <2>3. "overrun" \in Issues
    BY DEF Issues
  <2> QED
    BY <2>1, <2>2, <2>3
<1>6. /\ n \in Printed /\ n.stem = m.stem /\ n.number = m.number /\ n.section = m.section /\ n.trailing = m.trailing \union {i}
      /\ n.explanation = m.explanation /\ n.own = m.own /\ n.options = m.options /\ n.issues = m.issues \union {"overrun"}
      /\ n.govs = m.govs
  BY <1>1, <1>5 DEF Printed
<1> HIDE DEF n
<1>7. Onward(sh, next) /\ Current(next) = n /\ next.phase = "spilled" /\ next.given = sh.given
  <2>1. "spilled" \in Phases /\ sh.given \in 0..OptTarget /\ sh.packed \in BOOLEAN
    BY <1>1, SheetOf DEF Phases
  <2>2. n.number = Current(sh).number /\ n.govs = Current(sh).govs
    BY <1>6 DEF m
  <2> DEFINE phase == "spilled"
  <2>3. phase \in Phases /\ phase \notin {"front", "preamble"}
    BY <2>1
  <2> HIDE DEF phase
  <2> DEFINE packed == sh.packed
  <2>4. packed \in BOOLEAN
    BY <2>1
  <2> HIDE DEF packed
  <2>5. LET r == Redraw(sh, n, phase, sh.given, packed) IN
          Onward(sh, r) /\ Current(r) = n /\ r.phase = phase /\ r.given = sh.given
    BY <1>1, <1>6, <2>1, <2>2, <2>3, <2>4, Redrawn
  <2> QED
    BY <2>5 DEF next, phase, packed
<1> HIDE DEF next
<1>8. OpenOK(next, t)
  <2>1. \A k \in Option : HeldBy(sh, q, k) = {} /\ HeldBy(next, t, k) = {}
    BY <1>4, <1>7 DEF HeldBy, Held
  <2>2. \A part \in Parts : Held(t, part) = {} /\ Held(q, part) = {}
    BY <1>2, <1>4 DEF Held, Parts, Rest
  <2>3. Spilled(sh, q) = {} /\ Spilled(next, t) = {i}
    BY <1>2, <1>4, <1>7 DEF Spilled
  <2>4. Matches(next, t, t.cur, n)
    BY <1>1, <1>2, <1>4, <1>6, <1>7, <2>1, <2>2, <2>3 DEF Matches, Rest, Parts
  <2> QED
    BY <1>2, <1>7, <2>4 DEF OpenOK, Onward
<1>9. PhaseOK(next, t)
  BY <1>2, <1>4, <1>6, <1>7 DEF PhaseOK, Rest, Complete
<1>10. LengthsOK(Append(d, l), next, t)
  <2>1. Short(d, m)
    BY <1>1 DEF LengthsOK, m
  <2>2. ASSUME NEW k \in Option PROVE n.options[k] \subseteq 1..Len(Append(d, l)) /\ Size(Append(d, l), n.options[k]) <= 2
    <3>1. m.options[k] \subseteq 1..Len(d) /\ Size(d, m.options[k]) <= 2
      BY <2>1 DEF Short
    <3>2. Size(Append(d, l), m.options[k]) = Size(d, m.options[k])
      BY <1>1, <3>1, SizeGrows
    <3>3. m.options[k] \subseteq 1..Len(Append(d, l))
      BY <1>2, <3>1 DEF i
    <3> QED
      BY <1>6, <3>1, <3>2, <3>3
  <2>3. Short(Append(d, l), n)
    BY <2>2 DEF Short
  <2>4. Size(Append(d, l), t.buf) = 12
    <3>1. t.buf = {} \union {Len(d) + 1}
      BY <1>2, <1>4 DEF i
    <3>2. Size(Append(d, l), {} \union {Len(d) + 1}) = Size(d, {}) + 12
      BY <1>1, SizeGrows
    <3>3. Size(d, {}) = 0
      BY <1>1, SizeNothing
    <3> QED
      BY <3>1, <3>2, <3>3
  <2> QED
    BY <1>2, <1>7, <2>3, <2>4 DEF LengthsOK
<1>11. ReaderOK(Append(d, l), next, t)
  BY <1>1, <1>2, <1>7, <1>8, <1>9, <1>10, SameQuestion DEF Rest
<1> QED
  BY <1>3, <1>11 DEF t, i

-----------------------------------------------------------------------------
\* Lines that end what was being read before them.

\* Options stay as short as they are when a line is added.
LEMMA ShortStays ==
  ASSUME NEW d \in Seq(Lines), NEW l \in Lines, NEW m, Short(d, m)
  PROVE  Short(Append(d, l), m)
<1> SUFFICES ASSUME NEW k \in Option
             PROVE  m.options[k] \subseteq 1..Len(Append(d, l)) /\ Size(Append(d, l), m.options[k]) <= 2
  BY DEF Short
<1>1. m.options[k] \subseteq 1..Len(d) /\ Size(d, m.options[k]) <= 2
  BY DEF Short
<1>2. Size(Append(d, l), m.options[k]) = Size(d, m.options[k])
  BY <1>1, SizeGrows
<1>3. Len(Append(d, l)) = Len(d) + 1 /\ Len(d) \in Nat
  OBVIOUS
<1>4. m.options[k] \subseteq 1..Len(Append(d, l))
  BY <1>1, <1>3
<1> QED
  BY <1>1, <1>2, <1>4

\* A question whose options have all been printed.
LEMMA AllFilled ==
  ASSUME NEW d, NEW sh, NEW q, ReaderOK(d, sh, q), ~Aside(sh), sh.phase # "stem", sh.phase = "options" => sh.given = OptTarget
  PROVE  q.at = OptTarget /\ sh.given = OptTarget /\ \A k \in Option : Current(sh).options[k] # {}
<1>1. /\ PhaseOK(sh, q) /\ Matches(sh, q, q.cur, Current(sh))
      /\ sh.phase \in {"stem", "options", "closed", "spilled", "answered", "solved"}
  BY OpenFacts
<1>2. CASE sh.phase = "options"
  <2>1. q.at = sh.given /\ \A k \in Option : Current(sh).options[k] # {} <=> k <= q.at
    BY <1>1, <1>2 DEF PhaseOK
  <2>2. \A k \in Option : k <= OptTarget
    BY ParserAssumption DEF Option
  <2> QED
    BY <1>2, <2>1, <2>2
<1>3. CASE sh.phase # "options"
  <2>1. Complete(sh, q)
    BY <1>1, <1>3 DEF PhaseOK
  <2>2. ASSUME NEW k \in Option PROVE Current(sh).options[k] # {}
    <3>1. q.cur.options[k] \union HeldBy(sh, q, k) = Current(sh).options[k]
      BY <1>1 DEF Matches
    <3> QED
      BY <2>1, <3>1 DEF Complete
  <2> QED
    BY <2>1, <2>2 DEF Complete
<1> QED
  BY <1>2, <1>3

\* A state with nothing in the buffer, whose question is as printed.
LEMMA NothingHeld ==
  ASSUME NEW sh, NEW t, t.buf = {}, sh.phase # "spilled", Same(t.cur, Current(sh)), t.at <= t.cur.width
  PROVE  Matches(sh, t, t.cur, Current(sh))
<1>1. \A part \in {"stem", "explanation", "trailing", "option"} : Held(t, part) = {}
  BY DEF Held
<1>2. \A k \in Option : HeldBy(sh, t, k) = {}
  BY <1>1 DEF HeldBy
<1> QED
  BY <1>1, <1>2 DEF Matches, Same, Spilled

\* A blank line commits, and closes a question that has all its options.
LEMMA ReadBlank ==
  ASSUME NEW d, NEW sh, NEW q, ReaderOK(d, sh, q), ~Aside(sh), NEW l \in Lines, l.kind = "blank"
  PROVE  ReaderOK(Append(d, l), [sh EXCEPT !.phase = IF @ \in {"options", "spilled"} /\ sh.given = OptTarget THEN "closed" ELSE @],
                  [Commit(d, q) EXCEPT !.blank = TRUE])
<1> DEFINE m == Current(sh)
           r == Commit(d, q)
           t == [r EXCEPT !.blank = TRUE]
           phase == IF sh.phase \in {"options", "spilled"} /\ sh.given = OptTarget THEN "closed" ELSE sh.phase
           next == Redraw(sh, m, phase, sh.given, sh.packed)
<1>1. /\ d \in Seq(Lines) /\ sh \in Sheet /\ q \in Parser /\ sh.qs # <<>> /\ m \in Printed
      /\ PhaseOK(sh, q) /\ LengthsOK(d, sh, q) /\ sh.phase \in {"stem", "options", "closed", "spilled", "answered", "solved"}
      /\ Matches(sh, q, q.cur, m)
  BY OpenFacts
<1>2. [sh EXCEPT !.phase = IF @ \in {"options", "spilled"} /\ sh.given = OptTarget THEN "closed" ELSE @] = next
  <2>1. sh.qs \in Seq(Printed) /\ Len(sh.qs) \in 1..Len(sh.qs) /\ m = sh.qs[Len(sh.qs)]
    BY <1>1, SheetOf, CurrentOf
  <2> HIDE DEF m
  <2>2. [sh.qs EXCEPT ![Len(sh.qs)] = m] = sh.qs
    BY <2>1
  <2> QED
    BY <1>1, <2>2 DEF Redraw, Sheet
<1>3. /\ r \in Parser /\ Rest(r, q) /\ r.buf = {} /\ r.pending = None /\ r.cur \in Question
      /\ Same(r.cur, m) /\ q.at <= r.cur.width
  BY Committed
<1> HIDE DEF m, r
<1>4. /\ t \in Parser /\ t.out = q.out /\ t.last = q.last /\ t.section = q.section /\ t.contexts = q.contexts /\ t.dest = q.dest
      /\ t.at = q.at /\ t.buf = {} /\ t.pending = None /\ t.cur = r.cur /\ t.blank
  BY <1>3 DEF Parser, Rest
<1> HIDE DEF t
<1>5. phase \in Phases /\ phase \notin {"front", "preamble", "spilled"}
  <2>1. sh.phase = "spilled" => sh.given = OptTarget
    BY <1>1 DEF PhaseOK, Complete
  <2> QED
    BY <1>1, <2>1 DEF Phases
<1> HIDE DEF phase
<1>6. Onward(sh, next) /\ Current(next) = m /\ next.phase = phase /\ next.given = sh.given /\ next.packed = sh.packed
  BY <1>1, <1>5, SheetOf, Redrawn DEF m
<1> HIDE DEF next
<1>7. OpenOK(next, t)
  BY <1>3, <1>4, <1>5, <1>6, NothingHeld DEF OpenOK, Onward
<1>8. PhaseOK(next, t)
  <2>1. t.cur.options = m.options
    BY <1>3, <1>4 DEF Same
  <2>2. CASE phase = "closed"
    <3>1. sh.phase = "closed" \/ (sh.phase \in {"options", "spilled"} /\ sh.given = OptTarget)
      BY <2>2 DEF phase
    <3>2. q.at = OptTarget /\ sh.given = OptTarget /\ \A k \in Option : m.options[k] # {}
      BY <3>1, AllFilled DEF m
    <3>3. m.own = 0 /\ (q.dest = "trailing" \/ q.dest = "option")
      BY <1>1, <3>1 DEF PhaseOK, m
    <3> QED
      BY <1>4, <1>6, <2>1, <2>2, <3>2, <3>3 DEF PhaseOK, Complete
  <2>3. CASE phase # "closed"
    <3>1. phase = sh.phase /\ (phase = "options" => sh.given # OptTarget) /\ phase # "spilled"
      BY <1>5, <2>3 DEF phase
    <3>2. CASE phase = "options"
      <4>1. /\ q.dest = "option" /\ q.at = sh.given /\ q.at >= 1 /\ m.own = 0
            /\ \A k \in Option : m.options[k] # {} <=> k <= q.at
        BY <1>1, <3>1, <3>2 DEF PhaseOK, m
      <4>2. \A k \in 1..q.at : k \in Option /\ k <= q.at
        <5>1. q.at \in 0..OptTarget
          BY <1>1, ParserOf
        <5> QED
          BY <5>1, ParserAssumption DEF Option
      <4>3. \A k \in 1..q.at : t.cur.options[k] # {}
        BY <2>1, <4>1, <4>2
      <4> QED
        BY <1>4, <1>6, <3>1, <3>2, <4>1, <4>3 DEF PhaseOK
    <3>3. CASE phase = "stem"
      BY <1>1, <1>4, <1>6, <3>1, <3>3 DEF PhaseOK, m
    <3>4. CASE phase \in {"answered", "solved"}
      <4>1. q.at = OptTarget /\ sh.given = OptTarget /\ \A k \in Option : m.options[k] # {}
        BY <3>1, <3>4, AllFilled DEF m
      <4>2. (phase = "answered" => q.dest = "stem") /\ (phase = "solved" => q.dest = "explanation")
        BY <1>1, <3>1, <3>4 DEF PhaseOK
      <4> QED
        BY <1>4, <1>6, <2>1, <3>4, <4>1, <4>2 DEF PhaseOK, Complete
    <3> QED
      BY <1>1, <2>3, <3>1, <3>2, <3>3, <3>4
  <2> QED
    BY <2>2, <2>3
<1>9. LengthsOK(Append(d, l), next, t)
  <2>1. ~AfterMarks(Append(d, l))
    BY <1>1 DEF AfterMarks
  <2>2. phase = "options" => Short(Append(d, l), m)
    BY <1>1, ShortStays DEF phase, LengthsOK, m
  <2> QED
    BY <1>4, <1>5, <1>6, <2>1, <2>2 DEF LengthsOK
<1>10. ReaderOK(Append(d, l), next, t)
  BY <1>1, <1>4, <1>6, <1>7, <1>8, <1>9, SameQuestion
<1> QED
  BY <1>2, <1>10 DEF t, r

\* What is committed, with another question, place and buffer.
Recast(r, c, at, dest, B) == [r EXCEPT !.cur = c, !.at = at, !.dest = dest, !.buf = B]

\* Recast replaces the question being read and where text goes.
LEMMA Recasts ==
  ASSUME NEW r \in Parser, NEW c \in Question, NEW at \in 0..OptTarget, NEW dest \in Dests, NEW B \in Texts
  PROVE  LET t == Recast(r, c, at, dest, B) IN
           /\ t \in Parser /\ t.out = r.out /\ t.last = r.last /\ t.section = r.section /\ t.contexts = r.contexts
           /\ t.pending = r.pending /\ t.blank = r.blank /\ t.cur = c /\ t.at = at /\ t.dest = dest /\ t.buf = B
<1> DEFINE t == Recast(r, c, at, dest, B)
<1>1. t \in Parser
  BY DEF Recast, Parser
<1>2. /\ t.out = r.out /\ t.last = r.last /\ t.section = r.section /\ t.contexts = r.contexts
      /\ t.pending = r.pending /\ t.blank = r.blank /\ t.cur = c /\ t.at = at /\ t.dest = dest /\ t.buf = B
  BY DEF Recast, Parser
<1> QED
  BY <1>1, <1>2

\* Widen changes the width only, and never narrows.
LEMMA WidenOf ==
  ASSUME NEW c \in Question, NEW k \in 1..OptTarget
  PROVE  LET w == Widen(c, k) IN
           /\ w \in Question /\ w.width >= c.width /\ w.width >= k /\ w.number = c.number /\ w.section = c.section /\ w.text = c.text
           /\ w.options = c.options /\ w.correct = c.correct /\ w.context = c.context /\ w.issues = c.issues
<1> DEFINE n == Max({c.width, Min({k, OptTarget})})
           w == [c EXCEPT !.width = n]
<1>1. k \in Int /\ OptTarget \in Int /\ c.width \in Int /\ k <= OptTarget /\ c.width <= OptTarget /\ c.width >= 0 /\ k >= 1
  BY QuestionOf, ParserAssumption
<1>2. Min({k, OptTarget}) = k
  BY <1>1, MinOfTwo
<1>3. n = IF c.width >= k THEN c.width ELSE k
  BY <1>1, <1>2, MaxOfTwo
<1>4. Widen(c, k) = w
  BY DEF Widen, Question
<1> HIDE DEF n
<1>5. n \in 0..OptTarget /\ n >= c.width /\ n >= k
  BY <1>1, <1>3
<1>6. /\ w \in Question /\ w.width = n /\ w.number = c.number /\ w.section = c.section /\ w.text = c.text
      /\ w.options = c.options /\ w.correct = c.correct /\ w.context = c.context /\ w.issues = c.issues
  BY <1>5 DEF Question
<1> HIDE DEF w
<1> QED
  BY <1>4, <1>5, <1>6

\* A question with an option told to be the right one.
LEMMA Decided ==
  ASSUME NEW c \in Question, NEW k \in 1..OptTarget, NEW v \in 1..OptTarget
  PROVE  LET w == [Widen(c, k) EXCEPT !.correct = v] IN
           /\ w \in Question /\ w.width >= c.width /\ w.number = c.number /\ w.section = c.section /\ w.text = c.text
           /\ w.options = c.options /\ w.correct = v /\ w.context = c.context /\ w.issues = c.issues
<1> DEFINE u == Widen(c, k)
           w == [u EXCEPT !.correct = v]
<1>1. /\ u \in Question /\ u.width >= c.width /\ u.number = c.number /\ u.section = c.section /\ u.text = c.text
      /\ u.options = c.options /\ u.correct = c.correct /\ u.context = c.context /\ u.issues = c.issues
  BY WidenOf
<1> HIDE DEF u
<1>2. v \in 0..OptTarget
  BY ParserAssumption
<1>3. /\ w \in Question /\ w.width = u.width /\ w.number = u.number /\ w.section = u.section /\ w.text = u.text
      /\ w.options = u.options /\ w.correct = v /\ w.context = u.context /\ w.issues = u.issues
  BY <1>1, <1>2 DEF Question
<1> HIDE DEF w
<1> QED
  BY <1>1, <1>3 DEF w, u

\* What is known when a line ends what was being read.
LEMMA Ends ==
  ASSUME NEW d, NEW sh, NEW q, Ready(d, sh, q), ~Aside(sh), NEW l \in Lines
  PROVE  LET r == Commit(d, q) m == Current(sh) IN
           /\ r \in Parser /\ r.out = q.out /\ r.last = q.last /\ r.section = q.section /\ r.contexts = q.contexts /\ r.pending = None
           /\ r.at = q.at /\ ~r.blank /\ r.buf = {} /\ r.cur \in Question /\ Same(r.cur, m) /\ q.at <= r.cur.width
           /\ q.at \in 0..OptTarget /\ d \in Seq(Lines) /\ sh \in Sheet /\ sh.qs # <<>> /\ m \in Printed /\ ReaderOK(d, sh, q)
           /\ Len(d) \in Nat /\ Len(d) + 1 \in Nat /\ Len(Append(d, l)) = Len(d) + 1
           /\ sh.given \in 0..OptTarget /\ sh.packed \in BOOLEAN
<1>1. ReaderOK(d, sh, q) /\ d \in Seq(Lines) /\ sh \in Sheet /\ sh.qs # <<>> /\ q \in Parser /\ Current(sh) \in Printed /\ ~q.blank
  BY OpenFacts DEF Ready
<1>2. LET r == Commit(d, q) IN
        /\ r \in Parser /\ Rest(r, q) /\ r.buf = {} /\ r.pending = None /\ r.cur \in Question
        /\ Same(r.cur, Current(sh)) /\ q.at <= r.cur.width
  BY <1>1, Committed
<1>3. Len(d) \in Nat /\ Len(d) + 1 \in Nat /\ Len(Append(d, l)) = Len(d) + 1
  BY <1>1
<1>4. sh.given \in 0..OptTarget /\ sh.packed \in BOOLEAN /\ q.at \in 0..OptTarget
  BY <1>1, SheetOf, ParserOf
<1> QED
  BY <1>1, <1>2, <1>3, <1>4 DEF Rest

\* The question's own answer line.
LEMMA ReadAnswerLine ==
  ASSUME NEW d, NEW sh, NEW q, Ready(d, sh, q), ~Aside(sh), NEW l \in Lines, l.verdict = 2,
         sh.phase # "stem", sh.phase = "options" => sh.given = OptTarget
  PROVE  ReaderOK(Append(d, l), [sh EXCEPT !.phase = "answered", !.qs[Len(sh.qs)].own = 2], ReadAnswer(d, q, l))
<1> DEFINE m == Current(sh)
           r == Commit(d, q)
           c == [Widen(r.cur, 2) EXCEPT !.correct = 2]
           t == Recast(r, c, r.at, "stem", {})
           n == [m EXCEPT !.own = 2]
           next == Redraw(sh, n, "answered", sh.given, sh.packed)
<1>1. /\ r \in Parser /\ r.out = q.out /\ r.last = q.last /\ r.section = q.section /\ r.contexts = q.contexts /\ r.pending = None
      /\ r.at = q.at /\ ~r.blank /\ r.buf = {} /\ r.cur \in Question /\ Same(r.cur, m) /\ q.at <= r.cur.width
      /\ q.at \in 0..OptTarget /\ d \in Seq(Lines) /\ sh \in Sheet /\ sh.qs # <<>> /\ m \in Printed /\ ReaderOK(d, sh, q)
      /\ Len(d) \in Nat /\ Len(d) + 1 \in Nat /\ Len(Append(d, l)) = Len(d) + 1
      /\ sh.given \in 0..OptTarget /\ sh.packed \in BOOLEAN
  BY Ends
<1>2. q.at = OptTarget /\ sh.given = OptTarget /\ \A k \in Option : m.options[k] # {}
  BY <1>1, AllFilled
<1>3. 2 \in 1..OptTarget /\ 2 \in 0..OptTarget
  BY ParserAssumption
<1>4. [sh EXCEPT !.phase = "answered", !.qs[Len(sh.qs)].own = 2] = next
  BY <1>1 DEF Sheet, Current, Redraw
<1>5. ReadAnswer(d, q, l) = t
  <2> DEFINE s == [r EXCEPT !.dest = "stem"]
  <2>1. ReadAnswer(d, q, l) = [s EXCEPT !.cur = [Widen(s.cur, 2) EXCEPT !.correct = 2]]
    BY <1>3 DEF ReadAnswer, Option
  <2>2. s.cur = r.cur
    BY <1>1 DEF Parser
  <2> HIDE DEF r
  <2>3. [s EXCEPT !.cur = c] = t
    <3> HIDE DEF c
    <3> QED
      BY <1>1 DEF Parser, Recast
  <2> HIDE DEF s
  <2> QED
    BY <2>1, <2>2, <2>3
<1> HIDE DEF m, r
<1>6. /\ c \in Question /\ c.width >= r.cur.width /\ c.number = r.cur.number /\ c.section = r.cur.section /\ c.text = r.cur.text
      /\ c.options = r.cur.options /\ c.correct = 2 /\ c.context = r.cur.context /\ c.issues = r.cur.issues
  BY <1>1, <1>3, Decided
<1> HIDE DEF c
<1>7. /\ n \in Printed /\ n.stem = m.stem /\ n.number = m.number /\ n.section = m.section /\ n.trailing = m.trailing
      /\ n.explanation = m.explanation /\ n.own = 2 /\ n.options = m.options /\ n.issues = m.issues /\ n.govs = m.govs
  BY <1>1, <1>3 DEF Printed
<1> HIDE DEF n
<1>8. /\ t \in Parser /\ t.out = r.out /\ t.last = r.last /\ t.section = r.section /\ t.contexts = r.contexts
      /\ t.pending = r.pending /\ t.blank = r.blank /\ t.cur = c /\ t.at = r.at /\ t.dest = "stem" /\ t.buf = {}
  <2>1. "stem" \in Dests /\ {} \in Texts
    BY DEF Dests, Parts, Texts
  <2> QED
    BY <1>1, <1>6, <2>1, Recasts
<1> HIDE DEF t
<1>9. Onward(sh, next) /\ Current(next) = n /\ next.phase = "answered" /\ next.given = sh.given
  <2>1. "answered" \in Phases
    BY DEF Phases
  <2> QED
    BY <1>1, <1>7, <2>1, Redrawn DEF m
<1> HIDE DEF next
<1>10. Same(t.cur, n) /\ t.at <= t.cur.width
  <2>1. q.at \in Int /\ r.cur.width \in Int /\ c.width \in Int
    BY <1>1, <1>6, QuestionOf, ParserAssumption
  <2>2. q.at <= c.width
    BY <1>1, <1>6, <2>1
  <2>3. Fits(c)
    <3>1. \A k \in Option : c.options[k] # {} => k <= r.cur.width
      BY <1>1, <1>6 DEF Same, Fits
    <3> QED
      BY <1>6, <2>1, <3>1, ParserAssumption DEF Fits, Option
  <2> QED
    BY <1>1, <1>6, <1>7, <1>8, <2>2, <2>3 DEF Same
<1>11. OpenOK(next, t)
  BY <1>1, <1>6, <1>8, <1>9, <1>10, NothingHeld DEF OpenOK, Onward
<1>12. PhaseOK(next, t)
  BY <1>1, <1>2, <1>7, <1>8, <1>9, <1>10 DEF PhaseOK, Complete, Same
<1>13. LengthsOK(Append(d, l), next, t)
  BY <1>8, <1>9 DEF LengthsOK
<1>14. ReaderOK(Append(d, l), next, t)
  BY <1>1, <1>8, <1>9, <1>11, <1>12, <1>13, SameQuestion
<1> QED
  BY <1>4, <1>5, <1>14

\* Its worked solution, whose verdict counts where nothing has decided.
LEMMA ReadSolutionLine ==
  ASSUME NEW d, NEW sh, NEW q, Ready(d, sh, q), ~Aside(sh), NEW l \in Lines, l.verdict \in 0..OptTarget,
         sh.phase # "stem", sh.phase = "options" => sh.given = OptTarget
  PROVE  ReaderOK(Append(d, l), [sh EXCEPT !.phase = "solved", !.qs[Len(sh.qs)].explanation = @ \union {Len(d) + 1},
                                           !.qs[Len(sh.qs)].own = IF @ = 0 THEN l.verdict ELSE @],
                  ReadSolution(d, q, l, Len(d) + 1))
<1> DEFINE m == Current(sh)
           r == Commit(d, q)
           i == Len(d) + 1
           v == l.verdict
           right == IF r.cur.correct = 0 THEN v ELSE r.cur.correct
           c == IF v \in Option THEN [Widen(r.cur, v) EXCEPT !.correct = right] ELSE r.cur
           t == Recast(r, c, r.at, "explanation", {i})
           own == IF m.own = 0 THEN v ELSE m.own
           n == [m EXCEPT !.explanation = @ \union {i}, !.own = own]
           next == Redraw(sh, n, "solved", sh.given, sh.packed)
<1>1. /\ r \in Parser /\ r.out = q.out /\ r.last = q.last /\ r.section = q.section /\ r.contexts = q.contexts /\ r.pending = None
      /\ r.at = q.at /\ ~r.blank /\ r.buf = {} /\ r.cur \in Question /\ Same(r.cur, m) /\ q.at <= r.cur.width
      /\ q.at \in 0..OptTarget /\ d \in Seq(Lines) /\ sh \in Sheet /\ sh.qs # <<>> /\ m \in Printed /\ ReaderOK(d, sh, q)
      /\ Len(d) \in Nat /\ i \in Nat /\ Len(Append(d, l)) = i
      /\ sh.given \in 0..OptTarget /\ sh.packed \in BOOLEAN
  BY Ends
<1>2. q.at = OptTarget /\ sh.given = OptTarget /\ \A k \in Option : m.options[k] # {}
  BY <1>1, AllFilled
<1>3. [sh EXCEPT !.phase = "solved", !.qs[Len(sh.qs)].explanation = @ \union {i}, !.qs[Len(sh.qs)].own = IF @ = 0 THEN v ELSE @] = next
  <2>1. sh.qs \in Seq(Printed) /\ Len(sh.qs) \in 1..Len(sh.qs) /\ m = sh.qs[Len(sh.qs)]
    BY <1>1, SheetOf, CurrentOf
  <2> DEFINE half == [m EXCEPT !.explanation = @ \union {i}]
             qs == [sh.qs EXCEPT ![Len(sh.qs)] = half]
             more == [sh EXCEPT !.phase = "solved", !.qs = qs]
  <2>2. [sh EXCEPT !.phase = "solved", !.qs[Len(sh.qs)].explanation = @ \union {i}] = more
    BY <1>1, <2>1 DEF Sheet
  <2>3. [half EXCEPT !.own = IF @ = 0 THEN v ELSE @] = n
    BY <1>1 DEF Printed
  <2> HIDE DEF half, n, m
  <2>4. qs[Len(sh.qs)] = half /\ [qs EXCEPT ![Len(sh.qs)] = n] = [sh.qs EXCEPT ![Len(sh.qs)] = n]
    BY <2>1
  <2> HIDE DEF qs
  <2>5. more.qs = qs /\ [more EXCEPT !.qs = [sh.qs EXCEPT ![Len(sh.qs)] = n]] = next
    BY <1>1 DEF Sheet, Redraw
  <2> HIDE DEF more, next
  <2>6. [sh EXCEPT !.phase = "solved", !.qs[Len(sh.qs)].explanation = @ \union {i}, !.qs[Len(sh.qs)].own = IF @ = 0 THEN v ELSE @]
          = [more EXCEPT !.qs[Len(sh.qs)].own = IF @ = 0 THEN v ELSE @]
    BY <2>2, ZenonT(60)
  <2>7. [more EXCEPT !.qs[Len(sh.qs)].own = IF @ = 0 THEN v ELSE @] = [more EXCEPT !.qs = [qs EXCEPT ![Len(sh.qs)] = n]]
    BY <2>3, <2>4, <2>5
  <2> QED
    BY <2>4, <2>5, <2>6, <2>7
<1>4. ReadSolution(d, q, l, i) = t
  <2> DEFINE s == [r EXCEPT !.dest = "explanation", !.buf = {i}]
             w == Widen(r.cur, v)
  <2>1. s.cur = r.cur
    BY <1>1 DEF Parser
  <2>2. CASE v \in Option
    <3>1. ReadSolution(d, q, l, i) = [s EXCEPT !.cur = [Widen(s.cur, v) EXCEPT !.correct = IF @ = 0 THEN v ELSE @]]
      BY <2>2 DEF ReadSolution
    <3>2. w \in Question /\ w.correct = r.cur.correct
      BY <1>1, <2>2, WidenOf DEF Option
    <3> HIDE DEF r, s
    <3>3. ReadSolution(d, q, l, i) = [s EXCEPT !.cur = [w EXCEPT !.correct = IF @ = 0 THEN v ELSE @]]
      BY <2>1, <3>1
    <3> HIDE DEF w
    <3>4. [w EXCEPT !.correct = IF @ = 0 THEN v ELSE @] = c
      BY <2>2, <3>2 DEF w
    <3> HIDE DEF c
    <3>5. [s EXCEPT !.cur = c] = t
      BY <1>1 DEF Parser, Recast, s
    <3> QED
      BY <3>3, <3>4, <3>5
  <2>3. CASE v \notin Option
    <3>1. ReadSolution(d, q, l, i) = s /\ c = r.cur
      BY <2>3 DEF ReadSolution
    <3> HIDE DEF r, c
    <3>2. s = t
      BY <1>1, <3>1 DEF Parser, Recast
    <3> QED
      BY <3>1, <3>2
  <2> QED
    BY <2>2, <2>3
<1> HIDE DEF m, r
<1>5. v \in 0..OptTarget /\ m.own \in 0..OptTarget /\ r.cur.correct = m.own /\ own \in 0..OptTarget /\ (v \in Option \/ v = 0)
  <2>1. m.own \in 0..OptTarget /\ r.cur.correct = m.own
    BY <1>1, PrintedOf DEF Same
  <2> QED
    BY <2>1, ParserAssumption DEF Option
<1>6. /\ c \in Question /\ c.width >= r.cur.width /\ c.number = r.cur.number /\ c.section = r.cur.section /\ c.text = r.cur.text
      /\ c.options = r.cur.options /\ c.correct = own /\ c.context = r.cur.context /\ c.issues = r.cur.issues
  <2>1. CASE v \in Option
    <3>1. right \in 1..OptTarget /\ right = own /\ v \in 1..OptTarget
      BY <1>5, <2>1, ParserAssumption DEF Option
    <3> HIDE DEF right
    <3>2. LET w == [Widen(r.cur, v) EXCEPT !.correct = right] IN
           /\ w \in Question /\ w.width >= r.cur.width /\ w.number = r.cur.number /\ w.section = r.cur.section /\ w.text = r.cur.text
           /\ w.options = r.cur.options /\ w.correct = right /\ w.context = r.cur.context /\ w.issues = r.cur.issues
      BY <1>1, <3>1, Decided
    <3> QED
      BY <2>1, <3>1, <3>2
  <2>2. CASE v \notin Option
    <3>1. c = r.cur /\ own = m.own /\ r.cur.width >= r.cur.width
      <4>1. r.cur.width \in Int
        BY <1>1, QuestionOf
      <4> QED
        BY <1>5, <2>2, <4>1
    <3> QED
      BY <1>1, <1>5, <3>1
  <2> QED
    BY <2>1, <2>2
<1> HIDE DEF c, own, i, v
<1>7. /\ n \in Printed /\ n.stem = m.stem /\ n.number = m.number /\ n.section = m.section /\ n.trailing = m.trailing
      /\ n.explanation = m.explanation \union {i} /\ n.own = own /\ n.options = m.options /\ n.issues = m.issues /\ n.govs = m.govs
  <2>1. m.explanation \union {i} \in Texts
    BY <1>1, PrintedOf DEF Texts
  <2> QED
    BY <1>1, <1>5, <2>1 DEF Printed
<1> HIDE DEF n
<1>8. /\ t \in Parser /\ t.out = r.out /\ t.last = r.last /\ t.section = r.section /\ t.contexts = r.contexts
      /\ t.pending = r.pending /\ t.blank = r.blank /\ t.cur = c /\ t.at = r.at /\ t.dest = "explanation" /\ t.buf = {i}
  <2>1. "explanation" \in Dests
    BY DEF Dests, Parts
  <2>2. {i} \in Texts
    BY <1>1 DEF Texts
  <2>3. r.at \in 0..OptTarget
    BY <1>1
  <2> DEFINE B == {i}
             place == "explanation"
  <2> HIDE DEF B, place
  <2>4. LET u == Recast(r, c, r.at, place, B) IN
          /\ u \in Parser /\ u.out = r.out /\ u.last = r.last /\ u.section = r.section /\ u.contexts = r.contexts
          /\ u.pending = r.pending /\ u.blank = r.blank /\ u.cur = c /\ u.at = r.at /\ u.dest = place /\ u.buf = B
    <3>1. B \in Texts /\ place \in Dests
      BY <2>1, <2>2 DEF B, place
    <3> QED
      BY <1>1, <1>6, <2>3, <3>1, Recasts
  <2> QED
    BY <2>4 DEF t, B, place
<1> HIDE DEF t
<1>9. Onward(sh, next) /\ Current(next) = n /\ next.phase = "solved" /\ next.given = sh.given
  <2>1. "solved" \in Phases
    BY DEF Phases
  <2> QED
    BY <1>1, <1>7, <2>1, Redrawn DEF m
<1> HIDE DEF next
<1>10. q.at <= c.width /\ Fits(c)
  <2>1. q.at \in Int /\ r.cur.width \in Int /\ c.width \in Int
    BY <1>1, <1>6, QuestionOf, ParserAssumption
  <2>2. q.at <= c.width
    BY <1>1, <1>6, <2>1
  <2>3. \A k \in Option : c.options[k] # {} => k <= r.cur.width
    BY <1>1, <1>6 DEF Same, Fits
  <2>4. Fits(c)
    BY <1>6, <2>1, <2>3, ParserAssumption DEF Fits, Option
  <2> QED
    BY <2>2, <2>4
<1>11. OpenOK(next, t)
  <2>1. \A k \in Option : HeldBy(next, t, k) = {}
    BY <1>8 DEF HeldBy, Held
  <2>2. Held(t, "stem") = {} /\ Held(t, "trailing") = {} /\ Held(t, "explanation") = {i} /\ Spilled(next, t) = {}
    BY <1>8, <1>9 DEF Held, Spilled
  <2>3. Matches(next, t, c, n)
    BY <1>1, <1>6, <1>7, <1>8, <1>9, <1>10, <2>1, <2>2 DEF Matches, Same
  <2> QED
    BY <1>1, <1>6, <1>8, <1>9, <2>3 DEF OpenOK, Onward
<1>12. PhaseOK(next, t)
  BY <1>1, <1>2, <1>6, <1>7, <1>8, <1>9 DEF PhaseOK, Complete, Same
<1>13. LengthsOK(Append(d, l), next, t)
  BY <1>1, <1>8, <1>9 DEF LengthsOK, i
<1>14. ReaderOK(Append(d, l), next, t)
  BY <1>1, <1>8, <1>9, <1>11, <1>12, <1>13, SameQuestion
<1> QED
  BY <1>3, <1>4, <1>14 DEF i, v

-----------------------------------------------------------------------------
\* Options.

\* What the printer means by the next options: count of them on one line.
Given(sh, i, count) ==
  [sh EXCEPT !.phase = "options", !.given = @ + count, !.packed = count > 1,
             !.qs[Len(sh.qs)].options = [k \in Option |-> IF k \in (sh.given + 1)..(sh.given + count) THEN {i} ELSE @[k]]]

\* While a question takes options, the parser stands where the printer does.
LEMMA Wants ==
  ASSUME NEW d, NEW sh, NEW q, Ready(d, sh, q), sh.phase \in {"stem", "options"}
  PROVE  /\ ~Aside(sh) /\ q.at = sh.given /\ Current(sh).own = 0 /\ sh.given \in 0..OptTarget /\ sh.given \in Nat
         /\ \A k \in Option : Current(sh).options[k] # {} <=> k <= sh.given
<1>1. ~Aside(sh)
  BY DEF Aside
<1>2. PhaseOK(sh, q) /\ sh \in Sheet
  BY <1>1, OpenFacts DEF Ready
<1>3. sh.given \in 0..OptTarget /\ sh.given \in Nat
  BY <1>2, SheetOf
<1>4. CASE sh.phase = "stem"
  <2>1. q.at = 0 /\ sh.given = 0 /\ Current(sh).own = 0 /\ \A k \in Option : Current(sh).options[k] = {}
    BY <1>2, <1>4 DEF PhaseOK
  <2>2. \A k \in Option : ~(k <= 0)
    BY ParserAssumption DEF Option
  <2> QED
    BY <1>1, <1>3, <2>1, <2>2
<1>5. CASE sh.phase = "options"
  BY <1>1, <1>2, <1>3, <1>5 DEF PhaseOK
<1> QED
  BY <1>4, <1>5

\* Options printed on one line are one line each, and the others stay.
LEMMA Gives ==
  ASSUME NEW d, NEW sh, NEW q, Ready(d, sh, q), NEW l \in Lines, l.size = 1, sh.phase \in {"stem", "options"},
         NEW count \in Nat, count >= 1, sh.given + count <= OptTarget
  PROVE  LET m == Current(sh) i == Len(d) + 1 next == Given(sh, i, count) n == Current(next) IN
           /\ Onward(sh, next) /\ next.phase = "options" /\ next.given = sh.given + count /\ (next.packed => count > 1)
           /\ n \in Printed /\ n.stem = m.stem /\ n.number = m.number /\ n.section = m.section /\ n.trailing = m.trailing
           /\ n.explanation = m.explanation /\ n.own = m.own /\ n.issues = m.issues
           /\ \A k \in Option : n.options[k] = IF k \in (sh.given + 1)..(sh.given + count) THEN {i} ELSE m.options[k]
           /\ \A k \in Option : n.options[k] # {} <=> k <= sh.given + count
           /\ Short(Append(d, l), n) /\ Size(Append(d, l), n.options[sh.given + count]) <= 1
<1> DEFINE m == Current(sh)
           i == Len(d) + 1
           g == sh.given
           B == {i}
           options == [k \in Option |-> IF k \in (g + 1)..(g + count) THEN B ELSE m.options[k]]
           n == [m EXCEPT !.options = options]
           packed == count > 1
           next == Given(sh, i, count)
<1>1. /\ sh \in Sheet /\ d \in Seq(Lines) /\ sh.qs # <<>> /\ m \in Printed /\ ~Aside(sh) /\ ReaderOK(d, sh, q) /\ LengthsOK(d, sh, q)
      /\ g \in Nat /\ \A k \in Option : m.options[k] # {} <=> k <= g
  BY Wants, OpenFacts DEF Ready
<1>2. Len(d) \in Nat /\ i \in Nat /\ m.options \in [Option -> Texts] /\ B \in Texts /\ B # {}
  BY <1>1, PrintedOf DEF Texts
<1>3. next = Redraw(sh, n, "options", g + count, packed)
  BY <1>1 DEF Sheet, Current, Redraw, Given, Printed
<1> HIDE DEF m, g, B
<1>4. /\ options \in [Option -> Texts]
      /\ \A k \in Option : options[k] = IF k \in (g + 1)..(g + count) THEN B ELSE m.options[k]
  BY <1>2
<1> HIDE DEF options, i
<1>5. /\ n \in Printed /\ n.stem = m.stem /\ n.number = m.number /\ n.section = m.section /\ n.trailing = m.trailing
      /\ n.explanation = m.explanation /\ n.own = m.own /\ n.options = options /\ n.issues = m.issues /\ n.govs = m.govs
  BY <1>1, <1>4 DEF Printed
<1> HIDE DEF n
<1>6. packed \in BOOLEAN /\ g + count \in 0..OptTarget /\ "options" \in Phases
  BY <1>1, ParserAssumption DEF Phases, g
<1>7. Onward(sh, next) /\ Current(next) = n /\ next.phase = "options" /\ next.given = g + count /\ next.packed = packed
  <2> HIDE DEF packed, next
  <2> DEFINE phase == "options"
             given == g + count
  <2>1. phase \in Phases /\ phase \notin {"front", "preamble"} /\ given \in 0..OptTarget
    BY <1>6
  <2> HIDE DEF phase, given
  <2>2. n.number = Current(sh).number /\ n.govs = Current(sh).govs
    BY <1>5 DEF m
  <2>3. LET r == Redraw(sh, n, phase, given, packed) IN
          Onward(sh, r) /\ Current(r) = n /\ r.phase = phase /\ r.given = given /\ r.packed = packed
    BY <1>1, <1>5, <1>6, <2>1, <2>2, Redrawn
  <2> QED
    BY <1>3, <2>3 DEF phase, given
<1>8. \A k \in Option : options[k] # {} <=> k <= g + count
  <2> TAKE k \in Option
  <2>1. k \in Int /\ k >= 1 /\ g \in Int /\ count \in Int
    BY <1>1, ParserAssumption DEF Option
  <2>2. CASE k <= g
    <3>1. k \notin (g + 1)..(g + count) /\ k <= g + count
      BY <2>1, <2>2
    <3> QED
      BY <1>1, <1>4, <2>2, <3>1
  <2>3. CASE ~(k <= g) /\ k <= g + count
    <3>1. k \in (g + 1)..(g + count)
      BY <2>1, <2>3
    <3> QED
      BY <1>2, <1>4, <2>3, <3>1
  <2>4. CASE ~(k <= g) /\ ~(k <= g + count)
    <3>1. k \notin (g + 1)..(g + count)
      BY <2>1, <2>4
    <3> QED
      BY <1>1, <1>4, <2>4, <3>1
  <2> QED
    BY <2>2, <2>3, <2>4
<1>9. Size(Append(d, l), B) = 1
  <2>1. {} \subseteq 1..Len(d) /\ B = {} \union {Len(d) + 1}
    BY DEF i, B
  <2>2. Size(Append(d, l), B) = Size(d, {}) + l.size
    BY <1>1, <2>1, SizeGrows
  <2>3. Size(d, {}) = 0
    BY <1>1, SizeNothing
  <2> QED
    BY <2>2, <2>3
<1>10. Len(Append(d, l)) = i /\ B \subseteq 1..i
  BY <1>1, <1>2 DEF i, B
<1>11. ASSUME NEW k \in Option
       PROVE  options[k] \subseteq 1..Len(Append(d, l)) /\ Size(Append(d, l), options[k]) <= 2
  <2>1. CASE k \in (g + 1)..(g + count)
    <3>1. options[k] = B
      BY <1>4, <2>1
    <3>2. B \subseteq 1..Len(Append(d, l)) /\ Size(Append(d, l), B) <= 2
      BY <1>9, <1>10
    <3> QED
      BY <3>1, <3>2
  <2>2. CASE k \notin (g + 1)..(g + count) /\ sh.phase = "stem"
    <3>1. m.options[k] = {}
      BY <1>1, <2>2, OpenFacts DEF PhaseOK, m
    <3>2. Append(d, l) \in Seq(Lines)
      BY <1>1
    <3>3. options[k] = {} /\ Size(Append(d, l), {}) = 0
      BY <1>4, <2>2, <3>1, <3>2, SizeNothing
    <3> QED
      BY <3>3
  <2>3. CASE k \notin (g + 1)..(g + count) /\ sh.phase = "options"
    <3>1. Short(Append(d, l), m)
      BY <1>1, <2>3, ShortStays DEF LengthsOK, m
    <3> QED
      BY <1>4, <2>3, <3>1 DEF Short
  <2> QED
    BY <2>1, <2>2, <2>3
<1>12. Short(Append(d, l), n)
  BY <1>5, <1>11 DEF Short
<1>13. Size(Append(d, l), n.options[g + count]) <= 1
  <2>1. g + count \in (g + 1)..(g + count) /\ g + count \in Option
    BY <1>1, ParserAssumption DEF Option, g
  <2> QED
    BY <1>4, <1>5, <1>9, <2>1
<1> HIDE DEF next
<1>14. /\ Onward(sh, next) /\ next.phase = "options" /\ next.given = g + count /\ (next.packed => count > 1)
       /\ Current(next) = n
  BY <1>7
<1>15. /\ \A k \in Option : n.options[k] = IF k \in (g + 1)..(g + count) THEN B ELSE m.options[k]
       /\ \A k \in Option : n.options[k] # {} <=> k <= g + count
  BY <1>4, <1>5, <1>8
<1> QED
  BY <1>5, <1>12, <1>13, <1>14, <1>15 DEF next, m, g, i, B

\* The next option alone on its line.
LEMMA ReadOptionLine ==
  ASSUME NEW d, NEW sh, NEW q, Ready(d, sh, q), NEW l \in Lines, l.size = 1, sh.phase \in {"stem", "options"},
         sh.given + 1 <= OptTarget, l.idx = sh.given + 1
  PROVE  ReaderOK(Append(d, l), Given(sh, Len(d) + 1, 1), ReadOption(d, q, l, Len(d) + 1))
<1> DEFINE m == Current(sh)
           r == Commit(d, q)
           i == Len(d) + 1
           k0 == sh.given + 1
           B == {i}
           c == Widen(r.cur, k0)
           place == "option"
           t == Recast(r, c, k0, place, B)
           next == Given(sh, i, 1)
           n == Current(next)
<1>1. ~Aside(sh)
  BY DEF Aside
<1>2. /\ r \in Parser /\ r.out = q.out /\ r.last = q.last /\ r.section = q.section /\ r.contexts = q.contexts /\ r.pending = None
      /\ r.at = q.at /\ ~r.blank /\ r.buf = {} /\ r.cur \in Question /\ Same(r.cur, m) /\ q.at <= r.cur.width
      /\ d \in Seq(Lines) /\ sh \in Sheet /\ m \in Printed /\ ReaderOK(d, sh, q)
      /\ Len(d) \in Nat /\ i \in Nat /\ Len(Append(d, l)) = i
  BY <1>1, Ends
<1>3. /\ q.at = sh.given /\ m.own = 0 /\ sh.given \in Nat /\ k0 \in 1..OptTarget /\ k0 \in 0..OptTarget
      /\ \A k \in Option : m.options[k] # {} <=> k <= sh.given
  <2>1. q.at = sh.given /\ m.own = 0 /\ sh.given \in Nat /\ \A k \in Option : m.options[k] # {} <=> k <= sh.given
    BY Wants
  <2>2. k0 \in 1..OptTarget /\ k0 \in 0..OptTarget
    BY <2>1, ParserAssumption
  <2> QED
    BY <2>1, <2>2
<1>4. ReadOption(d, q, l, i) = t
  <2> HIDE DEF r
  <2> QED
    BY <1>2 DEF ReadOption, Recast, Parser, r
<1>5. /\ Onward(sh, next) /\ next.phase = "options" /\ next.given = sh.given + 1 /\ ~next.packed
      /\ n \in Printed /\ n.stem = m.stem /\ n.number = m.number /\ n.section = m.section /\ n.trailing = m.trailing
      /\ n.explanation = m.explanation /\ n.own = m.own /\ n.issues = m.issues
      /\ \A k \in Option : n.options[k] = IF k \in (sh.given + 1)..(sh.given + 1) THEN {i} ELSE m.options[k]
      /\ \A k \in Option : n.options[k] # {} <=> k <= sh.given + 1
      /\ Short(Append(d, l), n) /\ Size(Append(d, l), n.options[sh.given + 1]) <= 1
  <2> DEFINE count == 1
  <2>1. count \in Nat /\ count >= 1 /\ sh.given + count <= OptTarget /\ ~(count > 1)
    OBVIOUS
  <2> HIDE DEF count
  <2>2. LET w == Given(sh, i, count) u == Current(w) IN
           /\ Onward(sh, w) /\ w.phase = "options" /\ w.given = sh.given + count /\ (w.packed => count > 1)
           /\ u \in Printed /\ u.stem = m.stem /\ u.number = m.number /\ u.section = m.section /\ u.trailing = m.trailing
           /\ u.explanation = m.explanation /\ u.own = m.own /\ u.issues = m.issues
           /\ \A k \in Option : u.options[k] = IF k \in (sh.given + 1)..(sh.given + count) THEN {i} ELSE m.options[k]
           /\ \A k \in Option : u.options[k] # {} <=> k <= sh.given + count
           /\ Short(Append(d, l), u) /\ Size(Append(d, l), u.options[sh.given + count]) <= 1
    BY <2>1, Gives
  <2> QED
    BY <2>1, <2>2 DEF count
<1> HIDE DEF m, r, n, next
<1>6. /\ c \in Question /\ c.width >= r.cur.width /\ c.width >= k0 /\ c.number = r.cur.number /\ c.section = r.cur.section /\ c.text = r.cur.text
      /\ c.options = r.cur.options /\ c.correct = r.cur.correct /\ c.context = r.cur.context /\ c.issues = r.cur.issues
  <2> HIDE DEF k0
  <2> QED
    BY <1>2, <1>3, WidenOf
<1>7. B \in Texts /\ place \in Dests
  BY <1>2 DEF Texts, Dests
<1> HIDE DEF c, B, place
<1>8. /\ t \in Parser /\ t.out = r.out /\ t.last = r.last /\ t.section = r.section /\ t.contexts = r.contexts
      /\ t.pending = r.pending /\ t.blank = r.blank /\ t.cur = c /\ t.at = k0 /\ t.dest = place /\ t.buf = B
  <2> HIDE DEF k0
  <2> QED
    BY <1>2, <1>3, <1>6, <1>7, Recasts
<1> HIDE DEF t
<1>9. k0 <= c.width /\ Fits(c)
  <2>1. c.width \in Int /\ r.cur.width \in Int
    BY <1>2, <1>6, QuestionOf
  <2>2. \A k \in Option : c.options[k] # {} => k <= r.cur.width
    BY <1>2, <1>6 DEF Same, Fits
  <2>3. Fits(c)
    BY <1>6, <2>1, <2>2, ParserAssumption DEF Fits, Option
  <2> QED
    BY <1>6, <2>3
<1>10. OpenOK(next, t)
  <2>1. ASSUME NEW k \in Option PROVE c.options[k] \union HeldBy(next, t, k) = n.options[k]
    <3>1. c.options[k] = m.options[k]
      BY <1>2, <1>6 DEF Same
    <3>2. k \in (sh.given + 1)..(sh.given + 1) <=> k = k0
      BY <1>3, ParserAssumption DEF Option
    <3>3. CASE k = k0
      <4>1. m.options[k] = {}
        BY <1>3, <3>3
      <4>2. HeldBy(next, t, k) = B
        BY <1>5, <1>8, <3>3 DEF HeldBy, Held, place
      <4>3. n.options[k] = B
        BY <1>5, <3>2, <3>3 DEF B
      <4> QED
        BY <3>1, <4>1, <4>2, <4>3
    <3>4. CASE k # k0
      <4>1. HeldBy(next, t, k) = {}
        BY <1>8, <3>4 DEF HeldBy
      <4>2. n.options[k] = m.options[k]
        BY <1>5, <3>2, <3>4
      <4> QED
        BY <3>1, <4>1, <4>2
    <3> QED
      BY <3>3, <3>4
  <2>2. Held(t, "stem") = {} /\ Held(t, "trailing") = {} /\ Held(t, "explanation") = {} /\ Spilled(next, t) = {}
    BY <1>5, <1>8 DEF Held, Spilled, place
  <2>3. Matches(next, t, c, n)
    BY <1>2, <1>5, <1>6, <1>8, <1>9, <2>1, <2>2 DEF Matches, Same
  <2> QED
    BY <1>2, <1>5, <1>6, <1>8, <2>3 DEF OpenOK, Onward, n
<1>11. PhaseOK(next, t)
  <2>1. t.dest = "option" /\ t.at = next.given /\ t.at >= 1 /\ n.own = 0 /\ ~t.blank
    BY <1>2, <1>3, <1>5, <1>8 DEF place
  <2>2. \A k \in Option : n.options[k] # {} <=> k <= t.at
    BY <1>5, <1>8
  <2> QED
    BY <1>5, <2>1, <2>2 DEF PhaseOK, n
<1>12. LengthsOK(Append(d, l), next, t)
  <2>1. t.buf \subseteq 1..Len(Append(d, l))
    BY <1>2, <1>8 DEF B
  <2> QED
    BY <1>5, <2>1 DEF LengthsOK, n
<1>13. ReaderOK(Append(d, l), next, t)
  BY <1>2, <1>5, <1>8, <1>10, <1>11, <1>12, SameQuestion
<1> QED
  BY <1>4, <1>13 DEF next

\* f is the question c with line i added to its options from..to.
FilledFrom(f, c, i, from, to) ==
  /\ f \in Question /\ f.width >= c.width /\ f.width >= to
  /\ f.number = c.number /\ f.section = c.section /\ f.text = c.text
  /\ f.correct = c.correct /\ f.context = c.context /\ f.issues = c.issues
  /\ \A k \in Option : f.options[k] = IF k \in from..to THEN c.options[k] \union {i} ELSE c.options[k]
\* FillOptions adds the line to count options, and to nothing else.
LEMMA FillOptionsOf ==
  ASSUME NEW c \in Question, NEW i \in Nat, NEW from \in 1..OptTarget, NEW count \in Nat, count >= 1, from + count - 1 <= OptTarget
  PROVE  FilledFrom(FillOptions(c, i, from, count), c, i, from, from + count - 1)
<1> DEFINE options == [k \in Option |-> IF k \in from..(from + count - 1) THEN c.options[k] \union {i} ELSE c.options[k]]
           u == [c EXCEPT !.options = options]
           last == from + count - 1
<1>1. last \in 1..OptTarget
  BY ParserAssumption
<1>2. c.options \in [Option -> Texts] /\ c.width \in Int
  BY QuestionOf
<1>3. /\ options \in [Option -> Texts]
      /\ \A k \in Option : options[k] = IF k \in from..last THEN c.options[k] \union {i} ELSE c.options[k]
  BY <1>2 DEF Texts
<1>4. FillOptions(c, i, from, count) = Widen(u, last)
  BY DEF FillOptions
<1> HIDE DEF options
<1>5. /\ u \in Question /\ u.width = c.width /\ u.number = c.number /\ u.section = c.section /\ u.text = c.text
      /\ u.correct = c.correct /\ u.context = c.context /\ u.issues = c.issues /\ u.options = options
  BY <1>3 DEF Question
<1> HIDE DEF u, last
<1> DEFINE f == Widen(u, last)
<1>6. /\ f \in Question /\ f.width >= u.width /\ f.width >= last /\ f.number = u.number /\ f.section = u.section /\ f.text = u.text
      /\ f.options = u.options /\ f.correct = u.correct /\ f.context = u.context /\ f.issues = u.issues
  BY <1>1, <1>5, WidenOf
<1> HIDE DEF f
<1>7. /\ f \in Question /\ f.width >= c.width /\ f.width >= last
      /\ f.number = c.number /\ f.section = c.section /\ f.text = c.text
      /\ f.correct = c.correct /\ f.context = c.context /\ f.issues = c.issues
      /\ \A k \in Option : f.options[k] = IF k \in from..last THEN c.options[k] \union {i} ELSE c.options[k]
  BY <1>3, <1>5, <1>6
<1> QED
  BY <1>4, <1>7 DEF f, last, FilledFrom

\* The next options in a row.
LEMMA ReadRowLine ==
  ASSUME NEW d, NEW sh, NEW q, Ready(d, sh, q), NEW l \in Lines, l.size = 1, sh.phase \in {"stem", "options"},
         l.count >= 2, sh.given + l.count <= OptTarget, l.idx = sh.given + 1, ~l.behind
  PROVE  ReaderOK(Append(d, l), Given(sh, Len(d) + 1, l.count), ReadRow(d, q, l, Len(d) + 1))
<1> DEFINE m == Current(sh)
           r == Commit(d, q)
           i == Len(d) + 1
           k0 == sh.given + 1
           count == l.count
           last == sh.given + count
           c == FillOptions(r.cur, i, k0, count)
           place == "option"
           t == Recast(r, c, last, place, {})
           next == Given(sh, i, count)
           n == Current(next)
<1>1. ~Aside(sh)
  BY DEF Aside
<1>2. /\ r \in Parser /\ r.out = q.out /\ r.last = q.last /\ r.section = q.section /\ r.contexts = q.contexts /\ r.pending = None
      /\ r.at = q.at /\ ~r.blank /\ r.buf = {} /\ r.cur \in Question /\ Same(r.cur, m) /\ q.at <= r.cur.width
      /\ d \in Seq(Lines) /\ sh \in Sheet /\ m \in Printed /\ ReaderOK(d, sh, q)
      /\ Len(d) \in Nat /\ i \in Nat /\ Len(Append(d, l)) = i
  BY <1>1, Ends
<1>3. /\ q.at = sh.given /\ m.own = 0 /\ sh.given \in Nat /\ k0 \in 1..OptTarget /\ last \in 0..OptTarget /\ last >= 1
      /\ k0 + count - 1 = last /\ count \in Nat /\ count >= 1 /\ count > 1 /\ last <= OptTarget
      /\ \A k \in Option : m.options[k] # {} <=> k <= sh.given
  <2>1. q.at = sh.given /\ m.own = 0 /\ sh.given \in Nat /\ \A k \in Option : m.options[k] # {} <=> k <= sh.given
    BY Wants
  <2>2. count \in Nat
    BY DEF Lines
  <2>3. count >= 1 /\ count > 1 /\ k0 + count - 1 = last /\ last >= 1 /\ last <= OptTarget /\ k0 \in 1..OptTarget /\ last \in 0..OptTarget
    <3> HIDE DEF r
    <3> QED
      BY <2>1, <2>2, ParserAssumption
  <2> QED
    BY <2>1, <2>2, <2>3
<1>4. ReadRow(d, q, l, i) = t
  <2>1. Min({l.idx + l.count - 1, OptTarget}) = last
    <3>1. l.idx + l.count - 1 = last /\ last \in Int /\ OptTarget \in Int
      BY <1>3, ParserAssumption
    <3> HIDE DEF last
    <3>2. Min({last, OptTarget}) = last
      BY <1>3, <3>1, MinOfTwo
    <3> QED
      BY <3>1, <3>2
  <2>2. ~(l.idx > OptTarget) /\ ~(l.idx = 1 /\ q.at >= OptTarget)
    BY <1>3, ParserAssumption
  <2>3. ReadRow(d, q, l, i) = [r EXCEPT !.cur = FillOptions(r.cur, i, l.idx, l.count), !.dest = "option",
                                        !.at = Min({l.idx + l.count - 1, OptTarget})]
    BY <2>2 DEF ReadRow
  <2>4. ReadRow(d, q, l, i) = [r EXCEPT !.cur = c, !.dest = "option", !.at = last]
    BY <2>1, <2>3
  <2> HIDE DEF r, c, last
  <2>5. [r EXCEPT !.cur = c, !.dest = "option", !.at = last] = t
    BY <1>2 DEF Recast, Parser
  <2> QED
    BY <2>4, <2>5
<1>5. /\ Onward(sh, next) /\ next.phase = "options" /\ next.given = last
      /\ n \in Printed /\ n.stem = m.stem /\ n.number = m.number /\ n.section = m.section /\ n.trailing = m.trailing
      /\ n.explanation = m.explanation /\ n.own = m.own /\ n.issues = m.issues
      /\ \A k \in Option : n.options[k] = IF k \in k0..last THEN {i} ELSE m.options[k]
      /\ \A k \in Option : n.options[k] # {} <=> k <= last
      /\ Short(Append(d, l), n) /\ Size(Append(d, l), n.options[last]) <= 1
  <2> HIDE DEF count
  <2>1. count \in Nat /\ count >= 1 /\ sh.given + count <= OptTarget
    BY <1>3
  <2>2. LET w == Given(sh, i, count) u == Current(w) IN
           /\ Onward(sh, w) /\ w.phase = "options" /\ w.given = sh.given + count /\ (w.packed => count > 1)
           /\ u \in Printed /\ u.stem = m.stem /\ u.number = m.number /\ u.section = m.section /\ u.trailing = m.trailing
           /\ u.explanation = m.explanation /\ u.own = m.own /\ u.issues = m.issues
           /\ \A k \in Option : u.options[k] = IF k \in (sh.given + 1)..(sh.given + count) THEN {i} ELSE m.options[k]
           /\ \A k \in Option : u.options[k] # {} <=> k <= sh.given + count
           /\ Short(Append(d, l), u) /\ Size(Append(d, l), u.options[sh.given + count]) <= 1
    BY <2>1, Gives
  <2> QED
    BY <2>2
<1> HIDE DEF m, r, n, next, count, last, k0
<1>6. /\ c \in Question /\ c.width >= r.cur.width /\ c.width >= last
      /\ c.number = r.cur.number /\ c.section = r.cur.section /\ c.text = r.cur.text
      /\ c.correct = r.cur.correct /\ c.context = r.cur.context /\ c.issues = r.cur.issues
      /\ \A k \in Option : c.options[k] = IF k \in k0..last THEN r.cur.options[k] \union {i} ELSE r.cur.options[k]
  <2> HIDE DEF i
  <2> DEFINE end == k0 + count - 1
  <2>1. r.cur \in Question /\ i \in Nat /\ k0 \in 1..OptTarget /\ count \in Nat /\ count >= 1 /\ k0 + count - 1 <= OptTarget
    BY <1>2, <1>3
  <2>2. FilledFrom(c, r.cur, i, k0, end)
    BY <2>1, FillOptionsOf DEF c
  <2>3. end = last
    BY <1>3
  <2> HIDE DEF end, c
  <2> QED
    BY <2>2, <2>3 DEF FilledFrom
<1>7. {} \in Texts /\ place \in Dests
  BY DEF Texts, Dests
<1> HIDE DEF c, place
<1>8. /\ t \in Parser /\ t.out = r.out /\ t.last = r.last /\ t.section = r.section /\ t.contexts = r.contexts
      /\ t.pending = r.pending /\ t.blank = r.blank /\ t.cur = c /\ t.at = last /\ t.dest = place /\ t.buf = {}
  BY <1>2, <1>3, <1>6, <1>7, Recasts
<1> HIDE DEF t
<1>9. c.options = n.options
  <2>1. ASSUME NEW k \in Option PROVE c.options[k] = n.options[k]
    <3>1. r.cur.options[k] = m.options[k]
      BY <1>2 DEF Same
    <3>2. CASE k \in k0..last
      <4>1. m.options[k] = {}
        BY <1>3, <3>2, ParserAssumption DEF k0, Option
      <4> QED
        BY <1>5, <1>6, <3>1, <3>2, <4>1
    <3>3. CASE k \notin k0..last
      BY <1>5, <1>6, <3>1, <3>3
    <3> QED
      BY <3>2, <3>3
  <2>2. c.options \in [Option -> Texts] /\ n.options \in [Option -> Texts]
    BY <1>5, <1>6, QuestionOf, PrintedOf
  <2> QED
    BY <2>1, <2>2
<1>10. Fits(c)
  <2>1. c.width \in Int /\ last \in Int
    BY <1>3, <1>6, QuestionOf
  <2>2. \A k \in Option : c.options[k] # {} => k <= last
    BY <1>5, <1>9
  <2> QED
    BY <1>6, <2>1, <2>2, ParserAssumption DEF Fits, Option
<1>11. Same(t.cur, n) /\ t.at <= t.cur.width
  <2>1. last <= c.width
    BY <1>3, <1>6, QuestionOf
  <2> QED
    BY <1>2, <1>5, <1>6, <1>8, <1>9, <1>10, <2>1 DEF Same
<1>12. OpenOK(next, t)
  BY <1>2, <1>5, <1>6, <1>8, <1>11, NothingHeld DEF OpenOK, Onward, n
<1>13. PhaseOK(next, t)
  <2>1. t.dest = "option" /\ t.at = next.given /\ t.at >= 1 /\ n.own = 0 /\ ~t.blank
    BY <1>2, <1>3, <1>5, <1>8 DEF place
  <2>2. \A k \in Option : n.options[k] # {} <=> k <= t.at
    BY <1>5, <1>8
  <2>3. \A k \in 1..t.at : t.cur.options[k] # {}
    <3>1. \A k \in 1..last : k \in Option /\ k <= last
      BY <1>3, ParserAssumption DEF Option
    <3> QED
      BY <1>5, <1>8, <1>9, <3>1
  <2> QED
    BY <1>5, <2>1, <2>2, <2>3 DEF PhaseOK, n
<1>14. LengthsOK(Append(d, l), next, t)
  BY <1>5, <1>8 DEF LengthsOK, n
<1>15. ReaderOK(Append(d, l), next, t)
  BY <1>2, <1>5, <1>8, <1>12, <1>13, <1>14, SameQuestion
<1> QED
  BY <1>4, <1>15 DEF next, count

\* Statements were labelled like options; the choices replace them.
LEMMA ReadChoices ==
  ASSUME NEW d, NEW sh, NEW q, Ready(d, sh, q), NEW l \in Lines, l.size = 1, sh.phase = "options", sh.given = OptTarget,
         l.count = OptTarget, l.idx = 1, ~l.behind
  PROVE  ReaderOK(Append(d, l), [sh EXCEPT !.packed = TRUE, !.qs[Len(sh.qs)].options = [k \in Option |-> {Len(d) + 1}],
                                           !.qs[Len(sh.qs)].issues = @ \union {"replaced"}],
                  ReadRow(d, q, l, Len(d) + 1))
<1> DEFINE m == Current(sh)
           r == Commit(d, q)
           i == Len(d) + 1
           B == {i}
           none == [k \in Option |-> {}]
           bare == [r.cur EXCEPT !.options = none]
           b == AddIssue(bare, "replaced")
           c == FillOptions(b, i, 1, OptTarget)
           place == "option"
           t == Recast(r, c, OptTarget, place, {})
           options == [k \in Option |-> B]
           issues == m.issues \union {"replaced"}
           n == [m EXCEPT !.options = options, !.issues = issues]
           next == Redraw(sh, n, sh.phase, sh.given, TRUE)
<1>1. ~Aside(sh)
  BY DEF Aside
<1>2. /\ r \in Parser /\ r.out = q.out /\ r.last = q.last /\ r.section = q.section /\ r.contexts = q.contexts /\ r.pending = None
      /\ r.at = q.at /\ ~r.blank /\ r.buf = {} /\ r.cur \in Question /\ Same(r.cur, m) /\ q.at <= r.cur.width
      /\ d \in Seq(Lines) /\ sh \in Sheet /\ sh.qs # <<>> /\ m \in Printed /\ ReaderOK(d, sh, q)
      /\ Len(d) \in Nat /\ i \in Nat /\ Len(Append(d, l)) = i /\ sh.given \in 0..OptTarget
  BY <1>1, Ends
<1>3. q.at = OptTarget /\ m.own = 0 /\ OptTarget \in Nat /\ OptTarget >= 2 /\ OptTarget \in 0..OptTarget /\ 1 \in 1..OptTarget
  BY Wants, ParserAssumption
<1>4. [sh EXCEPT !.packed = TRUE, !.qs[Len(sh.qs)].options = [k \in Option |-> {Len(d) + 1}],
                 !.qs[Len(sh.qs)].issues = @ \union {"replaced"}] = next
  <2>1. sh.qs \in Seq(Printed) /\ Len(sh.qs) \in 1..Len(sh.qs) /\ m = sh.qs[Len(sh.qs)]
    BY <1>2, SheetOf, CurrentOf
  <2> DEFINE half == [m EXCEPT !.options = options]
             qs == [sh.qs EXCEPT ![Len(sh.qs)] = half]
             more == [sh EXCEPT !.packed = TRUE, !.qs = qs]
  <2>2. [sh EXCEPT !.packed = TRUE, !.qs[Len(sh.qs)].options = options] = more
    BY <1>2, <2>1 DEF Sheet
  <2>3. [half EXCEPT !.issues = @ \union {"replaced"}] = n
    BY <1>2 DEF Printed
  <2> HIDE DEF half, n, m
  <2>4. qs[Len(sh.qs)] = half /\ [qs EXCEPT ![Len(sh.qs)] = n] = [sh.qs EXCEPT ![Len(sh.qs)] = n]
    BY <2>1
  <2> HIDE DEF qs
  <2>5. more.qs = qs /\ [more EXCEPT !.qs = [sh.qs EXCEPT ![Len(sh.qs)] = n]] = next
    BY <1>2 DEF Sheet, Redraw
  <2> HIDE DEF more, next
  <2>6. [sh EXCEPT !.packed = TRUE, !.qs[Len(sh.qs)].options = [k \in Option |-> {Len(d) + 1}],
                 !.qs[Len(sh.qs)].issues = @ \union {"replaced"}]
          = [more EXCEPT !.qs[Len(sh.qs)].issues = @ \union {"replaced"}]
    BY <2>2
  <2> QED
    BY <2>3, <2>4, <2>5, <2>6
<1>5. ReadRow(d, q, l, i) = t
  <2>1. Min({l.idx + l.count - 1, OptTarget}) = OptTarget
    <3>1. l.idx + l.count - 1 = OptTarget
      BY <1>3
    <3>2. Min({OptTarget, OptTarget}) = OptTarget
      BY <1>3, MinOfTwo
    <3> QED
      BY <3>1, <3>2
  <2>2. ~(l.idx > OptTarget) /\ l.idx = 1 /\ q.at >= OptTarget
    BY <1>3
  <2>3. ReadRow(d, q, l, i) = [r EXCEPT !.cur = FillOptions(b, i, l.idx, l.count), !.dest = "option",
                                        !.at = Min({l.idx + l.count - 1, OptTarget})]
    BY <2>2 DEF ReadRow
  <2>4. ReadRow(d, q, l, i) = [r EXCEPT !.cur = c, !.dest = "option", !.at = OptTarget]
    BY <2>1, <2>3
  <2> HIDE DEF r, c
  <2>5. [r EXCEPT !.cur = c, !.dest = "option", !.at = OptTarget] = t
    BY <1>2 DEF Recast, Parser
  <2> QED
    BY <2>4, <2>5
<1> HIDE DEF m, r
<1>6. B \in Texts /\ none \in [Option -> Texts] /\ options \in [Option -> Texts] /\ issues \in SUBSET Issues /\ B # {}
      /\ (\A k \in Option : none[k] = {}) /\ \A k \in Option : options[k] = B
  <2>1. m.issues \in SUBSET Issues /\ "replaced" \in Issues
    BY <1>2, PrintedOf DEF Issues
  <2>2. B \in Texts /\ {} \in Texts
    BY <1>2 DEF Texts
  <2> QED
    BY <2>1, <2>2
<1> HIDE DEF none, options, B
<1>7. /\ b \in Question /\ b.width = r.cur.width /\ b.number = r.cur.number /\ b.section = r.cur.section /\ b.text = r.cur.text
      /\ b.correct = r.cur.correct /\ b.context = r.cur.context /\ b.options = none /\ b.issues = issues
  <2>1. /\ bare \in Question /\ bare.width = r.cur.width /\ bare.number = r.cur.number /\ bare.section = r.cur.section
        /\ bare.text = r.cur.text /\ bare.correct = r.cur.correct /\ bare.context = r.cur.context /\ bare.options = none
        /\ bare.issues = r.cur.issues
    BY <1>2, <1>6 DEF Question
  <2> HIDE DEF bare
  <2>2. bare.issues \union {"replaced"} = issues
    BY <1>2, <2>1 DEF Same
  <2>3. b = [bare EXCEPT !.issues = issues]
    BY <2>2 DEF AddIssue
  <2> HIDE DEF b, issues
  <2> QED
    BY <1>6, <2>1, <2>3 DEF Question
<1> HIDE DEF b, issues
<1>8. /\ c \in Question /\ c.width >= b.width /\ c.width >= OptTarget
      /\ c.number = b.number /\ c.section = b.section /\ c.text = b.text
      /\ c.correct = b.correct /\ c.context = b.context /\ c.issues = b.issues
      /\ \A k \in Option : c.options[k] = B
  <2> DEFINE one == 1
             end == one + OptTarget - 1
  <2>1. one \in 1..OptTarget /\ end = OptTarget /\ OptTarget >= 1 /\ end <= OptTarget
    BY <1>3
  <2> HIDE DEF one, i
  <2>2. b \in Question /\ i \in Nat /\ one \in 1..OptTarget /\ OptTarget \in Nat /\ OptTarget >= 1 /\ one + OptTarget - 1 <= OptTarget
    BY <1>2, <1>3, <1>7, <2>1
  <2>3. FilledFrom(FillOptions(b, i, one, OptTarget), b, i, one, end)
    BY <2>2, FillOptionsOf
  <2> HIDE DEF end
  <2>4. c = FillOptions(b, i, one, OptTarget)
    BY DEF one
  <2> HIDE DEF c
  <2>5. ASSUME NEW k \in Option PROVE c.options[k] = B
    <3>1. k \in one..end
      BY <2>1 DEF one, Option
    <3>2. c.options[k] = b.options[k] \union {i}
      BY <2>3, <2>4, <3>1 DEF FilledFrom
    <3>3. b.options[k] = {}
      BY <1>6, <1>7
    <3> QED
      BY <3>2, <3>3 DEF B
  <2> QED
    BY <2>1, <2>3, <2>4, <2>5 DEF FilledFrom
<1>9. {} \in Texts /\ place \in Dests
  BY DEF Texts, Dests
<1> HIDE DEF c, place
<1>10. /\ t \in Parser /\ t.out = r.out /\ t.last = r.last /\ t.section = r.section /\ t.contexts = r.contexts
      /\ t.pending = r.pending /\ t.blank = r.blank /\ t.cur = c /\ t.at = OptTarget /\ t.dest = place /\ t.buf = {}
  BY <1>2, <1>3, <1>8, <1>9, Recasts
<1> HIDE DEF t
<1>11. /\ n \in Printed /\ n.stem = m.stem /\ n.number = m.number /\ n.section = m.section /\ n.trailing = m.trailing
       /\ n.explanation = m.explanation /\ n.own = m.own /\ n.options = options /\ n.issues = issues /\ n.govs = m.govs
  BY <1>2, <1>6 DEF Printed
<1> HIDE DEF n
<1>12. Onward(sh, next) /\ Current(next) = n /\ next.phase = "options" /\ next.given = OptTarget
  <2>1. sh.phase \in Phases /\ sh.phase \notin {"front", "preamble"} /\ TRUE \in BOOLEAN
    BY DEF Phases
  <2>2. n.number = Current(sh).number /\ n.govs = Current(sh).govs
    BY <1>11 DEF m
  <2> DEFINE packed == TRUE
  <2>3. packed \in BOOLEAN
    OBVIOUS
  <2> HIDE DEF packed
  <2>4. LET w == Redraw(sh, n, sh.phase, sh.given, packed) IN
          Onward(sh, w) /\ Current(w) = n /\ w.phase = sh.phase /\ w.given = sh.given
    BY <1>1, <1>2, <1>11, <2>1, <2>2, <2>3, Redrawn
  <2> QED
    BY <2>4 DEF packed
<1> HIDE DEF next
<1>13. c.options = n.options /\ Fits(c)
  <2>1. c.options \in [Option -> Texts] /\ n.options \in [Option -> Texts] /\ c.width \in Int
    BY <1>8, <1>11, QuestionOf, PrintedOf
  <2>2. \A k \in Option : c.options[k] = n.options[k]
    BY <1>6, <1>8, <1>11
  <2>3. Fits(c)
    BY <1>3, <1>8, <2>1 DEF Fits, Option
  <2> QED
    BY <2>1, <2>2, <2>3
<1>14. Same(t.cur, n) /\ t.at <= t.cur.width
  <2>1. OptTarget <= c.width
    BY <1>3, <1>8, QuestionOf
  <2> QED
    BY <1>2, <1>7, <1>8, <1>10, <1>11, <1>13, <2>1 DEF Same
<1>15. OpenOK(next, t)
  BY <1>2, <1>8, <1>10, <1>12, <1>14, NothingHeld DEF OpenOK, Onward
<1>16. PhaseOK(next, t)
  <2>1. t.dest = "option" /\ t.at = next.given /\ t.at >= 1 /\ n.own = 0 /\ ~t.blank
    BY <1>2, <1>3, <1>10, <1>11, <1>12 DEF place
  <2>2. \A k \in Option : n.options[k] # {} /\ k <= OptTarget /\ t.cur.options[k] # {}
    BY <1>3, <1>6, <1>10, <1>11, <1>13 DEF Option
  <2>3. 1..t.at = Option
    BY <1>10 DEF Option
  <2> QED
    BY <1>10, <1>12, <2>1, <2>2, <2>3 DEF PhaseOK
<1>17. LengthsOK(Append(d, l), next, t)
  <2>1. Size(Append(d, l), B) = 1
    <3>1. {} \subseteq 1..Len(d) /\ B = {} \union {Len(d) + 1}
      BY DEF B
    <3>2. Size(Append(d, l), B) = Size(d, {}) + l.size
      BY <1>2, <3>1, SizeGrows
    <3>3. Size(d, {}) = 0
      BY <1>2, SizeNothing
    <3> QED
      BY <3>2, <3>3
  <2>2. B \subseteq 1..Len(Append(d, l))
    BY <1>2 DEF B
  <2>3. \A k \in Option : n.options[k] = B
    BY <1>6, <1>11
  <2>4. Short(Append(d, l), n)
    <3>1. \A k \in Option : n.options[k] \subseteq 1..Len(Append(d, l))
      BY <2>2, <2>3
    <3>2. \A k \in Option : Size(Append(d, l), n.options[k]) <= 2
      BY <2>1, <2>3
    <3> QED
      BY <3>1, <3>2 DEF Short
  <2>5. OptTarget \in Option
    BY <1>3 DEF Option
  <2>6. Size(Append(d, l), n.options[OptTarget]) <= 1
    BY <2>1, <2>3, <2>5
  <2> QED
    BY <1>10, <1>12, <2>4, <2>6 DEF LengthsOK
<1>18. ReaderOK(Append(d, l), next, t)
  BY <1>2, <1>10, <1>12, <1>15, <1>16, <1>17, SameQuestion
<1> QED
  BY <1>4, <1>5, <1>18

-----------------------------------------------------------------------------
\* Closing a question or a preamble.

\* Nothing is being read, and every question printed has been filed.
Shut(sh, q, r) ==
  /\ r \in Parser /\ r.cur = None /\ r.at = 0 /\ r.dest = "stem" /\ r.buf = {} /\ r.pending = None
  /\ r.last = q.last /\ r.section = q.section /\ r.blank = q.blank
  /\ Len(r.out) = Len(sh.qs) /\ \A j \in 1..Len(sh.qs) : Same(r.out[j], sh.qs[j])

\* A question that has every option is filled and complete.
LEMMA FilledOf ==
  ASSUME NEW c, \A k \in Option : c.options[k] # {}
  PROVE  Filled(c) = OptTarget /\ Filled(c) >= MinOptions
<1>1. {k \in Option : c.options[k] # {}} = 1..OptTarget
  BY DEF Option
<1>2. Cardinality(1..OptTarget) = OptTarget
  BY FS_Interval, ParserAssumption
<1>3. OptTarget >= MinOptions
  BY ParserAssumption
<1> QED
  BY <1>1, <1>2, <1>3 DEF Filled

\* Closing files the question being read, as it was printed.
LEMMA ClosesOpen ==
  ASSUME NEW d, NEW sh, NEW q, ReaderOK(d, sh, q), ~Aside(sh)
  PROVE  LET r == CloseQuestion(d, q) IN
           /\ Shut(sh, q, r) /\ r.contexts = q.contexts
           /\ (\A k \in Option : Current(sh).options[k] # {}) => r.complete
<1> DEFINE m == Current(sh)
           s == Commit(d, q)
           enough == Filled(s.cur) >= MinOptions
           out == Append(s.out, s.cur)
           r == [s EXCEPT !.complete = enough, !.out = out, !.cur = None, !.at = 0, !.dest = "stem"]
<1>1. q \in Parser /\ sh \in Sheet /\ sh.qs # <<>> /\ m \in Printed /\ FiledOK(sh, q)
  BY OpenFacts DEF ReaderOK
<1>2. /\ s \in Parser /\ Rest(s, q) /\ s.buf = {} /\ s.pending = None /\ s.cur \in Question /\ s.cur # None /\ Same(s.cur, m)
  BY Committed, QuestionIsOpen
<1>3. CloseQuestion(d, q) = r
  BY <1>2 DEF CloseQuestion
<1> HIDE DEF s
<1>4. enough \in BOOLEAN /\ s.out \in Seq(Question) /\ 0 \in 0..OptTarget /\ "stem" \in Dests
  BY <1>2, ParserOf, ParserAssumption DEF Dests, Parts
<1>5. /\ out \in Seq(Question) /\ Len(out) = Len(s.out) + 1 /\ out[Len(s.out) + 1] = s.cur
      /\ \A j \in 1..Len(s.out) : out[j] = s.out[j]
  BY <1>2, <1>4
<1> HIDE DEF out, enough
<1>6. /\ r \in Parser /\ r.cur = None /\ r.at = 0 /\ r.dest = "stem" /\ r.buf = {} /\ r.pending = None
      /\ r.last = q.last /\ r.section = q.section /\ r.blank = q.blank /\ r.contexts = q.contexts /\ r.out = out
  BY <1>2, <1>4, <1>5 DEF Parser, Rest
<1>7. r.complete = enough
  BY <1>2 DEF Parser
<1> HIDE DEF r
<1>8. Len(s.out) = Len(sh.qs) - 1 /\ Len(sh.qs) \in Nat /\ \A j \in 1..Len(s.out) : Same(s.out[j], sh.qs[j])
  BY <1>1, <1>2, SheetOf DEF FiledOK, Rest
<1>9. Len(out) = Len(sh.qs)
  BY <1>5, <1>8
<1>10. ASSUME NEW j \in 1..Len(sh.qs) PROVE Same(out[j], sh.qs[j])
  <2>1. CASE j = Len(sh.qs)
    <3>1. Len(s.out) + 1 = j
      BY <1>8, <2>1
    <3>2. out[j] = s.cur /\ sh.qs[j] = m
      BY <1>5, <2>1, <3>1 DEF Current
    <3> QED
      BY <1>2, <3>2
  <2>2. CASE j # Len(sh.qs)
    <3>1. j \in 1..Len(s.out)
      BY <1>8, <2>2
    <3> QED
      BY <1>5, <1>8, <3>1
  <2> QED
    BY <2>1, <2>2
<1>11. Shut(sh, q, r)
  BY <1>6, <1>9, <1>10 DEF Shut
<1>12. (\A k \in Option : m.options[k] # {}) => r.complete
  <2> SUFFICES ASSUME \A k \in Option : m.options[k] # {} PROVE enough
    BY <1>7
  <2>1. \A k \in Option : s.cur.options[k] # {}
    BY <1>2 DEF Same
  <2> QED
    BY <2>1, FilledOf DEF enough
<1> QED
  BY <1>3, <1>6, <1>11, <1>12 DEF r

\* In the front matter there is nothing to close.
LEMMA ClosesNothing ==
  ASSUME NEW d, NEW sh, NEW q, ReaderOK(d, sh, q), sh.phase = "front"
  PROVE  CloseQuestion(d, q) = q /\ Shut(sh, q, q) /\ (sh.qs # <<>> => q.complete)
<1>1. /\ q \in Parser /\ q.cur = None /\ q.dest = "stem" /\ q.buf = {} /\ q.pending = None /\ q.at = 0 /\ sh \in Sheet
  BY DEF ReaderOK, Typed, PhaseOK
<1>2. Commit(d, q) = q
  BY <1>1, CommitNothing
<1>3. CloseQuestion(d, q) = [q EXCEPT !.at = 0, !.dest = "stem"]
  BY <1>1, <1>2 DEF CloseQuestion
<1>4. CloseQuestion(d, q) = q
  <2>1. [q EXCEPT !.at = 0] = q
    BY <1>1 DEF Parser
  <2>2. [q EXCEPT !.dest = "stem"] = q
    BY <1>1 DEF Parser
  <2>3. [q EXCEPT !.at = 0, !.dest = "stem"] = [[q EXCEPT !.at = 0] EXCEPT !.dest = "stem"]
    OBVIOUS
  <2> QED
    BY <1>3, <2>1, <2>2, <2>3
<1>5. Len(q.out) = Len(sh.qs) /\ \A j \in 1..Len(sh.qs) : Same(q.out[j], sh.qs[j])
  <2>1. Aside(sh) /\ Len(sh.qs) \in Nat
    BY <1>1, SheetOf DEF Aside
  <2> QED
    BY <2>1 DEF ReaderOK, FiledOK
<1>6. sh.qs # <<>> => q.complete
  BY DEF ReaderOK, NumbersOK, Aside
<1> QED
  BY <1>1, <1>4, <1>5, <1>6 DEF Shut

\* Outside a preamble there is none to close.
LEMMA Closes ==
  ASSUME NEW d, NEW sh, NEW q, ReaderOK(d, sh, q), sh.phase # "preamble"
  PROVE  LET r == CloseQuestion(d, q) IN
           /\ Shut(sh, q, r) /\ r.contexts = q.contexts
           /\ (sh.phase = "front" \/ \A k \in Option : Current(sh).options[k] # {}) /\ sh.qs # <<>> => r.complete
           /\ \A n : CloseContext(d, r, n) = r /\ CloseQuestion(d, CloseContext(d, q, n)) = r
<1> DEFINE r == CloseQuestion(d, q)
<1>1. /\ Shut(sh, q, r) /\ r.contexts = q.contexts
      /\ (sh.phase = "front" \/ \A k \in Option : Current(sh).options[k] # {}) /\ sh.qs # <<>> => r.complete
  <2>1. CASE sh.phase = "front"
    BY <2>1, ClosesNothing
  <2>2. CASE sh.phase # "front"
    BY <2>2, ClosesOpen DEF Aside
  <2> QED
    BY <2>1, <2>2
<1>2. Commit(d, q).buf = {} /\ Commit(d, q).pending = None
  <2>1. CASE sh.phase = "front"
    <3>1. q.buf = {} /\ q.pending = None
      BY <2>1 DEF ReaderOK, PhaseOK
    <3> QED
      BY <3>1, CommitNothing
  <2>2. CASE sh.phase # "front"
    BY <2>2, Committed DEF Aside
  <2> QED
    BY <2>1, <2>2
<1>3. ASSUME NEW n PROVE CloseQuestion(d, CloseContext(d, q, n)) = r
  <2>1. CloseContext(d, q, n) = Commit(d, q)
    BY <1>2 DEF CloseContext
  <2>2. Commit(d, Commit(d, q)) = Commit(d, q)
    BY <1>2, CommitNothing
  <2> QED
    BY <2>1, <2>2 DEF CloseQuestion
<1> HIDE DEF r
<1>4. ASSUME NEW n PROVE CloseContext(d, r, n) = r
  <2>1. Commit(d, r) = r /\ r.pending = None
    BY <1>1, CommitNothing DEF Shut
  <2> QED
    BY <2>1 DEF CloseContext
<1> QED
  BY <1>1, <1>3, <1>4 DEF r

\* What sealing leaves: only an open end that lies behind is set.
Sealed(s, C, upto) ==
  /\ s \in Seq(Context) /\ Len(s) = Len(C)
  /\ \A g \in 1..Len(C) : /\ s[g].text = C[g].text /\ s[g].from = C[g].from /\ s[g].explicit = C[g].explicit /\ s[g].capped = C[g].capped
                          /\ s[g].to = IF C[g].to = 0 /\ C[g].from <= upto THEN upto ELSE C[g].to
\* Seal closes the open preambles at the number before, and only those.
LEMMA SealOf ==
  ASSUME NEW C \in Seq(Context), NEW upto \in Nat
  PROVE  Sealed(Seal(C, upto), C, upto)
<1> DEFINE end(c) == IF c.to = 0 /\ c.from <= upto THEN [c EXCEPT !.to = upto] ELSE c
           s == Seal(C, upto)
<1>1. s = [i \in 1..Len(C) |-> end(C[i])]
  BY DEF Seal
<1>2. \A c \in Context : end(c) \in Context
  BY DEF Context
<1>3. \A c \in Context : /\ end(c).text = c.text /\ end(c).from = c.from /\ end(c).explicit = c.explicit /\ end(c).capped = c.capped
                         /\ end(c).to = IF c.to = 0 /\ c.from <= upto THEN upto ELSE c.to
  BY DEF Context
<1> HIDE DEF end, s
<1>4. \A i \in 1..Len(C) : C[i] \in Context
  BY ElementOfSeq
<1>5. s \in Seq(Context) /\ Len(s) = Len(C)
  BY <1>1, <1>2, <1>4
<1>6. \A g \in 1..Len(C) : s[g] = end(C[g])
  BY <1>1
<1> QED
  BY <1>3, <1>4, <1>5, <1>6 DEF Sealed, s

\* A preamble that waits for its first question, closed at question n.
LEMMA CommitWaitingText ==
  ASSUME NEW d, NEW sh, NEW q, ReaderOK(d, sh, q), sh.phase = "preamble"
  PROVE  LET r == Commit(d, q) v == sh.govs[Len(sh.govs)] c == r.pending IN
           /\ r \in Parser /\ Rest(r, q) /\ r.buf = {} /\ r.cur = None /\ q.at = 0 /\ q.pending \in Context
           /\ c \in Context /\ c.text = v.text /\ v.text # {} /\ c.from = v.from /\ c.to = v.to /\ c.explicit = v.explicit /\ ~c.capped
<1>1. q \in Parser /\ q.cur = None /\ q.dest = "context" /\ q.at = 0
  BY DEF ReaderOK, Typed, PhaseOK
<1>2. Awaited(sh, q)
  BY DEF ReaderOK, ContextsOK
<1>3. q.pending \in Context
  BY <1>2 DEF Awaited
<1> DEFINE r == Commit(d, q)
<1>4. /\ r \in Parser /\ Rest(r, q) /\ r.buf = {} /\ r.cur = q.cur /\ r.pending \in Context
      /\ r.pending.text = q.pending.text \union q.buf /\ r.pending.from = q.pending.from /\ r.pending.to = q.pending.to
      /\ r.pending.explicit = q.pending.explicit /\ r.pending.capped = q.pending.capped
  BY <1>1, <1>3, CommitPending
<1> HIDE DEF r
<1>5. LET v == sh.govs[Len(sh.govs)] c == r.pending IN
        /\ r \in Parser /\ Rest(r, q) /\ r.buf = {} /\ r.cur = None /\ q.at = 0 /\ q.pending \in Context
        /\ c \in Context /\ c.text = v.text /\ v.text # {} /\ c.from = v.from /\ c.to = v.to /\ c.explicit = v.explicit /\ ~c.capped
  BY <1>1, <1>2, <1>3, <1>4 DEF Awaited
<1> QED
  BY <1>5 DEF r
Taken(C, q, v, n) ==
  LET L == Len(q.contexts) f == IF v.from = 0 THEN n ELSE v.from c == C[L + 1] IN
    /\ Len(C) = L + 1 /\ c.text = v.text /\ c.from = f /\ c.to = v.to /\ c.explicit = v.explicit /\ ~c.capped
    /\ \E s : (IF f > 1 THEN Sealed(s, q.contexts, f - 1) ELSE s = q.contexts) /\ \A g \in 1..L : C[g] = s[g]
\* The first question's number closes the preamble that waits and takes it.
LEMMA ClosesPreamble ==
  ASSUME NEW d, NEW sh, NEW q, ReaderOK(d, sh, q), sh.phase = "preamble", NEW n \in Nat, n >= 1
  PROVE  LET r == CloseQuestion(d, CloseContext(d, q, n)) IN
           Shut(sh, q, r) /\ r.complete = q.complete /\ Taken(r.contexts, q, sh.govs[Len(sh.govs)], n)
<1> DEFINE v == sh.govs[Len(sh.govs)]
           L == Len(q.contexts)
           f == IF v.from = 0 THEN n ELSE v.from
           t == Commit(d, q)
           c == [t.pending EXCEPT !.from = f]
           s == IF f > 1 THEN Seal(q.contexts, f - 1) ELSE q.contexts
           u == [t EXCEPT !.pending = None]
           w == [u EXCEPT !.contexts = Append(s, c)]
           x == [w EXCEPT !.at = 0]
           r == [x EXCEPT !.dest = "stem"]
<1>1. /\ t \in Parser /\ Rest(t, q) /\ t.buf = {} /\ t.cur = None /\ q.at = 0 /\ t.pending \in Context /\ t.pending.text = v.text /\ v.text # {}
      /\ t.pending.from = v.from /\ t.pending.to = v.to /\ t.pending.explicit = v.explicit /\ ~t.pending.capped
  BY CommitWaitingText
<1> HIDE DEF t, v
<1>2. f \in Nat /\ f >= 1 /\ q.contexts \in Seq(Context) /\ L \in Nat /\ t.pending # None
  <2>1. v.from \in Nat
    BY <1>1 DEF Context
  <2>2. q \in Parser
    BY DEF ReaderOK, Typed
  <2> QED
    BY <1>1, <2>1, <2>2, ParserOf, ContextIsOpen
<1> HIDE DEF f
<1>3. c \in Context /\ c.text = v.text /\ c.from = f /\ c.to = v.to /\ c.explicit = v.explicit /\ ~c.capped
  BY <1>1, <1>2 DEF Context
<1>4. (IF f > 1 THEN Sealed(s, q.contexts, f - 1) ELSE s = q.contexts) /\ s \in Seq(Context) /\ Len(s) = L
  <2>1. CASE f > 1
    <3>1. f - 1 \in Nat
      BY <1>2, <2>1
    <3> QED
      BY <1>2, <2>1, <3>1, SealOf DEF Sealed
  <2>2. CASE ~(f > 1)
    BY <1>2, <2>2
  <2> QED
    BY <2>1, <2>2
<1>5. CloseContext(d, q, n) = w
  <2>1. [t.pending EXCEPT !.from = IF @ = 0 THEN n ELSE @] = c
    BY <1>1 DEF f
  <2>2. c.text # {}
    BY <1>1, <1>3
  <2>3. \A e : e = [t.pending EXCEPT !.from = IF @ = 0 THEN n ELSE @]
                => CloseContext(d, q, n) = [t EXCEPT !.pending = None, !.contexts = IF e.text = {} THEN @ ELSE
                                              Append(IF e.from > 1 THEN Seal(@, e.from - 1) ELSE @, e)]
    BY <1>2 DEF CloseContext, t
  <2> HIDE DEF c
  <2>4. CloseContext(d, q, n) = [t EXCEPT !.pending = None, !.contexts = IF c.text = {} THEN @ ELSE
                                   Append(IF c.from > 1 THEN Seal(@, c.from - 1) ELSE @, c)]
    BY <2>1, <2>3
  <2>5. t.contexts = q.contexts /\ u.contexts = t.contexts
    BY <1>1 DEF Rest, Parser
  <2>6. [t EXCEPT !.pending = None, !.contexts = IF c.text = {} THEN @ ELSE
                                   Append(IF c.from > 1 THEN Seal(@, c.from - 1) ELSE @, c)]
        = [u EXCEPT !.contexts = Append(IF c.from > 1 THEN Seal(q.contexts, c.from - 1) ELSE q.contexts, c)]
    BY <1>1, <2>2, <2>5 DEF Parser
  <2> QED
    BY <1>3, <2>4, <2>6
<1> DEFINE A == Append(s, c)
<1>6. A \in Seq(Context) /\ Len(A) = L + 1 /\ A[L + 1] = c /\ \A g \in 1..L : A[g] = s[g]
  BY <1>2, <1>3, <1>4
<1> HIDE DEF s, c
<1>7. CloseQuestion(d, w) = r
  <2>1. w.buf = {} /\ w.cur = None
    BY <1>1 DEF Parser
  <2>2. Commit(d, w) = w
    BY <2>1, CommitNothing
  <2> HIDE DEF w
  <2> QED
    BY <2>1, <2>2 DEF CloseQuestion
<1> HIDE DEF A
<1>8. w = [u EXCEPT !.contexts = A]
  BY DEF A
<1>9. u \in Parser /\ u.pending = None /\ Rest(u, t) /\ u.buf = {} /\ u.cur = None
  BY <1>1 DEF Parser, Rest
<1> HIDE DEF u
<1>10. /\ w \in Parser /\ w.pending = None /\ w.buf = {} /\ w.cur = None /\ w.contexts = A /\ w.out = q.out /\ w.last = q.last
       /\ w.section = q.section /\ w.blank = q.blank /\ w.complete = q.complete
  BY <1>1, <1>6, <1>8, <1>9 DEF Parser, Rest
<1> HIDE DEF w
<1>11. 0 \in 0..OptTarget /\ "stem" \in Dests
  BY ParserAssumption DEF Dests, Parts
<1>12. /\ x \in Parser /\ x.pending = None /\ x.buf = {} /\ x.cur = None /\ x.contexts = A /\ x.out = q.out /\ x.last = q.last
       /\ x.section = q.section /\ x.blank = q.blank /\ x.complete = q.complete /\ x.at = 0
  BY <1>10, <1>11 DEF Parser
<1> HIDE DEF x
<1>13. /\ r \in Parser /\ r.pending = None /\ r.buf = {} /\ r.cur = None /\ r.contexts = A /\ r.out = q.out /\ r.last = q.last
       /\ r.section = q.section /\ r.blank = q.blank /\ r.complete = q.complete /\ r.at = 0 /\ r.dest = "stem"
  BY <1>11, <1>12 DEF Parser
<1> HIDE DEF r
<1>14. Shut(sh, q, r)
  <2>1. Len(q.out) = Len(sh.qs) /\ \A j \in 1..Len(sh.qs) : Same(q.out[j], sh.qs[j])
    <3>1. Aside(sh) /\ Len(sh.qs) \in Nat
      BY SheetOf DEF Aside, ReaderOK, Typed
    <3> QED
      BY <3>1 DEF ReaderOK, FiledOK
  <2> QED
    BY <1>13, <2>1 DEF Shut
<1>15. CloseQuestion(d, CloseContext(d, q, n)) = r
  <2>1. CloseContext(d, q, n) = w
    BY <1>5, <1>8
  <2> QED
    BY <1>7, <2>1
<1>16. \E z : (IF f > 1 THEN Sealed(z, q.contexts, f - 1) ELSE z = q.contexts) /\ \A g \in 1..L : A[g] = z[g]
  BY <1>4, <1>6
<1>17. /\ Shut(sh, q, r) /\ r.complete = q.complete /\ Len(A) = L + 1 /\ r.contexts = A
       /\ A[L + 1].text = v.text /\ A[L + 1].from = f /\ A[L + 1].to = v.to /\ A[L + 1].explicit = v.explicit /\ ~A[L + 1].capped
  BY <1>3, <1>6, <1>13, <1>14
<1>18. Taken(A, q, v, n)
  BY <1>16, <1>17 DEF Taken, f
<1> QED
  BY <1>15, <1>17, <1>18 DEF v

-----------------------------------------------------------------------------
\* Between two questions.

\* Between two questions the parser is in step when what it filed is as printed.
LEMMA Apart ==
  ASSUME NEW d \in Seq(Lines), NEW l \in Lines, NEW next \in Sheet, NEW t \in Parser, Aside(next),
         Len(t.out) = Len(next.qs), \A j \in 1..Len(next.qs) : Same(t.out[j], next.qs[j]),
         NumbersOK(next, t), PhaseOK(next, t), t.buf \subseteq 1..Len(Append(d, l)), ContextsOK(next, t)
  PROVE  ReaderOK(Append(d, l), next, t)
<1>1. Typed(Append(d, l), next, t)
  BY DEF Typed
<1>2. FiledOK(next, t)
  <2>1. Len(next.qs) \in Nat
    BY SheetOf
  <2> QED
    BY <2>1 DEF FiledOK
<1>3. OpenOK(next, t)
  BY DEF OpenOK
<1>4. LengthsOK(Append(d, l), next, t)
  BY DEF LengthsOK, Aside
<1> QED
  BY <1>1, <1>2, <1>3, <1>4 DEF ReaderOK
\* Lines that ask no question leave the numbering as it is.
LEMMA NumbersStay ==
  ASSUME NEW sh, NEW q, NumbersOK(sh, q), NEW next, NEW t, next.qs = sh.qs, t.last = q.last, t.section = next.label,
         Aside(next) /\ sh.qs # <<>> => t.complete
  PROVE  NumbersOK(next, t) /\ NumberOf(next) = NumberOf(sh)
  BY DEF NumbersOK, NumberOf

\* More of a preamble.
LEMMA PreambleText ==
  ASSUME NEW d, NEW sh, NEW q, Ready(d, sh, q), NEW l \in Lines, sh.phase = "preamble"
  PROVE  ReaderOK(Append(d, l), [sh EXCEPT !.govs[Len(sh.govs)].text = @ \union {Len(d) + 1}], ReadText(q, Len(d) + 1))
<1> DEFINE G == Len(sh.govs)
           v == sh.govs[G]
           B == {Len(d) + 1}
           n == [v EXCEPT !.text = @ \union B]
           next == [sh EXCEPT !.govs = [@ EXCEPT ![G] = n]]
           t == ReadText(q, Len(d) + 1)
<1>1. /\ ReaderOK(d, sh, q) /\ d \in Seq(Lines) /\ sh \in Sheet /\ q \in Parser /\ q.cur = None /\ q.dest = "context" /\ q.pending # None
      /\ q.at = 0 /\ Awaited(sh, q) /\ q.buf \subseteq 1..Len(d)
  BY DEF Ready, ReaderOK, Typed, PhaseOK, ContextsOK, LengthsOK
<1>2. Len(d) \in Nat /\ Len(d) + 1 \in Nat /\ Len(Append(d, l)) = Len(d) + 1
  BY <1>1
<1>3. /\ t \in Parser /\ Rest(t, q) /\ t.cur = q.cur /\ t.pending = q.pending /\ t.buf = q.buf \union B
  BY <1>1, <1>2, ReadTextOf
<1> HIDE DEF t
<1>4. B \in Texts
  BY <1>2 DEF Texts
<1>5. t.buf \subseteq 1..Len(Append(d, l))
  <2>1. \A x \in 1..Len(d) : x \in 1..(Len(d) + 1)
    BY <1>2
  <2>2. Len(d) + 1 \in 1..(Len(d) + 1)
    BY <1>2
  <2> QED
    BY <1>1, <1>2, <1>3, <2>1, <2>2
<1> HIDE DEF B
<1>6. G \in Nat /\ G >= 1 /\ sh.govs \in Seq(Preamble) /\ G = Len(q.contexts) + 1 /\ Len(q.contexts) \in Nat
  <2>1. G = Len(q.contexts) + 1
    BY <1>1 DEF ReaderOK, ContextsOK
  <2> QED
    BY <1>1, <2>1, SheetOf, ParserOf
<1>7. v \in Preamble
  <2>1. G \in 1..Len(sh.govs)
    BY <1>6
  <2> QED
    BY <1>6, <2>1, ElementOfSeq
<1>8. n \in Preamble /\ n.text = v.text \union B /\ n.from = v.from /\ n.to = v.to /\ n.explicit = v.explicit /\ n.closed = v.closed
  BY <1>4, <1>7 DEF Preamble, Texts
<1> DEFINE govs == [sh.govs EXCEPT ![G] = n]
<1> HIDE DEF n
<1>9. govs \in Seq(Preamble) /\ Len(govs) = G /\ govs[G] = n /\ \A g \in 1..(G - 1) : govs[g] = sh.govs[g]
  BY <1>6, <1>8
<1> HIDE DEF govs
<1>10. /\ next \in Sheet /\ next.qs = sh.qs /\ next.phase = "preamble" /\ next.govs = govs /\ next.label = sh.label
  BY <1>1, <1>9 DEF Sheet, govs
<1>11. next = [sh EXCEPT !.govs[Len(sh.govs)].text = @ \union {Len(d) + 1}]
  BY DEF n, B
<1> HIDE DEF next
<1>12. Aside(next) /\ Aside(sh) /\ NumbersOK(sh, q) /\ FiledOK(sh, q)
  BY <1>1, <1>10 DEF Aside, ReaderOK
<1>13. NumbersOK(next, t) /\ NumberOf(next) = NumberOf(sh)
  BY <1>3, <1>10, <1>12, NumbersStay DEF NumbersOK, Rest
<1>14. PhaseOK(next, t)
  BY <1>1, <1>3, <1>10 DEF PhaseOK, Rest
<1>15. Len(t.out) = Len(next.qs) /\ \A j \in 1..Len(next.qs) : Same(t.out[j], next.qs[j])
  BY <1>1, <1>3, <1>10, <1>12, SheetOf DEF FiledOK, Rest
<1>16. ContextsOK(next, t)
  <2>1. Awaited(next, t)
    BY <1>1, <1>3, <1>8, <1>9, <1>10, <1>13 DEF Awaited
  <2>2. ContextsOK(sh, q) /\ Len(q.contexts) = G - 1
    BY <1>1, <1>6 DEF ReaderOK
  <2>3. t.contexts = q.contexts
    BY <1>3 DEF Rest
  <2>4. \A g \in 1..(G - 1) : Ended(next, g, q.contexts[g], sh.govs[g], G - 1) <=> Ended(sh, g, q.contexts[g], sh.govs[g], G - 1)
    BY <1>9, <1>10, <1>13 DEF Ended
  <2>5. \A g \in 1..(G - 1) : Told(t.contexts[g], next.govs[g]) /\ Ended(next, g, t.contexts[g], next.govs[g], G - 1)
    BY <1>9, <1>10, <2>2, <2>3, <2>4 DEF ContextsOK
  <2> QED
    BY <1>6, <1>9, <1>10, <2>1, <2>2, <2>3, <2>5 DEF ContextsOK
<1>17. ReaderOK(Append(d, l), next, t)
  BY <1>1, <1>3, <1>5, <1>10, <1>12, <1>13, <1>14, <1>15, <1>16, Apart
<1> QED
  BY <1>11, <1>17 DEF t

\* Every preamble so far is closed.
AllClosed(V) == [g \in DOMAIN V |-> [V[g] EXCEPT !.closed = TRUE]]
\* Closing the printed preambles changes nothing else of them.
LEMMA AllClosedOf ==
  ASSUME NEW V \in Seq(Preamble)
  PROVE  LET W == AllClosed(V) IN
           /\ W \in Seq(Preamble) /\ Len(W) = Len(V)
           /\ \A g \in 1..Len(V) : W[g].text = V[g].text /\ W[g].from = V[g].from /\ W[g].to = V[g].to /\ W[g].explicit = V[g].explicit
                                   /\ W[g].closed
<1> DEFINE shut(v) == [v EXCEPT !.closed = TRUE]
           W == AllClosed(V)
<1>1. W = [g \in 1..Len(V) |-> shut(V[g])]
  BY DEF AllClosed
<1>2. \A v \in Preamble : /\ shut(v) \in Preamble /\ shut(v).text = v.text /\ shut(v).from = v.from /\ shut(v).to = v.to
                          /\ shut(v).explicit = v.explicit /\ shut(v).closed
  BY DEF Preamble
<1> HIDE DEF shut, W
<1>3. \A g \in 1..Len(V) : V[g] \in Preamble
  BY ElementOfSeq
<1>4. W \in Seq(Preamble) /\ Len(W) = Len(V)
  BY <1>1, <1>2, <1>3
<1>5. \A g \in 1..Len(V) : W[g] = shut(V[g])
  BY <1>1
<1> QED
  BY <1>2, <1>3, <1>4, <1>5 DEF W

\* What is known when a question is over, or none was read since the heading.
NextNumber(sh) == IF sh.qs = <<>> THEN FirstQuestion ELSE NumberOf(sh) + 1
Over(sh) == sh.phase = "front" \/ (~Aside(sh) /\ \A k \in Option : Current(sh).options[k] # {})
\* A line behind the options of a question closes it.
LEMMA Closing ==
  ASSUME NEW d, NEW sh, NEW q, Ready(d, sh, q), Over(sh)
  PROVE  LET r == CloseQuestion(d, q) L == Len(q.contexts) IN
           /\ Shut(sh, q, r) /\ r.contexts = q.contexts /\ (sh.qs # <<>> => r.complete) /\ r.blank = FALSE
           /\ \A n : CloseContext(d, r, n) = r
           /\ d \in Seq(Lines) /\ sh \in Sheet /\ q \in Parser /\ NumbersOK(sh, q) /\ ContextsOK(sh, q)
           /\ q.contexts \in Seq(Context) /\ sh.govs \in Seq(Preamble) /\ L \in Nat /\ Len(sh.govs) = L /\ sh.phase # "preamble"
           /\ Len(d) \in Nat /\ Len(d) + 1 \in Nat
<1> DEFINE r == CloseQuestion(d, q)
<1>1. ReaderOK(d, sh, q) /\ d \in Seq(Lines) /\ sh \in Sheet /\ q \in Parser /\ NumbersOK(sh, q) /\ ContextsOK(sh, q) /\ ~q.blank
  BY DEF Ready, ReaderOK, Typed
<1>2. sh.phase # "preamble"
  BY DEF Over, Aside
<1>3. /\ Shut(sh, q, r) /\ r.contexts = q.contexts
      /\ (sh.phase = "front" \/ \A k \in Option : Current(sh).options[k] # {}) /\ sh.qs # <<>> => r.complete
      /\ \A n : CloseContext(d, r, n) = r
  BY <1>1, <1>2, Closes
<1>4. q.contexts \in Seq(Context) /\ sh.govs \in Seq(Preamble) /\ Len(q.contexts) \in Nat
  BY <1>1, SheetOf, ParserOf
<1>5. Len(sh.govs) = Len(q.contexts)
  BY <1>1, <1>2, <1>4 DEF ContextsOK
<1>6. q.blank = FALSE
  BY <1>1, ParserOf
<1> HIDE DEF r
<1>7. r.blank = FALSE
  BY <1>3, <1>6 DEF Shut
<1>8. sh.qs # <<>> => r.complete
  BY <1>3 DEF Over
<1> QED
  BY <1>1, <1>2, <1>3, <1>4, <1>5, <1>7, <1>8 DEF r

\* A preamble is opened by a line of directions or a lead-in.
Opened(sh, i, from, to) ==
  [sh EXCEPT !.phase = "preamble",
             !.govs = Append(AllClosed(@), [text |-> {i}, from |-> from, to |-> to, explicit |-> from > 0, closed |-> FALSE])]
\* A preamble's first line.
LEMMA OpensPreamble ==
  ASSUME NEW d, NEW sh, NEW q, Ready(d, sh, q), Over(sh), NEW l \in Lines,
         (l.from = 0 /\ l.to = 0) \/ (l.from = NextNumber(sh) /\ l.to = NextNumber(sh) + 1 /\ l.from >= 1),
         Len(sh.govs) = 0 \/ ~sh.govs[Len(sh.govs)].explicit \/ sh.govs[Len(sh.govs)].to < NextNumber(sh)
  PROVE  ReaderOK(Append(d, l), Opened(sh, Len(d) + 1, l.from, l.to), OpenContext(d, q, l, Len(d) + 1))
<1> DEFINE r == CloseQuestion(d, q)
           L == Len(q.contexts)
           C == q.contexts
           N == NumberOf(sh)
           W == AllClosed(sh.govs)
           e == l.from > 0
           B == {Len(d) + 1}
           v == [text |-> B, from |-> l.from, to |-> l.to, explicit |-> e, closed |-> FALSE]
           c == [from |-> l.from, to |-> l.to, text |-> {}, explicit |-> e, capped |-> FALSE]
           next == Opened(sh, Len(d) + 1, l.from, l.to)
           t == OpenContext(d, q, l, Len(d) + 1)
<1>1. /\ Shut(sh, q, r) /\ r.contexts = q.contexts /\ (sh.qs # <<>> => r.complete) /\ r.blank = FALSE
      /\ \A n : CloseContext(d, r, n) = r
      /\ d \in Seq(Lines) /\ sh \in Sheet /\ q \in Parser /\ NumbersOK(sh, q) /\ ContextsOK(sh, q)
      /\ C \in Seq(Context) /\ sh.govs \in Seq(Preamble) /\ L \in Nat /\ Len(sh.govs) = L /\ sh.phase # "preamble"
      /\ Len(d) \in Nat /\ Len(d) + 1 \in Nat
  BY Closing
<1>2. W \in Seq(Preamble) /\ Len(W) = L /\ \A g \in 1..L : W[g].text = sh.govs[g].text /\ W[g].from = sh.govs[g].from
         /\ W[g].to = sh.govs[g].to /\ W[g].explicit = sh.govs[g].explicit /\ W[g].closed
  BY <1>1, AllClosedOf
<1>3. e \in BOOLEAN /\ l.from \in Nat /\ l.to \in Nat /\ (e <=> l.from > 0)
  BY DEF Lines
<1>4. B \in Texts /\ {} \in Texts /\ B # {} /\ B \subseteq 1..Len(Append(d, l))
  <2>1. Len(Append(d, l)) = Len(d) + 1 /\ Len(d) + 1 \in 1..(Len(d) + 1)
    BY <1>1
  <2> QED
    BY <1>1, <2>1 DEF Texts
<1> DEFINE V == Append(W, v)
<1>5. next = [sh EXCEPT !.phase = "preamble", !.govs = V]
  BY DEF Opened
<1>6. t = [r EXCEPT !.pending = c, !.dest = "context", !.buf = B]
  <2>1. CloseContext(d, r, 0) = r
    BY <1>1
  <2> HIDE DEF r
  <2>2. t = [CloseContext(d, r, 0) EXCEPT !.pending = c, !.dest = "context", !.buf = B]
    BY DEF OpenContext, r
  <2> QED
    BY <2>1, <2>2
<1> HIDE DEF r, W, e, B, next, t
<1>7. v \in Preamble /\ v.text = B /\ v.from = l.from /\ v.to = l.to /\ v.explicit = e /\ v.closed = FALSE
  BY <1>3, <1>4 DEF Preamble
<1>8. c \in Context /\ c.text = {} /\ c.from = l.from /\ c.to = l.to /\ c.explicit = e /\ c.capped = FALSE
  BY <1>3, <1>4 DEF Context
<1> HIDE DEF v, c
<1>9. V \in Seq(Preamble) /\ Len(V) = L + 1 /\ V[L + 1] = v /\ \A g \in 1..L : V[g] = W[g]
  BY <1>1, <1>2, <1>7
<1> HIDE DEF V
<1>10. next \in Sheet /\ next.qs = sh.qs /\ next.phase = "preamble" /\ next.govs = V /\ next.label = sh.label /\ Aside(next)
  BY <1>1, <1>5, <1>9 DEF Sheet, Phases, Aside
<1>11. /\ t \in Parser /\ t.out = r.out /\ t.last = r.last /\ t.section = r.section /\ t.contexts = C /\ t.complete = r.complete
       /\ t.cur = None /\ t.at = 0 /\ t.dest = "context" /\ t.pending = c /\ t.buf = B
  BY <1>1, <1>4, <1>6, <1>8 DEF Shut, Parser, Dests
<1>12. NumbersOK(next, t) /\ NumberOf(next) = N
  <2>1. t.last = q.last /\ t.section = next.label
    BY <1>1, <1>10, <1>11 DEF Shut, NumbersOK
  <2> QED
    BY <1>1, <1>10, <1>11, <2>1, NumbersStay
<1>13. PhaseOK(next, t)
  BY <1>8, <1>10, <1>11, ContextIsOpen DEF PhaseOK
<1>14. Len(t.out) = Len(next.qs) /\ \A j \in 1..Len(next.qs) : Same(t.out[j], next.qs[j])
  BY <1>1, <1>10, <1>11 DEF Shut
<1>15. Awaited(next, t)
  <2>1. Len(next.govs) = L + 1 /\ next.govs[L + 1] = v
    BY <1>9, <1>10
  <2>2. (IF next.qs = <<>> THEN FirstQuestion ELSE NumberOf(next) + 1) = NextNumber(sh)
    BY <1>10, <1>12 DEF NextNumber
  <2>3. c.text \union t.buf = v.text /\ v.text # {}
    BY <1>4, <1>7, <1>8, <1>11
  <2>4. v.explicit => v.from = NextNumber(sh) /\ v.to = v.from + 1
    BY <1>3, <1>7
  <2>5. ~v.explicit => v.from = 0 /\ v.to = 0
    BY <1>3, <1>7
  <2> QED
    BY <1>7, <1>8, <1>11, <2>1, <2>2, <2>3, <2>4, <2>5 DEF Awaited
<1>16. ContextsOK(next, t)
  <2>1. \A g \in 1..L : Told(C[g], sh.govs[g]) /\ Ended(sh, g, C[g], sh.govs[g], L)
    BY <1>1 DEF ContextsOK
  <2>2. \A g \in 1..L : C[g].from \in Nat /\ C[g].to \in Nat /\ C[g].explicit \in BOOLEAN
    <3>1. \A g \in 1..L : C[g] \in Context
      BY <1>1, ElementOfSeq
    <3> QED
      BY <3>1 DEF Context
  <2>3. N \in Nat /\ (L >= 1 => NextNumber(sh) = N + 1)
    <3>1. sh.qs = <<>> => L = 0
      BY <1>1 DEF ContextsOK
    <3>2. N \in Nat
      BY <1>1, ParserOf DEF NumbersOK
    <3> QED
      BY <3>1, <3>2 DEF NextNumber
  <2>4. ASSUME NEW g \in 1..L PROVE Told(C[g], V[g]) /\ Ended(next, g, C[g], V[g], L)
    <3>1. Told(C[g], V[g])
      BY <1>2, <1>9, <2>1 DEF Told
    <3>2. Ended(sh, g, C[g], sh.govs[g], L) /\ V[g].closed
      BY <1>2, <1>9, <2>1
    <3>3. C[g].to <= N
      <4>1. CASE ~C[g].explicit
        BY <3>2, <4>1 DEF Ended
      <4>2. CASE C[g].explicit /\ g < L
        BY <1>1, <3>2, <4>2 DEF Ended
      <4>3. CASE C[g].explicit /\ g = L
        <5>1. C[g].to = sh.govs[L].to /\ sh.govs[L].explicit
          BY <2>1, <4>3 DEF Told
        <5>2. sh.govs[L].to < NextNumber(sh)
          BY <1>1, <4>3, <5>1
        <5>3. NextNumber(sh) = N + 1
          BY <2>3, <4>3
        <5> QED
          BY <2>2, <2>3, <5>1, <5>2, <5>3
      <4> QED
        BY <1>1, <2>2, <4>1, <4>2, <4>3
    <3>4. /\ g < L => C[g].to # 0
          /\ ~C[g].explicit => C[g].from <= N
      BY <3>2 DEF Ended
    <3>5. C[g].to = 0 => g = L
      BY <1>1, <3>4
    <3>6. next.phase = "preamble" /\ NumberOf(next) = N
      BY <1>10, <1>12
    <3>7. Ended(next, g, C[g], V[g], L)
      BY <3>2, <3>3, <3>4, <3>5, <3>6 DEF Ended
    <3> QED
      BY <3>1, <3>7
  <2> QED
    BY <1>1, <1>9, <1>10, <1>11, <1>15, <2>4 DEF ContextsOK
<1>17. ReaderOK(Append(d, l), next, t)
  BY <1>1, <1>4, <1>10, <1>11, <1>12, <1>13, <1>14, <1>16, Apart
<1> QED
  BY <1>17 DEF next, t

\* A heading starts a section.
Headed(sh, label) == [sh EXCEPT !.phase = "front", !.label = label, !.govs = AllClosed(@)]
\* A heading starts a section, and ends the preambles before it.
LEMMA ReadHeading ==
  ASSUME NEW d, NEW sh, NEW q, Ready(d, sh, q), Over(sh), NEW l \in Lines
  PROVE  ReaderOK(Append(d, l), Headed(sh, l.label), StartSection(d, q, l))
<1> DEFINE r == CloseQuestion(d, q)
           L == Len(q.contexts)
           C == q.contexts
           N == NumberOf(sh)
           V == AllClosed(sh.govs)
           S == Seal(C, r.last)
           next == Headed(sh, l.label)
           t == StartSection(d, q, l)
<1>1. /\ Shut(sh, q, r) /\ r.contexts = q.contexts /\ (sh.qs # <<>> => r.complete) /\ r.blank = FALSE
      /\ \A n : CloseContext(d, r, n) = r
      /\ d \in Seq(Lines) /\ sh \in Sheet /\ q \in Parser /\ NumbersOK(sh, q) /\ ContextsOK(sh, q)
      /\ C \in Seq(Context) /\ sh.govs \in Seq(Preamble) /\ L \in Nat /\ Len(sh.govs) = L /\ sh.phase # "preamble"
      /\ Len(d) \in Nat /\ Len(d) + 1 \in Nat
  BY Closing
<1>2. V \in Seq(Preamble) /\ Len(V) = L /\ \A g \in 1..L : V[g].text = sh.govs[g].text /\ V[g].from = sh.govs[g].from
         /\ V[g].to = sh.govs[g].to /\ V[g].explicit = sh.govs[g].explicit /\ V[g].closed
  BY <1>1, AllClosedOf
<1>3. r.last = N /\ N \in Nat
  BY <1>1, ParserOf DEF Shut, NumbersOK
<1>4. Sealed(S, C, N)
  BY <1>1, <1>3, SealOf
<1>5. next = [sh EXCEPT !.phase = "front", !.label = l.label, !.govs = V]
  BY DEF Headed
<1>6. t = [r EXCEPT !.contexts = S, !.section = l.label, !.sections = Append(r.sections, l.label)]
  <2>1. CloseContext(d, r, q.last + 1) = r
    BY <1>1
  <2> HIDE DEF r
  <2>2. t = [CloseContext(d, r, q.last + 1) EXCEPT !.contexts = Seal(@, CloseContext(d, r, q.last + 1).last), !.section = l.label,
                                                   !.sections = Append(@, l.label)]
    BY DEF StartSection, r
  <2>3. t = [r EXCEPT !.contexts = Seal(r.contexts, r.last), !.section = l.label, !.sections = Append(r.sections, l.label)]
    BY <2>1, <2>2
  <2> QED
    BY <1>1, <2>3
<1>7. l.label \in Labels
  BY DEF Lines
<1> HIDE DEF r, V, S, next, t
<1>8. next \in Sheet /\ next.qs = sh.qs /\ next.phase = "front" /\ next.govs = V /\ next.label = l.label /\ Aside(next)
  BY <1>1, <1>2, <1>5, <1>7 DEF Sheet, Phases, Aside
<1>9. /\ t \in Parser /\ t.out = r.out /\ t.last = r.last /\ t.section = l.label /\ t.contexts = S /\ t.complete = r.complete
      /\ t.cur = None /\ t.at = 0 /\ t.dest = "stem" /\ t.pending = None /\ t.buf = {}
  <2>1. r \in Parser /\ r.cur = None /\ r.at = 0 /\ r.dest = "stem" /\ r.pending = None /\ r.buf = {}
    BY <1>1 DEF Shut
  <2>2. Append(r.sections, l.label) \in Seq(Labels)
    BY <1>7, <2>1, ParserOf
  <2> QED
    BY <1>4, <1>6, <1>7, <2>1, <2>2 DEF Parser, Sealed
<1>10. NumbersOK(next, t) /\ NumberOf(next) = N
  <2>1. t.last = q.last /\ t.section = next.label
    BY <1>1, <1>8, <1>9 DEF Shut
  <2> QED
    BY <1>1, <1>8, <1>9, <2>1, NumbersStay
<1>11. PhaseOK(next, t)
  BY <1>8, <1>9 DEF PhaseOK
<1>12. Len(t.out) = Len(next.qs) /\ \A j \in 1..Len(next.qs) : Same(t.out[j], next.qs[j])
  BY <1>1, <1>8, <1>9 DEF Shut
<1>13. ContextsOK(next, t)
  <2>1. \A g \in 1..L : Told(C[g], sh.govs[g]) /\ Ended(sh, g, C[g], sh.govs[g], L)
    BY <1>1 DEF ContextsOK
  <2>2. \A g \in 1..L : C[g].from \in Nat /\ C[g].to \in Nat /\ C[g].explicit \in BOOLEAN
    <3>1. \A g \in 1..L : C[g] \in Context
      BY <1>1, ElementOfSeq
    <3> QED
      BY <3>1 DEF Context
  <2>3. Len(S) = L /\ \A g \in 1..L : /\ S[g].text = C[g].text /\ S[g].from = C[g].from /\ S[g].explicit = C[g].explicit
                                      /\ S[g].capped = C[g].capped /\ S[g].to = IF C[g].to = 0 /\ C[g].from <= N THEN N ELSE C[g].to
    BY <1>4 DEF Sealed
  <2>4. ASSUME NEW g \in 1..L PROVE Told(S[g], V[g]) /\ Ended(next, g, S[g], V[g], L)
    <3>1. C[g].explicit => C[g].to # 0 /\ S[g].to = C[g].to
      BY <2>1, <2>2, <2>3 DEF Told
    <3>2. Told(S[g], V[g])
      BY <1>2, <2>1, <2>3, <3>1 DEF Told
    <3>3. /\ g < L => C[g].to # 0 /\ C[g].to <= N
          /\ ~C[g].explicit => C[g].from <= N /\ C[g].to <= N
      BY <1>1, <2>1 DEF Ended
    <3>4. /\ g < L => S[g].to # 0 /\ S[g].to <= N
          /\ ~C[g].explicit => S[g].to <= N
      BY <1>3, <2>3, <3>3
    <3>5. C[g].from >= 1
      BY <2>1 DEF Told
    <3>6. ~C[g].explicit => S[g].to # 0
      BY <1>3, <2>2, <2>3, <3>3, <3>5
    <3>7. Ended(next, g, S[g], V[g], L)
      BY <1>2, <1>8, <1>10, <2>3, <3>3, <3>4, <3>6 DEF Ended
    <3> QED
      BY <3>2, <3>7
  <2>5. ASSUME NEW g \in 1..L, NEW j \in 1..Len(sh.qs) PROVE Reaches(S[g], sh.qs[j].number) <=> Reaches(C[g], sh.qs[j].number)
    <3>1. sh.qs[j].number \in Nat /\ sh.qs[j].number <= N
      <4>1. sh.qs # <<>> /\ N = sh.qs[Len(sh.qs)].number /\ Len(sh.qs) \in 1..Len(sh.qs)
        <5>1. sh.qs \in Seq(Printed)
          BY <1>1, SheetOf
        <5>2. sh.qs # <<>>
          BY <5>1
        <5> QED
          BY <1>1, <5>2, CurrentOf DEF NumberOf
      <4>2. sh.qs[j] \in Printed
        BY <1>1, SheetOf, ElementOfSeq
      <4>3. sh.qs[j].number \in Nat
        BY <4>2, PrintedOf
      <4>4. j # Len(sh.qs) => sh.qs[j].number < sh.qs[Len(sh.qs)].number
        <5>1. j # Len(sh.qs) => j < Len(sh.qs)
          BY <4>1
        <5> QED
          BY <1>1, <4>1, <5>1 DEF NumbersOK
      <4> QED
        BY <1>3, <4>1, <4>3, <4>4
    <3> QED
      BY <1>3, <2>2, <2>3, <3>1 DEF Reaches
  <2> QED
    BY <1>1, <1>2, <1>8, <1>9, <2>3, <2>4, <2>5 DEF ContextsOK
<1>14. ReaderOK(Append(d, l), next, t)
  BY <1>1, <1>8, <1>9, <1>10, <1>11, <1>12, <1>13, Apart
<1> QED
  BY <1>14 DEF next, t

\* The numbers printed so far.
LEMMA Numbered ==
  ASSUME NEW sh \in Sheet, NEW q \in Parser, NumbersOK(sh, q)
  PROVE  /\ NumberOf(sh) \in Nat /\ (sh.qs # <<>> => NumberOf(sh) >= FirstQuestion) /\ (sh.qs = <<>> => NumberOf(sh) = 0)
         /\ \A j \in 1..Len(sh.qs) : sh.qs[j].number \in Nat /\ sh.qs[j].number <= NumberOf(sh)
<1>1. NumberOf(sh) \in Nat
  BY ParserOf DEF NumbersOK
<1>2. sh.qs # <<>> => NumberOf(sh) = sh.qs[Len(sh.qs)].number /\ Len(sh.qs) \in 1..Len(sh.qs)
  BY CurrentOf DEF NumberOf
<1>3. sh.qs = <<>> => NumberOf(sh) = 0
  BY DEF NumberOf
<1>4. ASSUME NEW j \in 1..Len(sh.qs) PROVE sh.qs[j].number \in Nat /\ sh.qs[j].number <= NumberOf(sh)
  <2>1. sh.qs[j] \in Printed
    BY SheetOf, ElementOfSeq
  <2>2. sh.qs[j].number \in Nat
    BY <2>1, PrintedOf
  <2>3. sh.qs # <<>>
    BY SheetOf
  <2>4. j # Len(sh.qs) => j < Len(sh.qs)
    BY SheetOf
  <2>5. j # Len(sh.qs) => sh.qs[j].number < sh.qs[Len(sh.qs)].number
    BY <1>2, <2>3, <2>4 DEF NumbersOK
  <2> QED
    BY <1>1, <1>2, <2>2, <2>3, <2>5
<1>5. sh.qs # <<>> => NumberOf(sh) >= FirstQuestion
  BY <1>2 DEF NumbersOK
<1> QED
  BY <1>1, <1>3, <1>4, <1>5
\* Sealing at or behind a number does not change whether it is reached.
LEMMA SealReaches ==
  ASSUME NEW S, NEW C \in Seq(Context), NEW upto \in Nat, Sealed(S, C, upto), NEW g \in 1..Len(C), NEW k \in Nat, k <= upto
  PROVE  Reaches(S[g], k) <=> Reaches(C[g], k)
<1>1. C[g] \in Context
  BY ElementOfSeq
<1>2. C[g].from \in Nat /\ C[g].to \in Nat
  BY <1>1 DEF Context
<1>3. S[g].from = C[g].from /\ S[g].to = IF C[g].to = 0 /\ C[g].from <= upto THEN upto ELSE C[g].to
  BY DEF Sealed
<1> QED
  BY <1>2, <1>3 DEF Reaches

\* The preambles a number is printed under.
ReachingOf(sh, n) ==
  {g \in {Len(sh.govs)} \ {0} : IF sh.govs[g].explicit THEN n \in sh.govs[g].from..sh.govs[g].to ELSE ~sh.govs[g].closed}
\* A question is added.
Added(sh, next, m, n) ==
  /\ sh \in Sheet /\ next \in Sheet /\ next.qs = Append(sh.qs, m) /\ m.number = n /\ m.govs = ReachingOf(sh, n)
  /\ next.label = sh.label /\ ~Aside(next) /\ n \in Nat /\ n >= NextNumber(sh)
\* A question is added behind the others, with a larger number.
LEMMA AddedOf ==
  ASSUME NEW sh, NEW next, NEW m, NEW n, Added(sh, next, m, n), NEW q \in Parser, NumbersOK(sh, q)
  PROVE  /\ NumberOf(next) = n /\ NumberOf(sh) \in Nat /\ NumberOf(sh) < n /\ n >= FirstQuestion /\ n >= 1 /\ next.phase # "preamble"
         /\ Len(sh.qs) \in Nat /\ Len(next.qs) = Len(sh.qs) + 1 /\ next.qs[Len(sh.qs) + 1] = m /\ next.qs # <<>>
         /\ \A j \in 1..Len(sh.qs) : next.qs[j] = sh.qs[j]
<1>1. /\ sh \in Sheet /\ next \in Sheet /\ next.qs = Append(sh.qs, m) /\ m.number = n /\ ~Aside(next) /\ n \in Nat /\ n >= NextNumber(sh)
  BY DEF Added
<1>2. sh.qs \in Seq(Printed) /\ Len(sh.qs) \in Nat
  BY <1>1, SheetOf
<1>3. Len(next.qs) = Len(sh.qs) + 1 /\ next.qs[Len(sh.qs) + 1] = m /\ \A j \in 1..Len(sh.qs) : next.qs[j] = sh.qs[j]
  BY <1>1, <1>2
<1>4. next.qs # <<>>
  BY <1>2, <1>3
<1>5. NumberOf(next) = n
  BY <1>1, <1>3, <1>4 DEF NumberOf
<1>6. NumberOf(sh) \in Nat /\ (sh.qs = <<>> => NumberOf(sh) = 0) /\ (sh.qs # <<>> => NumberOf(sh) >= FirstQuestion)
  BY <1>1, Numbered
<1>7. FirstQuestion \in Nat /\ FirstQuestion >= 1
  BY ParserAssumption, PrinterAssumption
<1>8. NumberOf(sh) < n /\ n >= FirstQuestion /\ n >= 1
  BY <1>1, <1>6, <1>7 DEF NextNumber
<1> QED
  BY <1>1, <1>2, <1>3, <1>4, <1>5, <1>6, <1>8 DEF Aside

\* The preambles when a question is added and none was waiting for it.
LEMMA AddedUnder ==
  ASSUME NEW sh, NEW next, NEW m, NEW n, Added(sh, next, m, n), NEW q \in Parser, NumbersOK(sh, q), ContextsOK(sh, q),
         sh.phase # "preamble", next.govs = sh.govs, NEW t, t.contexts = q.contexts
  PROVE  ContextsOK(next, t)
<1> DEFINE L == Len(q.contexts)
           C == q.contexts
           V == sh.govs
           N == NumberOf(sh)
           P == Len(sh.qs)
<1>1. /\ NumberOf(next) = n /\ N \in Nat /\ N < n /\ n >= 1 /\ next.phase # "preamble" /\ P \in Nat /\ Len(next.qs) = P + 1
      /\ next.qs[P + 1] = m /\ next.qs # <<>> /\ \A j \in 1..P : next.qs[j] = sh.qs[j]
  BY AddedOf
<1>2. sh \in Sheet /\ m.number = n /\ m.govs = ReachingOf(sh, n) /\ n \in Nat
  BY DEF Added
<1>3. C \in Seq(Context) /\ V \in Seq(Preamble) /\ L \in Nat /\ Len(V) = L
  BY <1>2, SheetOf, ParserOf DEF ContextsOK
<1>4. \A g \in 1..L : C[g].from \in Nat /\ C[g].to \in Nat /\ C[g].explicit \in BOOLEAN
  <2>1. \A g \in 1..L : C[g] \in Context
    BY <1>3, ElementOfSeq
  <2> QED
    BY <2>1 DEF Context
<1>5. \A g \in 1..L : Told(C[g], V[g]) /\ Ended(sh, g, C[g], V[g], L)
  BY DEF ContextsOK
<1>6. ASSUME NEW g \in 1..L PROVE Ended(next, g, C[g], V[g], L) /\ (g \in m.govs <=> Reaches(C[g], n))
  <2>1. /\ ~C[g].explicit => C[g].from <= N /\ C[g].to <= N /\ (C[g].to # 0 <=> V[g].closed)
        /\ g < L => V[g].closed /\ C[g].to <= N /\ C[g].to # 0
    BY <1>3, <1>5 DEF Ended
  <2>2. C[g].explicit => V[g].explicit /\ C[g].from = V[g].from /\ C[g].to = V[g].to /\ C[g].to # 0
    BY <1>4, <1>5 DEF Told
  <2>3. V[g].explicit <=> C[g].explicit
    BY <1>5 DEF Told
  <2>4. Ended(next, g, C[g], V[g], L)
    BY <1>1, <1>2, <1>3, <1>4, <2>1 DEF Ended
  <2>5. CASE g < L
    <3>1. g \notin m.govs
      BY <1>2, <1>3, <2>5 DEF ReachingOf
    <3>2. ~Reaches(C[g], n)
      BY <1>1, <1>2, <1>4, <2>1, <2>5 DEF Reaches
    <3> QED
      BY <2>4, <3>1, <3>2
  <2>6. CASE g = L
    <3>1. g \in m.govs <=> IF V[g].explicit THEN n \in V[g].from..V[g].to ELSE ~V[g].closed
      BY <1>2, <1>3, <2>6 DEF ReachingOf
    <3>2. CASE C[g].explicit
      <4>1. g \in m.govs <=> n \in C[g].from..C[g].to
        BY <2>2, <3>1, <3>2
      <4>2. n \in C[g].from..C[g].to <=> Reaches(C[g], n)
        BY <1>2, <1>4, <2>2, <3>2 DEF Reaches
      <4> QED
        BY <2>4, <4>1, <4>2
    <3>3. CASE ~C[g].explicit
      <4>1. g \in m.govs <=> C[g].to = 0
        BY <2>1, <2>3, <3>1, <3>3
      <4>2. Reaches(C[g], n) <=> C[g].to = 0
        BY <1>1, <1>2, <1>4, <2>1, <3>3 DEF Reaches
      <4> QED
        BY <2>4, <4>1, <4>2
    <3> QED
      BY <2>4, <3>2, <3>3
  <2> QED
    BY <1>3, <2>5, <2>6
<1>7. m.govs \subseteq 1..L /\ \A a, b \in m.govs : a = b
  BY <1>2, <1>3 DEF ReachingOf
<1>8. ASSUME NEW j \in 1..Len(next.qs)
      PROVE  /\ next.qs[j].govs \subseteq 1..L /\ \A a, b \in next.qs[j].govs : a = b
             /\ \A g \in 1..L : g \in next.qs[j].govs <=> Reaches(C[g], next.qs[j].number)
  <2>1. CASE j = P + 1
    BY <1>1, <1>2, <1>6, <1>7, <2>1
  <2>2. CASE j # P + 1
    <3>1. j \in 1..P
      BY <1>1, <2>2
    <3> QED
      BY <1>1, <3>1 DEF ContextsOK
  <2> QED
    BY <2>1, <2>2
<1> QED
  BY <1>1, <1>3, <1>5, <1>6, <1>8 DEF ContextsOK

\* The preambles when a question is added and one was waiting for it.
Numbers(W, V, L, n) ==
  LET v == V[Len(V)] w == W[L + 1] IN
    /\ Len(W) = L + 1 /\ \A g \in 1..L : W[g] = V[g]
    /\ w.text = v.text /\ w.from = (IF v.from = 0 THEN n ELSE v.from) /\ w.to = v.to /\ w.explicit = v.explicit /\ w.closed = v.closed
\* A question's preambles, where it is the first one of its preamble.
LEMMA AddedFirst ==
  ASSUME NEW sh, NEW next, NEW m, NEW n, Added(sh, next, m, n), NEW q \in Parser, NumbersOK(sh, q), ContextsOK(sh, q), sh.phase = "preamble",
         NEW t, t.contexts \in Seq(Context),
         Taken(t.contexts, q, sh.govs[Len(sh.govs)], n), Numbers(next.govs, sh.govs, Len(q.contexts), n)
  PROVE  ContextsOK(next, t)
<1> DEFINE L == Len(q.contexts)
           B == q.contexts
           C == t.contexts
           V == sh.govs
           v == V[Len(V)]
           W == next.govs
           N == NumberOf(sh)
           P == Len(sh.qs)
           f == IF v.from = 0 THEN n ELSE v.from
           c == C[L + 1]
           w == W[L + 1]
<1>1. /\ NumberOf(next) = n /\ N \in Nat /\ N < n /\ n >= 1 /\ next.phase # "preamble" /\ P \in Nat /\ Len(next.qs) = P + 1
      /\ next.qs[P + 1] = m /\ next.qs # <<>> /\ \A j \in 1..P : next.qs[j] = sh.qs[j]
  BY AddedOf
<1>2. sh \in Sheet /\ m.number = n /\ m.govs = ReachingOf(sh, n) /\ n \in Nat /\ n >= NextNumber(sh)
  BY DEF Added
<1>3. B \in Seq(Context) /\ V \in Seq(Preamble) /\ L \in Nat /\ Len(V) = L + 1
  BY <1>2, SheetOf, ParserOf DEF ContextsOK
<1>4. \A g \in 1..L : B[g].from \in Nat /\ B[g].to \in Nat /\ B[g].explicit \in BOOLEAN
  <2>1. \A g \in 1..L : B[g] \in Context
    BY <1>3, ElementOfSeq
  <2> QED
    BY <2>1 DEF Context
<1>5. \A g \in 1..L : Told(B[g], V[g]) /\ Ended(sh, g, B[g], V[g], L)
  BY DEF ContextsOK
<1>6. /\ v.text # {} /\ ~v.closed /\ (v.explicit => v.from = NextNumber(sh) /\ v.to = v.from + 1) /\ (~v.explicit => v.from = 0 /\ v.to = 0)
  BY DEF ContextsOK, Awaited, NextNumber
<1>7. /\ Len(C) = L + 1
      /\ c.text = v.text /\ c.from = f /\ c.to = v.to /\ c.explicit = v.explicit /\ ~c.capped
      /\ \E s : (IF f > 1 THEN Sealed(s, B, f - 1) ELSE s = B) /\ \A g \in 1..L : C[g] = s[g]
      /\ Len(W) = L + 1 /\ \A g \in 1..L : W[g] = V[g]
      /\ w.text = v.text /\ w.from = f /\ w.to = v.to /\ w.explicit = v.explicit /\ w.closed = v.closed
  BY DEF Taken, Numbers
<1>8. v.explicit \in BOOLEAN /\ NextNumber(sh) \in Nat /\ NextNumber(sh) >= 1 /\ NextNumber(sh) > N
  <2>1. Len(V) \in 1..Len(V)
    BY <1>3
  <2>2. v \in Preamble
    BY <1>3, <2>1, ElementOfSeq
  <2>3. N \in Nat /\ (sh.qs = <<>> => N = 0)
    BY <1>2, Numbered
  <2>4. FirstQuestion \in Nat /\ FirstQuestion >= 1
    BY ParserAssumption, PrinterAssumption
  <2> QED
    BY <2>2, <2>3, <2>4 DEF NextNumber, Preamble
<1>9. f \in Nat /\ f >= 1 /\ f > N /\ f <= n /\ (v.explicit => f = v.from) /\ (~v.explicit => f = n)
  <2>1. CASE v.explicit
    BY <1>2, <1>6, <1>8, <2>1
  <2>2. CASE ~v.explicit
    BY <1>1, <1>2, <1>6, <2>2
  <2> QED
    BY <2>1, <2>2
<1> HIDE DEF f, c, w, v
<1>10. ASSUME NEW g \in 1..L PROVE f > 1
  <2>1. sh.qs # <<>>
    BY <1>3 DEF ContextsOK
  <2>2. N >= FirstQuestion
    BY <1>2, <2>1, Numbered
  <2> QED
    BY <1>1, <1>9, <2>2, PrinterAssumption, ParserAssumption
<1>11. PICK s : (IF f > 1 THEN Sealed(s, B, f - 1) ELSE s = B) /\ \A g \in 1..L : C[g] = s[g]
  BY <1>7
<1>12. ASSUME NEW g \in 1..L
       PROVE  /\ Sealed(s, B, f - 1) /\ C[g] = s[g] /\ f - 1 \in Nat /\ f - 1 >= 1
              /\ C[g].text = B[g].text /\ C[g].from = B[g].from /\ C[g].explicit = B[g].explicit /\ C[g].capped = B[g].capped
              /\ C[g].to = IF B[g].to = 0 /\ B[g].from <= f - 1 THEN f - 1 ELSE B[g].to
  <2>1. f > 1
    BY <1>10
  <2>2. Sealed(s, B, f - 1) /\ C[g] = s[g]
    BY <1>11, <2>1
  <2> QED
    BY <1>9, <2>1, <2>2 DEF Sealed
<1>13. ASSUME NEW g \in 1..L
       PROVE  /\ Told(C[g], W[g]) /\ Ended(next, g, C[g], W[g], L + 1) /\ g \notin m.govs /\ ~Reaches(C[g], n)
              /\ \A k \in Nat : k <= N => (Reaches(C[g], k) <=> Reaches(B[g], k))
  <2>1. /\ ~B[g].explicit => B[g].from <= N
        /\ V[g].closed /\ B[g].to <= N
    BY <1>3, <1>5 DEF Ended
  <2>2. B[g].explicit => B[g].to # 0
    BY <1>4, <1>5 DEF Told
  <2>3. B[g].to = 0 => B[g].from <= f - 1
    BY <1>1, <1>4, <1>9, <2>1, <2>2
  <2>4. /\ C[g].text = B[g].text /\ C[g].from = B[g].from /\ C[g].explicit = B[g].explicit /\ C[g].capped = B[g].capped
         /\ C[g].to = (IF B[g].to = 0 /\ B[g].from <= f - 1 THEN f - 1 ELSE B[g].to) /\ f - 1 \in Nat /\ f - 1 >= 1
         /\ W[g] = V[g]
    BY <1>7, <1>12
  <2>5. C[g].to \in Nat /\ C[g].to # 0 /\ C[g].to < n
    <3>1. CASE B[g].to = 0
      <4>1. C[g].to = f - 1
        BY <2>3, <2>4, <3>1
      <4> QED
        BY <1>2, <1>9, <2>4, <4>1
    <3>2. CASE B[g].to # 0
      <4>1. C[g].to = B[g].to /\ B[g].to \in Nat
        BY <1>4, <2>4, <3>2
      <4> QED
        BY <1>1, <1>2, <2>1, <3>2, <4>1
    <3> QED
      BY <3>1, <3>2
  <2>6. Told(B[g], V[g])
    BY <1>5
  <2>7. B[g].explicit => C[g].to = B[g].to
    BY <2>2, <2>4
  <2>8. Told(C[g], W[g])
    BY <2>4, <2>6, <2>7 DEF Told
  <2>9. C[g].to <= n /\ (~C[g].explicit => C[g].from <= n)
    <3>1. C[g].to <= n
      BY <1>2, <2>5
    <3>2. ~B[g].explicit => B[g].from <= n
      BY <1>1, <1>2, <1>4, <2>1
    <3> QED
      BY <2>4, <3>1, <3>2
  <2>10. Ended(next, g, C[g], W[g], L + 1)
    BY <1>1, <2>1, <2>5, <2>4, <2>9 DEF Ended
  <2>11. g \notin m.govs
    BY <1>2, <1>3 DEF ReachingOf
  <2>12. ~Reaches(C[g], n)
    BY <1>2, <2>5 DEF Reaches
  <2>13. ASSUME NEW k \in Nat, k <= N PROVE Reaches(C[g], k) <=> Reaches(B[g], k)
    <3>1. k <= f - 1
      BY <1>1, <1>9, <2>13
    <3> QED
      BY <1>3, <1>12, <3>1, SealReaches
  <2> QED
    BY <2>8, <2>10, <2>11, <2>12, <2>13
<1>14. Told(c, w)
  BY <1>2, <1>6, <1>7, <1>8, <1>9 DEF Told
<1>15. Ended(next, L + 1, c, w, L + 1)
  <2>1. ~c.explicit => c.from = n /\ c.to = 0
    BY <1>6, <1>7, <1>9
  <2>2. ~w.closed
    BY <1>6, <1>7
  <2> QED
    BY <1>1, <1>2, <1>3, <1>7, <2>1, <2>2 DEF Ended
<1>16. L + 1 \in m.govs <=> Reaches(c, n)
  <2>1. L + 1 \in m.govs <=> IF v.explicit THEN n \in v.from..v.to ELSE ~v.closed
    BY <1>2, <1>3 DEF ReachingOf, v
  <2>2. CASE v.explicit
    <3>1. L + 1 \in m.govs <=> n \in v.from..v.to
      BY <2>1, <2>2
    <3>2. c.from = v.from /\ c.to = v.to /\ v.to = v.from + 1 /\ v.from \in Nat
      BY <1>6, <1>7, <1>9, <2>2
    <3> QED
      BY <1>2, <3>1, <3>2 DEF Reaches
  <2>3. CASE ~v.explicit
    <3>1. L + 1 \in m.govs
      BY <1>6, <2>1, <2>3
    <3> QED
      BY <1>2, <1>6, <1>7, <1>9, <2>3, <3>1 DEF Reaches
  <2> QED
    BY <1>8, <2>2, <2>3
<1>17. ASSUME NEW k \in Nat, k <= N PROVE ~Reaches(c, k)
  BY <1>1, <1>7, <1>9, <1>17 DEF Reaches
<1>18. m.govs \subseteq {L + 1} /\ \A a, b \in m.govs : a = b
  BY <1>2, <1>3 DEF ReachingOf
<1> DEFINE D == 1..(L + 1)
<1>19. L + 1 \in D /\ \A g \in D : g \in 1..L \/ g = L + 1
  BY <1>3
<1>20. \A g \in 1..L : g \in D
  BY <1>3
<1>21. ASSUME NEW g \in D PROVE Told(C[g], W[g]) /\ Ended(next, g, C[g], W[g], L + 1)
  BY <1>13, <1>14, <1>15, <1>19 DEF c, w
<1>22. ASSUME NEW j \in 1..Len(next.qs)
       PROVE  /\ next.qs[j].govs \subseteq D /\ \A a, b \in next.qs[j].govs : a = b
              /\ \A g \in D : g \in next.qs[j].govs <=> Reaches(C[g], next.qs[j].number)
  <2>1. CASE j = P + 1
    <3>1. next.qs[j] = m /\ m.number = n
      BY <1>1, <1>2, <2>1
    <3>2. \A g \in D : g \in m.govs <=> Reaches(C[g], n)
      BY <1>13, <1>16, <1>19 DEF c
    <3>3. m.govs \subseteq D
      BY <1>18, <1>19
    <3> QED
      BY <1>18, <3>1, <3>2, <3>3
  <2>2. CASE j # P + 1
    <3>1. j \in 1..P
      BY <1>1, <2>2
    <3>2. next.qs[j] = sh.qs[j]
      BY <1>1, <3>1
    <3>3. /\ sh.qs[j].govs \subseteq 1..L /\ \A a, b \in sh.qs[j].govs : a = b
          /\ \A g \in 1..L : g \in sh.qs[j].govs <=> Reaches(B[g], sh.qs[j].number)
      BY <3>1 DEF ContextsOK
    <3>4. sh.qs[j].number \in Nat /\ sh.qs[j].number <= N
      BY <1>2, <3>1, Numbered
    <3>5. \A g \in 1..L : g \in sh.qs[j].govs <=> Reaches(C[g], sh.qs[j].number)
      BY <1>13, <3>3, <3>4
    <3>6. L + 1 \notin sh.qs[j].govs
      BY <1>3, <3>3
    <3>7. ~Reaches(c, sh.qs[j].number)
      BY <1>17, <3>4
    <3> QED
      BY <1>19, <1>20, <3>2, <3>3, <3>5, <3>6, <3>7 DEF c
  <2> QED
    BY <2>1, <2>2
<1>23. Len(C) = L + 1 /\ L + 1 \in Nat /\ Len(W) = L + 1
  BY <1>3, <1>7
<1> QED
  BY <1>1, <1>21, <1>22, <1>23 DEF ContextsOK

\* A question has just been opened by line i.
Begun(t, r, l, i) ==
  /\ t \in Parser /\ t.out = r.out /\ t.section = r.section /\ t.contexts = r.contexts /\ t.pending = r.pending /\ t.blank = r.blank
  /\ t.last = l.n /\ t.cur \in Question /\ t.cur.number = l.n /\ t.cur.section = r.section /\ t.cur.correct = 0 /\ t.cur.context = {}
  /\ t.cur.issues = {} /\ t.cur.text["explanation"] = {} /\ t.cur.text["trailing"] = {}
  /\ l.behind => /\ t.cur.text["stem"] = {i} /\ (\A k \in Option : t.cur.options[k] = {i}) /\ t.cur.width >= OptTarget
                 /\ t.at = OptTarget /\ t.dest = "option" /\ t.buf = {}
  /\ ~l.behind => /\ t.cur.text["stem"] = {} /\ (\A k \in Option : t.cur.options[k] = {})
                  /\ t.at = 0 /\ t.dest = "stem" /\ t.buf = {i}
\* A new question is empty but for its number and section.
LEMMA NewQuestionOf ==
  ASSUME NEW n \in Nat, NEW i \in Nat, NEW section \in Labels
  PROVE  LET c == NewQuestion(n, i, section) IN
           /\ c \in Question /\ c.number = n /\ c.section = section /\ c.correct = 0 /\ c.context = {} /\ c.issues = {}
           /\ c.text = [part \in Parts |-> {}] /\ \A k \in Option : c.options[k] = {}
<1> DEFINE text == [part \in {"stem", "explanation", "trailing"} |-> {}]
           options == [k \in Option |-> {}]
           c == [number |-> n, line |-> i, section |-> section, text |-> text, options |-> options, width |-> 0, correct |-> 0,
                 context |-> {}, issues |-> {}]
<1>1. NewQuestion(n, i, section) = c
  BY DEF NewQuestion
<1>2. {} \in Texts /\ 0 \in 0..OptTarget
  BY ParserAssumption DEF Texts
<1>3. text \in [Parts -> Texts] /\ options \in [Option -> Texts] /\ text = [part \in Parts |-> {}] /\ \A k \in Option : options[k] = {}
  BY <1>2 DEF Parts
<1> HIDE DEF text, options
<1>4. c \in Question /\ c.number = n /\ c.section = section /\ c.correct = 0 /\ c.context = {} /\ c.issues = {} /\ c.text = text /\ c.options = options
  BY <1>2, <1>3 DEF Question
<1> HIDE DEF c
<1> QED
  BY <1>1, <1>3, <1>4
\* A row of all the options gives the line to each of them.
LEMMA FillAll ==
  ASSUME NEW c \in Question, NEW i \in Nat
  PROVE  FilledFrom(FillOptions(c, i, 1, OptTarget), c, i, 1, OptTarget)
<1> DEFINE one == 1
           end == one + OptTarget - 1
           f == FillOptions(c, i, one, OptTarget)
<1>1. one \in 1..OptTarget /\ end = OptTarget /\ OptTarget \in Nat /\ OptTarget >= 1 /\ one..end = Option
  BY ParserAssumption DEF Option
<1> HIDE DEF one
<1>2. c \in Question /\ i \in Nat /\ one \in 1..OptTarget /\ OptTarget \in Nat /\ OptTarget >= 1 /\ one + OptTarget - 1 <= OptTarget
  BY <1>1
<1>3. FilledFrom(f, c, i, one, end)
  BY <1>2, FillOptionsOf
<1> HIDE DEF f, end
<1>4. FilledFrom(f, c, i, one, OptTarget)
  BY <1>1, <1>3
<1> QED
  BY <1>4 DEF f, one
\* A marker line files the question before it and begins the next one.
LEMMA Begins ==
  ASSUME NEW d, NEW q, NEW l \in Lines, NEW i \in Nat, NEW r, r = CloseQuestion(d, CloseContext(d, q, l.n)), r \in Parser,
         r.section = q.section, l.behind => l.count = OptTarget
  PROVE  Begun(ReadMarker(d, q, l, i), r, l, i)
<1> DEFINE c == NewQuestion(l.n, i, q.section)
           B == {i}
           full == l.behind /\ l.count >= 2
           filled == FillOptions([c EXCEPT !.text.stem = {i}], i, 1, l.count)
           t == ReadMarker(d, q, l, i)
<1>1. t = [r EXCEPT !.last = l.n, !.cur = IF full THEN filled ELSE c, !.at = IF full THEN Min({l.count, OptTarget}) ELSE 0,
                    !.dest = IF full THEN "option" ELSE "stem", !.buf = IF full THEN {} ELSE {i}]
  BY DEF ReadMarker
<1>2. l.n \in Nat /\ l.count \in Nat /\ l.behind \in BOOLEAN /\ q.section \in Labels
  BY ParserOf DEF Lines
<1>3. /\ c \in Question /\ c.number = l.n /\ c.section = q.section /\ c.correct = 0 /\ c.context = {} /\ c.issues = {}
      /\ c.text = [part \in Parts |-> {}] /\ \A k \in Option : c.options[k] = {}
  BY <1>2, NewQuestionOf
<1>4. B \in Texts /\ {} \in Texts /\ 0 \in 0..OptTarget /\ OptTarget \in 0..OptTarget /\ OptTarget \in Nat /\ OptTarget >= 2
  BY ParserAssumption DEF Texts
<1>5. CASE l.behind
  <2> DEFINE e == [c EXCEPT !.text.stem = {i}]
             f == FillOptions(e, i, 1, l.count)
  <2>1. full /\ l.count = OptTarget
    BY <1>4, <1>5
  <2> HIDE DEF c
  <2>2. e = [c EXCEPT !.text = [c.text EXCEPT !["stem"] = B]]
    OBVIOUS
  <2> HIDE DEF B
  <2> DEFINE text == [c.text EXCEPT !["stem"] = B]
  <2>3. text \in [Parts -> Texts] /\ text["stem"] = B /\ text["explanation"] = {} /\ text["trailing"] = {}
    BY <1>3, <1>4 DEF Parts
  <2> HIDE DEF text
  <2>4. e = [c EXCEPT !.text = text]
    BY <2>2 DEF text
  <2> HIDE DEF e
  <2>5. /\ e \in Question /\ e.number = l.n /\ e.section = q.section /\ e.correct = 0 /\ e.context = {} /\ e.issues = {}
        /\ e.text = text /\ \A k \in Option : e.options[k] = {}
    BY <1>3, <2>3, <2>4 DEF Question
  <2>6. 1 \in 1..OptTarget /\ l.count >= 1 /\ 1 + l.count - 1 = OptTarget /\ 1 + l.count - 1 <= OptTarget /\ 1..(1 + l.count - 1) = Option
    BY <1>4, <2>1 DEF Option
  <2>7. /\ f \in Question /\ f.width >= OptTarget
        /\ f.number = e.number /\ f.section = e.section /\ f.text = e.text
        /\ f.correct = e.correct /\ f.context = e.context /\ f.issues = e.issues
        /\ \A k \in Option : f.options[k] = e.options[k] \union {i}
    <3>1. FilledFrom(f, e, i, 1, OptTarget)
      BY <2>1, <2>5, FillAll
    <3> HIDE DEF f
    <3> QED
      BY <2>6, <3>1 DEF FilledFrom, Option
  <2>8. filled = f
    BY DEF e, B
  <2>9. Min({l.count, OptTarget}) = OptTarget
    <3>1. {l.count, OptTarget} = {OptTarget}
      BY <2>1
    <3> QED
      BY <1>4, <2>1, <3>1, MinOfTwo
  <2> HIDE DEF f, filled, full
  <2>10. t = [r EXCEPT !.last = l.n, !.cur = f, !.at = OptTarget, !.dest = "option", !.buf = {}]
    BY <1>1, <2>1, <2>8, <2>9
  <2> HIDE DEF t
  <2>11. /\ t \in Parser /\ t.out = r.out /\ t.section = r.section /\ t.contexts = r.contexts /\ t.pending = r.pending /\ t.blank = r.blank
         /\ t.last = l.n /\ t.cur = f /\ t.at = OptTarget /\ t.dest = "option" /\ t.buf = {}
    BY <1>2, <1>4, <2>7, <2>10 DEF Parser, Dests
  <2>12. \A k \in Option : f.options[k] = {i}
    BY <2>5, <2>7
  <2>13. f.text["stem"] = {i} /\ f.text["explanation"] = {} /\ f.text["trailing"] = {}
    BY <2>3, <2>5, <2>7 DEF B
  <2>14. Begun(t, r, l, i)
    BY <1>5, <2>5, <2>7, <2>11, <2>12, <2>13 DEF Begun
  <2> QED
    BY <2>14 DEF t
<1>6. CASE ~l.behind
  <2> HIDE DEF c, filled
  <2>1. ~full
    BY <1>6
  <2> HIDE DEF full, B
  <2>2. t = [r EXCEPT !.last = l.n, !.cur = c, !.at = 0, !.dest = "stem", !.buf = B]
    BY <1>1, <2>1 DEF B
  <2> HIDE DEF t
  <2>3. /\ t \in Parser /\ t.out = r.out /\ t.section = r.section /\ t.contexts = r.contexts /\ t.pending = r.pending /\ t.blank = r.blank
        /\ t.last = l.n /\ t.cur = c /\ t.at = 0 /\ t.dest = "stem" /\ t.buf = B
    BY <1>2, <1>3, <1>4, <2>2 DEF Parser, Dests, Parts
  <2>4. c.text["stem"] = {} /\ c.text["explanation"] = {} /\ c.text["trailing"] = {}
    BY <1>3 DEF Parts
  <2>5. Begun(t, r, l, i)
    BY <1>3, <1>6, <2>3, <2>4 DEF Begun, B
  <2> QED
    BY <2>5 DEF t
<1> QED
  BY <1>5, <1>6

\* A question as it is printed.
Asked(sh, i, l) ==
  [number |-> l.n, section |-> sh.label, stem |-> {i}, trailing |-> {}, explanation |-> {}, own |-> 0,
   options |-> [k \in Option |-> IF l.behind THEN {i} ELSE {}], issues |-> {}, govs |-> ReachingOf(sh, l.n)]
Marked(sh, i, l) ==
  [sh EXCEPT !.qs = Append(@, Asked(sh, i, l)), !.phase = IF l.behind THEN "options" ELSE "stem",
             !.given = IF l.behind THEN OptTarget ELSE 0, !.packed = l.behind,
             !.govs = IF @ # <<>> /\ @[Len(sh.govs)].from = 0 THEN [@ EXCEPT ![Len(sh.govs)].from = l.n] ELSE @]
AskedAs(m, sh, i, l) ==
  /\ m \in Printed /\ m.number = l.n /\ m.section = sh.label /\ m.stem = {i} /\ m.trailing = {} /\ m.explanation = {} /\ m.own = 0
  /\ m.issues = {} /\ m.govs = ReachingOf(sh, l.n) /\ \A k \in Option : m.options[k] = IF l.behind THEN {i} ELSE {}
\* The question a marker line means.
LEMMA AskedOf ==
  ASSUME NEW sh \in Sheet, NEW i \in Nat, NEW l \in Lines
  PROVE  AskedAs(Asked(sh, i, l), sh, i, l)
<1> DEFINE B == {i}
           options == [k \in Option |-> IF l.behind THEN B ELSE {}]
           G == ReachingOf(sh, l.n)
           m == [number |-> l.n, section |-> sh.label, stem |-> B, trailing |-> {}, explanation |-> {}, own |-> 0,
                 options |-> options, issues |-> {}, govs |-> G]
<1>1. G \in Texts
  BY SheetOf DEF ReachingOf, Texts
<1>2. B \in Texts /\ {} \in Texts /\ 0 \in 0..OptTarget /\ l.n \in Nat /\ sh.label \in Labels
  BY ParserAssumption, SheetOf DEF Texts, Lines
<1>3. Asked(sh, i, l) = m
  BY DEF Asked
<1> HIDE DEF B, G
<1>4. options \in [Option -> Texts] /\ \A k \in Option : options[k] = IF l.behind THEN B ELSE {}
  BY <1>2
<1> HIDE DEF options
<1>5. /\ m \in Printed /\ m.number = l.n /\ m.section = sh.label /\ m.stem = B /\ m.trailing = {} /\ m.explanation = {} /\ m.own = 0
      /\ m.issues = {} /\ m.govs = G /\ m.options = options
  BY <1>1, <1>2, <1>4 DEF Printed
<1> HIDE DEF m
<1>6. AskedAs(m, sh, i, l)
  BY <1>4, <1>5 DEF AskedAs, B, G
<1> QED
  BY <1>3, <1>6
\* next is the sheet sh with the question of the marker line l added, which is the
\* first one of the last preamble when that has none.
MarkedAs(next, sh, i, l) ==
  LET G == Len(sh.govs) V == next.govs IN
    /\ Added(sh, next, Asked(sh, i, l), l.n) /\ next.phase = (IF l.behind THEN "options" ELSE "stem")
    /\ next.given = (IF l.behind THEN OptTarget ELSE 0) /\ next.packed = l.behind
    /\ Len(V) = G /\ \A g \in 1..G : /\ g < G => V[g] = sh.govs[g]
                                     /\ V[g].text = sh.govs[g].text /\ V[g].to = sh.govs[g].to /\ V[g].explicit = sh.govs[g].explicit
                                     /\ V[g].closed = sh.govs[g].closed
                                     /\ V[g].from = IF g = G /\ sh.govs[g].from = 0 THEN l.n ELSE sh.govs[g].from
    /\ (G = 0 \/ sh.govs[G].from # 0) => V = sh.govs
\* The sheet behind a marker line.
LEMMA MarkedOf ==
  ASSUME NEW sh \in Sheet, NEW i \in Nat, NEW l \in Lines, l.n >= NextNumber(sh)
  PROVE  MarkedAs(Marked(sh, i, l), sh, i, l)
<1> DEFINE m == Asked(sh, i, l)
           G == Len(sh.govs)
           v == sh.govs[G]
           w == [v EXCEPT !.from = l.n]
           new == [sh.govs EXCEPT ![G] = w]
           V == IF sh.govs # <<>> /\ v.from = 0 THEN new ELSE sh.govs
           phase == IF l.behind THEN "options" ELSE "stem"
           given == IF l.behind THEN OptTarget ELSE 0
           qs == Append(sh.qs, m)
           next == [sh EXCEPT !.qs = qs, !.phase = phase, !.given = given, !.packed = l.behind, !.govs = V]
<1>1. Marked(sh, i, l) = next
  BY DEF Marked
<1>2. m \in Printed /\ m.number = l.n /\ m.govs = ReachingOf(sh, l.n)
  <2>1. AskedAs(m, sh, i, l)
    BY AskedOf
  <2> HIDE DEF m
  <2> QED
    BY <2>1 DEF AskedAs
<1>3. l.n \in Nat /\ l.behind \in BOOLEAN /\ sh.govs \in Seq(Preamble) /\ G \in Nat /\ sh.qs \in Seq(Printed)
  BY SheetOf DEF Lines
<1> HIDE DEF m
<1>4. qs \in Seq(Printed)
  BY <1>2, <1>3
<1>5. phase \in Phases /\ phase \in {"options", "stem"} /\ given \in 0..OptTarget
  BY ParserAssumption DEF Phases
<1>6. \A g \in 1..G : sh.govs[g] \in Preamble
  BY <1>3, ElementOfSeq
<1>7. sh.govs # <<>> <=> G # 0
  BY <1>3
<1>8. CASE G # 0 /\ v.from = 0
  <2>1. G \in 1..G /\ v \in Preamble
    BY <1>3, <1>6, <1>8
  <2>2. w \in Preamble /\ w.text = v.text /\ w.to = v.to /\ w.explicit = v.explicit /\ w.closed = v.closed /\ w.from = l.n
    BY <1>3, <2>1 DEF Preamble
  <2> HIDE DEF w
  <2>3. new \in Seq(Preamble) /\ Len(new) = G /\ new[G] = w /\ \A g \in 1..G : g < G => new[g] = sh.govs[g]
    BY <1>3, <2>1, <2>2
  <2>4. V = new
    BY <1>7, <1>8
  <2> HIDE DEF new, V, v
  <2>5. \A g \in 1..G : /\ g < G => V[g] = sh.govs[g]
                        /\ g = G => V[g] = w /\ sh.govs[g] = v
    BY <2>3, <2>4 DEF v
  <2>6. \A g \in 1..G : g < G \/ g = G
    BY <1>3
  <2>7. V \in Seq(Preamble) /\ Len(V) = G
    BY <2>3, <2>4
  <2>8. ~(G = 0 \/ sh.govs[G].from # 0)
    BY <1>8 DEF v
  <2>9. \A g \in 1..G : /\ g < G => V[g] = sh.govs[g]
                        /\ V[g].text = sh.govs[g].text /\ V[g].to = sh.govs[g].to /\ V[g].explicit = sh.govs[g].explicit
                        /\ V[g].closed = sh.govs[g].closed
                        /\ V[g].from = IF g = G /\ sh.govs[g].from = 0 THEN l.n ELSE sh.govs[g].from
    <3> TAKE g \in 1..G
    <3>1. CASE g < G
      BY <1>3, <2>5, <3>1
    <3>2. CASE g = G
      BY <1>3, <1>8, <2>2, <2>5, <3>2
    <3> QED
      BY <2>6, <3>1, <3>2
  <2> HIDE DEF qs, phase, given
  <2>10. /\ next \in Sheet /\ next.qs = qs /\ next.phase = phase /\ next.given = given /\ next.packed = l.behind /\ next.govs = V
         /\ next.label = sh.label
    BY <1>3, <1>4, <1>5, <2>7 DEF Sheet
  <2> HIDE DEF next
  <2>11. Added(sh, next, m, l.n)
    BY <1>2, <1>3, <1>5, <2>10 DEF Added, Aside, qs
  <2> QED
    BY <1>1, <2>7, <2>8, <2>9, <2>10, <2>11 DEF m, phase, given, MarkedAs
<1>9. CASE G = 0 \/ v.from # 0
  <2>1. V = sh.govs
    BY <1>7, <1>9
  <2> HIDE DEF qs, phase, given, V
  <2>2. /\ next \in Sheet /\ next.qs = qs /\ next.phase = phase /\ next.given = given /\ next.packed = l.behind /\ next.govs = sh.govs
        /\ next.label = sh.label
    BY <1>3, <1>4, <1>5, <2>1 DEF Sheet
  <2> HIDE DEF next
  <2>3. Added(sh, next, m, l.n)
    BY <1>2, <1>3, <1>5, <2>2 DEF Added, Aside, qs
  <2>4. \A g \in 1..G : (IF g = G /\ sh.govs[g].from = 0 THEN l.n ELSE sh.govs[g].from) = sh.govs[g].from
    BY <1>9
  <2> QED
    BY <1>1, <2>2, <2>3, <2>4 DEF m, phase, given, MarkedAs
<1> QED
  BY <1>8, <1>9

\* A question is opened.
LEMMA QuestionBegins ==
  ASSUME NEW d \in Seq(Lines), NEW sh \in Sheet, NEW q \in Parser, NumbersOK(sh, q), NEW l \in Lines, l.size = 1,
         l.n >= NextNumber(sh), NEW r, Shut(sh, q, r), r.blank = FALSE,
         NEW t, Begun(t, r, l, Len(d) + 1), ContextsOK(Marked(sh, Len(d) + 1, l), t)
  PROVE  ReaderOK(Append(d, l), Marked(sh, Len(d) + 1, l), t)
<1> DEFINE i == Len(d) + 1
           n == l.n
           P == Len(sh.qs)
           m == Asked(sh, i, l)
           next == Marked(sh, i, l)
           e == Append(d, l)
<1>1. i \in Nat /\ i >= 1 /\ e \in Seq(Lines) /\ Len(e) = i /\ i \in 1..Len(e)
  <2>1. Len(d) \in Nat
    OBVIOUS
  <2>2. e \in Seq(Lines) /\ Len(e) = i
    OBVIOUS
  <2> QED
    BY <2>1, <2>2
<1>2. Added(sh, next, m, n) /\ next.phase = (IF l.behind THEN "options" ELSE "stem")
      /\ next.given = (IF l.behind THEN OptTarget ELSE 0) /\ next.packed = l.behind
  <2>1. MarkedAs(next, sh, i, l)
    BY <1>1, MarkedOf
  <2> HIDE DEF next
  <2> QED
    BY <2>1 DEF MarkedAs
<1>3. /\ NumberOf(next) = n /\ NumberOf(sh) \in Nat /\ NumberOf(sh) < n /\ n >= FirstQuestion /\ n >= 1 /\ next.phase # "preamble"
      /\ P \in Nat /\ Len(next.qs) = P + 1 /\ next.qs[P + 1] = m /\ next.qs # <<>> /\ \A j \in 1..P : next.qs[j] = sh.qs[j]
  BY <1>2, AddedOf
<1>4. next \in Sheet /\ next.label = sh.label /\ ~Aside(next) /\ m.number = n /\ n \in Nat /\ l.behind \in BOOLEAN
  BY <1>2 DEF Added, Lines
<1>5. /\ m \in Printed /\ m.section = sh.label /\ m.stem = {i} /\ m.trailing = {} /\ m.explanation = {} /\ m.own = 0
      /\ m.issues = {} /\ \A k \in Option : m.options[k] = IF l.behind THEN {i} ELSE {}
  <2>1. AskedAs(m, sh, i, l)
    BY <1>1, AskedOf
  <2> HIDE DEF m
  <2> QED
    BY <2>1 DEF AskedAs
<1> HIDE DEF m, next, e
<1> DEFINE B == {i}
<1>6. B # {} /\ B \subseteq 1..Len(e) /\ Size(e, B) = 1 /\ Size(e, {}) = 0
  <2>1. Size(e, {} \union {Len(d) + 1}) = Size(d, {}) + l.size
    BY SizeGrows DEF e
  <2>2. {} \union {Len(d) + 1} = B
    OBVIOUS
  <2>3. Size(d, {}) = 0 /\ Size(e, {}) = 0
    BY <1>1, SizeNothing
  <2>4. Size(e, B) = 1
    BY <2>1, <2>2, <2>3
  <2> QED
    BY <1>1, <2>3, <2>4
<1>7. /\ t \in Parser /\ t.out = r.out /\ t.section = r.section /\ t.contexts = r.contexts /\ t.pending = r.pending /\ t.blank = r.blank
      /\ t.last = n /\ t.cur \in Question /\ t.cur.number = n /\ t.cur.section = r.section /\ t.cur.correct = 0 /\ t.cur.context = {}
      /\ t.cur.issues = {} /\ t.cur.text["explanation"] = {} /\ t.cur.text["trailing"] = {}
  BY DEF Begun
<1>8. l.behind => /\ t.cur.text["stem"] = B /\ (\A k \in Option : t.cur.options[k] = B) /\ t.cur.width >= OptTarget
                  /\ t.at = OptTarget /\ t.dest = "option" /\ t.buf = {}
  BY DEF Begun
<1>9. ~l.behind => /\ t.cur.text["stem"] = {} /\ (\A k \in Option : t.cur.options[k] = {})
                   /\ t.at = 0 /\ t.dest = "stem" /\ t.buf = B
  BY DEF Begun
<1>10. m.stem = B /\ \A k \in Option : m.options[k] = IF l.behind THEN B ELSE {}
  BY <1>5
<1> HIDE DEF B, i
<1>11. r.pending = None /\ r.section = q.section /\ q.section = sh.label /\ Len(r.out) = P /\ \A j \in 1..P : Same(r.out[j], sh.qs[j])
  BY DEF Shut, NumbersOK
<1>12. Current(next) = m
  BY <1>3 DEF Current
<1>13. FiledOK(next, t)
  BY <1>3, <1>4, <1>7, <1>11 DEF FiledOK
<1>14. NumbersOK(next, t)
  <2>1. ASSUME NEW j \in 1..Len(next.qs), NEW k \in 1..Len(next.qs), j < k PROVE next.qs[j].number < next.qs[k].number
    <3>1. j \in 1..P /\ (k \in 1..P \/ k = P + 1)
      BY <1>3, <2>1
    <3>2. CASE k \in 1..P
      BY <1>3, <2>1, <3>1, <3>2 DEF NumbersOK
    <3>3. CASE k = P + 1
      <4>1. sh.qs[j].number \in Nat /\ sh.qs[j].number <= NumberOf(sh)
        BY <3>1, Numbered
      <4>2. next.qs[j].number = sh.qs[j].number /\ next.qs[k].number = n
        BY <1>3, <1>4, <3>1, <3>3
      <4> QED
        BY <1>3, <1>4, <4>1, <4>2
    <3> QED
      BY <3>1, <3>2, <3>3
  <2>2. ASSUME NEW j \in 1..Len(next.qs) PROVE next.qs[j].number >= FirstQuestion
    <3>1. j \in 1..P \/ j = P + 1
      BY <1>3
    <3> QED
      BY <1>3, <1>4, <3>1 DEF NumbersOK
  <2>3. t.last = NumberOf(next) /\ t.section = next.label
    BY <1>3, <1>4, <1>7, <1>11
  <2> QED
    BY <1>4, <2>1, <2>2, <2>3 DEF NumbersOK
<1>15. next.phase \in {"options", "stem"}
  BY <1>2
<1>16. OpenOK(next, t)
  <2>1. t.cur.number = m.number /\ t.cur.section = m.section /\ t.cur.correct = m.own /\ m.stem # {} /\ t.cur.issues = m.issues
    BY <1>4, <1>5, <1>6, <1>7, <1>10, <1>11
  <2>2. /\ t.cur.text["stem"] \union Held(t, "stem") = m.stem /\ t.cur.text["explanation"] \union Held(t, "explanation") = m.explanation
        /\ t.cur.text["trailing"] \union Held(t, "trailing") = m.trailing
    <3>1. CASE l.behind
      BY <1>5, <1>7, <1>8, <1>10, <3>1 DEF Held
    <3>2. CASE ~l.behind
      BY <1>5, <1>7, <1>9, <1>10, <3>2 DEF Held
    <3> QED
      BY <3>1, <3>2
  <2>3. \A k \in Option : t.cur.options[k] \union HeldBy(next, t, k) = m.options[k]
    <3>1. CASE l.behind
      BY <1>8, <1>10, <3>1 DEF Held, HeldBy
    <3>2. CASE ~l.behind
      BY <1>9, <1>10, <3>2 DEF Held, HeldBy
    <3> QED
      BY <3>1, <3>2
  <2>4. t.at <= t.cur.width /\ Fits(t.cur)
    <3>1. t.cur.width \in Nat /\ OptTarget \in Nat
      BY <1>7, QuestionOf, ParserAssumption
    <3>2. CASE l.behind
      BY <1>8, <3>1, <3>2 DEF Fits, Option
    <3>3. CASE ~l.behind
      BY <1>9, <3>1, <3>3 DEF Fits
    <3> QED
      BY <3>2, <3>3
  <2>5. Spilled(next, t) = {} /\ next.phase # "spilled"
    BY <1>15 DEF Spilled
  <2>6. Matches(next, t, t.cur, m)
    BY <1>7, <2>1, <2>2, <2>3, <2>4, <2>5 DEF Matches
  <2> QED
    BY <1>3, <1>7, <1>11, <1>12, <2>6 DEF OpenOK
<1>17. PhaseOK(next, t)
  <2>1. CASE l.behind
    <3>1. next.phase = "options" /\ next.given = OptTarget /\ t.at = OptTarget /\ t.at >= 1 /\ t.dest = "option" /\ ~t.blank
      BY <1>2, <1>7, <1>8, <2>1, ParserAssumption
    <3>2. \A k \in Option : m.options[k] # {} /\ t.cur.options[k] # {}
      BY <1>6, <1>8, <1>10, <2>1
    <3>3. \A k \in Option : k <= t.at
      BY <3>1, ParserAssumption DEF Option
    <3>4. \A k \in Option : m.options[k] # {} /\ k <= t.at /\ t.cur.options[k] # {}
      BY <3>2, <3>3
    <3>5. \A k \in 1..t.at : t.cur.options[k] # {}
      BY <3>1, <3>4 DEF Option
    <3> QED
      BY <1>5, <1>12, <3>1, <3>4, <3>5 DEF PhaseOK
  <2>2. CASE ~l.behind
    <3>1. next.phase = "stem" /\ next.given = 0 /\ t.at = 0 /\ t.dest = "stem" /\ \A k \in Option : m.options[k] = {}
      BY <1>2, <1>9, <1>10, <2>2
    <3> QED
      BY <1>5, <1>12, <3>1 DEF PhaseOK
  <2> QED
    BY <2>1, <2>2
<1>18. LengthsOK(e, next, t)
  <2>1. t.buf \subseteq 1..Len(e)
    BY <1>6, <1>8, <1>9
  <2>2. CASE l.behind
    <3>1. Short(e, m)
      <4>1. ASSUME NEW k \in Option PROVE m.options[k] \subseteq 1..Len(e) /\ Size(e, m.options[k]) <= 2
        <5>1. m.options[k] = B
          BY <1>10, <2>2
        <5>2. B \subseteq 1..Len(e) /\ Size(e, B) <= 2
          BY <1>6
        <5> QED
          BY <5>1, <5>2
      <4> QED
        BY <4>1 DEF Short
    <3>2. next.given \in Option
      BY <1>2, <2>2, ParserAssumption DEF Option
    <3>3. Size(e, m.options[next.given]) <= 1 /\ t.buf = {}
      BY <1>6, <1>8, <1>10, <2>2, <3>2
    <3> QED
      BY <1>12, <1>15, <2>1, <3>1, <3>3 DEF LengthsOK
  <2>3. CASE ~l.behind
    <3>1. next.phase = "stem"
      BY <1>2, <2>3
    <3> QED
      BY <2>1, <3>1 DEF LengthsOK
  <2> QED
    BY <2>2, <2>3
<1>19. Typed(e, next, t)
  BY <1>1, <1>4, <1>7 DEF Typed
<1>20. ContextsOK(next, t)
  BY DEF next, i
<1>21. ReaderOK(e, next, t)
  BY <1>13, <1>14, <1>16, <1>17, <1>18, <1>19, <1>20 DEF ReaderOK
<1> QED
  BY <1>21 DEF e, next, i

\* A marker where no preamble waits.
LEMMA ReadMarkerAfter ==
  ASSUME NEW d, NEW sh, NEW q, Ready(d, sh, q), sh.phase # "preamble", NEW l \in Lines, l.size = 1,
         l.n >= NextNumber(sh), l.behind => l.count = OptTarget
  PROVE  ReaderOK(Append(d, l), Marked(sh, Len(d) + 1, l), ReadMarker(d, q, l, Len(d) + 1))
<1> DEFINE i == Len(d) + 1
           L == Len(q.contexts)
           m == Asked(sh, i, l)
           next == Marked(sh, i, l)
           r == CloseQuestion(d, CloseContext(d, q, l.n))
           t == ReadMarker(d, q, l, i)
<1>1. ReaderOK(d, sh, q) /\ d \in Seq(Lines) /\ sh \in Sheet /\ q \in Parser /\ NumbersOK(sh, q) /\ ContextsOK(sh, q) /\ q.blank = FALSE
  BY ParserOf DEF Ready, ReaderOK, Typed
<1>2. i \in Nat
  BY <1>1
<1>3. Shut(sh, q, r) /\ r.contexts = q.contexts
  <2>1. LET s == CloseQuestion(d, q) IN
           /\ Shut(sh, q, s) /\ s.contexts = q.contexts
           /\ \A n : CloseContext(d, s, n) = s /\ CloseQuestion(d, CloseContext(d, q, n)) = s
    BY <1>1, Closes
  <2> QED
    BY <2>1
<1>4. r \in Parser /\ r.section = q.section /\ r.blank = FALSE
  BY <1>1, <1>3 DEF Shut
<1>5. r = CloseQuestion(d, CloseContext(d, q, l.n))
  OBVIOUS
<1> HIDE DEF r
<1>6. Begun(t, r, l, i)
  BY <1>2, <1>4, <1>5, Begins
<1>7. t.contexts = q.contexts
  BY <1>3, <1>6 DEF Begun
<1>8. Added(sh, next, m, l.n) /\ ((Len(sh.govs) = 0 \/ sh.govs[Len(sh.govs)].from # 0) => next.govs = sh.govs)
  <2>1. MarkedAs(next, sh, i, l)
    BY <1>1, <1>2, MarkedOf
  <2> HIDE DEF next
  <2> QED
    BY <2>1 DEF MarkedAs
<1>9. Len(sh.govs) = 0 \/ sh.govs[Len(sh.govs)].from # 0
  <2>1. Len(sh.govs) = L /\ L \in Nat
    BY <1>1, ParserOf DEF ContextsOK
  <2>2. L # 0 => Told(q.contexts[L], sh.govs[L])
    BY <1>1, <2>1 DEF ContextsOK
  <2> QED
    BY <2>1, <2>2 DEF Told
<1> HIDE DEF t, next, m
<1>10. ContextsOK(next, t)
  BY <1>1, <1>7, <1>8, <1>9, AddedUnder
<1>11. ContextsOK(Marked(sh, Len(d) + 1, l), t) /\ Begun(t, r, l, Len(d) + 1)
  BY <1>6, <1>10 DEF next
<1> HIDE DEF i
<1>12. ReaderOK(Append(d, l), Marked(sh, Len(d) + 1, l), t)
  BY <1>1, <1>3, <1>4, <1>11, QuestionBegins
<1> QED
  BY <1>12 DEF t, i

\* A marker behind a preamble that waits for it.
LEMMA ReadMarkerFirst ==
  ASSUME NEW d, NEW sh, NEW q, Ready(d, sh, q), sh.phase = "preamble", NEW l \in Lines, l.size = 1,
         l.n >= NextNumber(sh), l.behind => l.count = OptTarget
  PROVE  ReaderOK(Append(d, l), Marked(sh, Len(d) + 1, l), ReadMarker(d, q, l, Len(d) + 1))
<1> DEFINE i == Len(d) + 1
           n == l.n
           L == Len(q.contexts)
           m == Asked(sh, i, l)
           next == Marked(sh, i, l)
           r == CloseQuestion(d, CloseContext(d, q, l.n))
           t == ReadMarker(d, q, l, i)
           v == sh.govs[Len(sh.govs)]
<1>1. ReaderOK(d, sh, q) /\ d \in Seq(Lines) /\ sh \in Sheet /\ q \in Parser /\ NumbersOK(sh, q) /\ ContextsOK(sh, q) /\ q.blank = FALSE
  BY ParserOf DEF Ready, ReaderOK, Typed
<1>2. i \in Nat /\ n \in Nat /\ n >= 1 /\ L \in Nat /\ Len(sh.govs) = L + 1
  <2>1. n \in Nat
    BY DEF Lines
  <2>2. NumberOf(sh) \in Nat /\ FirstQuestion \in Nat /\ FirstQuestion >= 1
    BY <1>1, Numbered, ParserAssumption, PrinterAssumption
  <2>3. n >= 1
    BY <2>1, <2>2 DEF NextNumber
  <2>4. L \in Nat
    BY <1>1, ParserOf
  <2> QED
    BY <1>1, <2>1, <2>3, <2>4 DEF ContextsOK
<1>3. Shut(sh, q, r) /\ Taken(r.contexts, q, v, n)
  BY <1>1, <1>2, ClosesPreamble
<1>4. r \in Parser /\ r.section = q.section /\ r.blank = FALSE
  BY <1>1, <1>3 DEF Shut
<1>5. r = CloseQuestion(d, CloseContext(d, q, l.n))
  OBVIOUS
<1> HIDE DEF r
<1>6. Begun(t, r, l, i)
  BY <1>2, <1>4, <1>5, Begins
<1>7. t.contexts = r.contexts /\ t.contexts \in Seq(Context)
  BY <1>4, <1>6, ParserOf DEF Begun
<1> DEFINE V == next.govs
           w == V[L + 1]
<1>8. /\ Added(sh, next, m, n) /\ Len(V) = L + 1
      /\ \A g \in 1..(L + 1) : /\ g < L + 1 => V[g] = sh.govs[g]
                               /\ V[g].text = sh.govs[g].text /\ V[g].to = sh.govs[g].to /\ V[g].explicit = sh.govs[g].explicit
                               /\ V[g].closed = sh.govs[g].closed
                               /\ V[g].from = IF g = L + 1 /\ sh.govs[g].from = 0 THEN l.n ELSE sh.govs[g].from
  <2>1. MarkedAs(next, sh, i, l)
    BY <1>1, <1>2, MarkedOf
  <2> HIDE DEF next
  <2> QED
    BY <1>2, <2>1 DEF MarkedAs
<1> HIDE DEF t, next, m, V
<1>9. Numbers(V, sh.govs, L, n)
  <2>1. L + 1 \in 1..(L + 1) /\ (\A g \in 1..L : g \in 1..(L + 1) /\ g < L + 1) /\ v = sh.govs[L + 1]
    BY <1>2
  <2>2. \A g \in 1..L : V[g] = sh.govs[g]
    BY <1>8, <2>1
  <2>3. /\ w.text = v.text /\ w.to = v.to /\ w.explicit = v.explicit /\ w.closed = v.closed
        /\ w.from = IF v.from = 0 THEN n ELSE v.from
    BY <1>8, <2>1
  <2> QED
    BY <1>8, <2>2, <2>3 DEF Numbers
<1>10. ContextsOK(next, t)
  <2>1. Taken(t.contexts, q, v, n) /\ Numbers(next.govs, sh.govs, L, n)
    BY <1>3, <1>7, <1>9 DEF V
  <2>2. Added(sh, next, m, n) /\ t.contexts \in Seq(Context)
    BY <1>7, <1>8
  <2> QED
    BY <1>1, <2>1, <2>2, AddedFirst
<1>11. ContextsOK(Marked(sh, Len(d) + 1, l), t) /\ Begun(t, r, l, Len(d) + 1)
  BY <1>6, <1>10 DEF next
<1> HIDE DEF i
<1>12. ReaderOK(Append(d, l), Marked(sh, Len(d) + 1, l), t)
  BY <1>1, <1>3, <1>4, <1>11, QuestionBegins
<1> QED
  BY <1>12 DEF t, i

-----------------------------------------------------------------------------
\* What a line is taken for.

\* A blank line is read as one.
LEMMA ClassBlank == ASSUME NEW s, NEW q, NEW l, l.kind = "blank" PROVE Class(s, q, l) = "blank"
  BY DEF Class
\* A range that is plausible, or a lead-in between questions, is a preamble's.
LEMMA ClassPreamble ==
  ASSUME NEW s, NEW q, NEW l, PlausibleRange(l) \/ (l.kind = "lead-in" /\ l.n = 0 /\ Between(q))
  PROVE  Class(s, q, l) = "preamble"
  BY DEF Class, PlausibleRange
\* A line of marks is no question number.
Refused(s, q, l) == l.n = 0 \/ ClaimedByOption(s, q, l) \/ ~AcceptQuestionNumber(s, q, l.n)
\* Marks with a number that is accepted begin a question.
LEMMA ClassMarker ==
  ASSUME NEW s, NEW q, NEW l \in Lines, l.kind = "marks", l.n > 0, ~ClaimedByOption(s, q, l), AcceptQuestionNumber(s, q, l.n)
  PROVE  Class(s, q, l) = "marker"
  BY DEF Class, PlausibleRange
\* Marks of two options or more that go on behind the last, or begin again, are a row.
LEMMA ClassRow ==
  ASSUME NEW s, NEW q, NEW l \in Lines, l.kind = "marks", Refused(s, q, l), q.cur # None, l.count >= 2, l.idx \in {1, q.at + 1}
  PROVE  Class(s, q, l) = "row"
<1>1. ~(l.n > 0 /\ ~ClaimedByOption(s, q, l) /\ AcceptQuestionNumber(s, q, l.n))
  BY DEF Refused
<1> QED
  BY <1>1 DEF Class, PlausibleRange
\* A mark of the next option is that option.
LEMMA ClassOption ==
  ASSUME NEW s, NEW q, NEW l \in Lines, l.kind = "marks", Refused(s, q, l), q.cur # None, ~(l.count >= 2), l.idx = q.at + 1, l.idx <= OptTarget
  PROVE  Class(s, q, l) = "option"
<1>1. ~(l.n > 0 /\ ~ClaimedByOption(s, q, l) /\ AcceptQuestionNumber(s, q, l.n))
  BY DEF Refused
<1> QED
  BY <1>1 DEF Class, PlausibleRange
\* A line without marks.
Bare(l) == l.n = 0 /\ l.count = 0 /\ l.idx = 0
\* An answer's line inside a question is one.
LEMMA ClassAnswer ==
  ASSUME NEW s, NEW q, q.at \in Nat, NEW l, Bare(l), l.kind \in {"answer", "solution"}, q.cur # None
  PROVE  Class(s, q, l) = l.kind
<1>1. l.idx # q.at + 1
  BY DEF Bare
<1> QED
  BY <1>1 DEF Class, PlausibleRange, Bare
\* A heading is one unless the options are being read.
LEMMA ClassHeading ==
  ASSUME NEW s, NEW q, q.at \in Nat, NEW l, Bare(l), l.kind = "heading" \/ (l.kind = "part" /\ q.cur = None), ~MidOptionRun(q)
  PROVE  Class(s, q, l) = "heading"
<1>1. l.idx # q.at + 1
  BY DEF Bare
<1> QED
  BY <1>1 DEF Class, PlausibleRange, Bare
\* What is nothing else is text.
LEMMA ClassText ==
  ASSUME NEW s, NEW q, q.at \in Nat, NEW l \in Lines, l.count = 0, l.idx = 0, Refused(s, q, l),
         \/ l.kind \in {"text", "marks"}
         \/ l.kind = "lead-in" /\ ~Between(q)
         \/ l.kind = "heading" /\ MidOptionRun(q)
         \/ l.kind = "part" /\ q.cur # None
  PROVE  Class(s, q, l) = "text"
<1>1. ~(l.n > 0 /\ ~ClaimedByOption(s, q, l) /\ AcceptQuestionNumber(s, q, l.n))
  BY DEF Refused
<1>2. l.idx # q.at + 1
  BY DEF Lines
<1> QED
  BY <1>1, <1>2 DEF Class, PlausibleRange

\* Where the parser stands when a line is read.
LEMMA FilledAtLeast ==
  ASSUME NEW c, \A k \in 1..(OptTarget - 1) : c.options[k] # {}
  PROVE  Filled(c) >= OptTarget - 1 /\ Filled(c) \in Nat
<1> DEFINE S == {k \in Option : c.options[k] # {}}
<1>1. OptTarget \in Nat /\ OptTarget >= 2 /\ OptTarget - 1 \in Nat
  BY ParserAssumption
<1>2. 1..(OptTarget - 1) \subseteq S
  BY <1>1 DEF Option
<1>3. IsFiniteSet(Option) /\ S \subseteq Option
  BY <1>1, FS_Interval DEF Option
<1>4. IsFiniteSet(S)
  BY <1>3, FS_Subset
<1>5. Cardinality(1..(OptTarget - 1)) = OptTarget - 1
  BY <1>1, FS_Interval
<1>6. Cardinality(1..(OptTarget - 1)) <= Cardinality(S) /\ Cardinality(S) \in Nat
  BY <1>2, <1>4, FS_Subset, FS_CardinalityType
<1> QED
  BY <1>5, <1>6 DEF Filled
\* Where the parser stands in each phase of the printer.
LEMMA Stands ==
  ASSUME NEW d, NEW sh, NEW q, Ready(d, sh, q)
  PROVE  /\ ReaderOK(d, sh, q) /\ d \in Seq(Lines) /\ sh \in Sheet /\ q \in Parser /\ q.at \in 0..OptTarget /\ q.at \in Nat /\ OptTarget \in Nat /\ OptTarget >= 2
         /\ sh.given \in 0..OptTarget /\ sh.given \in Nat
         /\ Aside(sh) => q.cur = None /\ q.at = 0 /\ (sh.qs # <<>> => q.complete)
         /\ ~Aside(sh) => q.cur # None /\ sh.qs # <<>>
         /\ sh.phase = "stem" => q.at = 0
         /\ sh.phase = "options" => q.at = sh.given /\ q.at >= 1
         /\ sh.phase \in {"closed", "spilled", "answered", "solved"} => q.at = OptTarget /\ sh.given = OptTarget /\ Filled(q.cur) = OptTarget
         /\ sh.phase = "options" /\ sh.given = OptTarget /\ sh.packed => Filled(q.cur) = OptTarget
         /\ sh.phase = "options" /\ sh.given = OptTarget => Filled(q.cur) >= OptTarget - 1
<1>1. ReaderOK(d, sh, q) /\ d \in Seq(Lines) /\ sh \in Sheet /\ q \in Parser /\ PhaseOK(sh, q) /\ NumbersOK(sh, q)
  BY DEF Ready, ReaderOK, Typed
<1>2. q.at \in 0..OptTarget /\ q.at \in Nat /\ OptTarget \in Nat /\ OptTarget >= 2 /\ sh.given \in 0..OptTarget /\ sh.given \in Nat
  BY <1>1, ParserOf, SheetOf, ParserAssumption
<1>3. Aside(sh) => q.cur = None /\ q.at = 0 /\ (sh.qs # <<>> => q.complete)
  BY <1>1 DEF PhaseOK, NumbersOK, Aside
<1>4. ~Aside(sh) => q.cur # None /\ sh.qs # <<>>
  BY <1>1, OpenFacts
<1>5. (sh.phase = "stem" => q.at = 0) /\ (sh.phase = "options" => q.at = sh.given /\ q.at >= 1)
  BY <1>1 DEF PhaseOK
<1>6. ASSUME sh.phase \in {"closed", "spilled", "answered", "solved"}
      PROVE  q.at = OptTarget /\ sh.given = OptTarget /\ Filled(q.cur) = OptTarget
  <2>1. Complete(sh, q)
    BY <1>1, <1>6 DEF PhaseOK
  <2> QED
    BY <2>1, FilledOf DEF Complete
<1>7. ASSUME sh.phase = "options", sh.given = OptTarget, sh.packed PROVE Filled(q.cur) = OptTarget
  <2>1. \A k \in Option : q.cur.options[k] # {}
    BY <1>1, <1>7 DEF PhaseOK, Option
  <2> QED
    BY <2>1, FilledOf
<1>8. ASSUME sh.phase = "options", sh.given = OptTarget PROVE Filled(q.cur) >= OptTarget - 1
  <2>1. q.at = OptTarget /\ Matches(sh, q, q.cur, Current(sh)) /\ \A k \in Option : Current(sh).options[k] # {} <=> k <= q.at
    <3>1. ~Aside(sh)
      BY <1>8 DEF Aside
    <3> QED
      BY <1>1, <1>8, <3>1, OpenFacts DEF PhaseOK
  <2>2. ASSUME NEW k \in 1..(OptTarget - 1) PROVE q.cur.options[k] # {}
    <3>1. k \in Option /\ k # q.at /\ k <= q.at
      BY <1>2, <2>1 DEF Option
    <3>2. HeldBy(sh, q, k) = {}
      BY <3>1 DEF HeldBy
    <3>3. q.cur.options[k] \union HeldBy(sh, q, k) = Current(sh).options[k]
      BY <2>1, <3>1 DEF Matches
    <3> QED
      BY <2>1, <3>1, <3>2, <3>3
  <2> QED
    BY <2>2, FilledAtLeast
<1> QED
  BY <1>1, <1>2, <1>3, <1>4, <1>5, <1>6, <1>7, <1>8

-----------------------------------------------------------------------------
\* Each line the printer may print is read as it is meant.

\* What becomes of the parser when it takes line l for a line of a class.
Turn(class, q, l, t) ==
  /\ class = "preamble" => t = OpenContext(doc, q, l, line)
  /\ class = "marker" => t = ReadMarker(doc, q, l, line)
  /\ class = "row" => t = ReadRow(doc, q, l, line)
  /\ class = "option" => t = ReadOption(doc, q, l, line)
  /\ class = "answer" => t = ReadAnswer(doc, q, l)
  /\ class = "solution" => t = ReadSolution(doc, q, l, line)
  /\ class = "heading" => t = StartSection(doc, q, l)
  /\ class = "text" => t = ReadText(q, line)
Heard(q, choice, t) == Turn(Class(style, q, choice[1]), q, choice[1], t)
Follows(choice, t) == ReaderOK(Append(doc, choice[1]), choice[2], t)

\* The plain line.
LEMMA LineOf == Line \in Lines /\ Bare(Line) /\ Line.size = 1 /\ Line.kind = "text" /\ Line.from = 0 /\ Line.to = 0
  BY ParserAssumption DEF Line, Lines, Kinds, Labels, Bare
\* A line of a kind, with no marks.
LEMMA KindOf ==
  ASSUME NEW kind \in Kinds
  PROVE  LET l == [Line EXCEPT !.kind = kind] IN l \in Lines /\ Bare(l) /\ l.size = 1 /\ l.kind = kind /\ l.from = 0 /\ l.to = 0
  BY LineOf DEF Lines, Bare

\* The printer's blank line is read as it is meant.
LEMMA HearsBlank ==
  ASSUME ReaderOK(doc, sheet, p), NEW choice \in PrintBlank, NEW t, t = [Commit(doc, p) EXCEPT !.blank = TRUE]
  PROVE  Follows(choice, t)
<1>1. /\ sheet.phase \notin {"front", "preamble"} /\ choice[1] = Blank
      /\ choice[2] = [sheet EXCEPT !.phase = IF @ \in {"options", "spilled"} /\ sheet.given = OptTarget THEN "closed" ELSE @]
  BY DEF PrintBlank, When, Say
<1>2. Blank \in Lines /\ Blank.kind = "blank" /\ ~Aside(sheet)
  BY <1>1, KindOf DEF Blank, Kinds, Aside
<1>3. ReaderOK(Append(doc, Blank), [sheet EXCEPT !.phase = IF @ \in {"options", "spilled"} /\ sheet.given = OptTarget THEN "closed" ELSE @],
               [Commit(doc, p) EXCEPT !.blank = TRUE])
  BY <1>2, ReadBlank
<1> QED
  BY <1>1, <1>3 DEF Follows

\* The number after the last is refused as more of a stem's text.
LEMMA HearsStem ==
  ASSUME NEW q, Ready(doc, sheet, q), NEW choice \in PrintStem, NEW t, Heard(q, choice, t)
  PROVE  Follows(choice, t)
<1> DEFINE far == [Line EXCEPT !.kind = "marks", !.n = Latest + MaxNumberGap + 1]
           more == [sheet EXCEPT !.qs[here].stem = @ \union {line}]
<1>1. /\ sheet.phase = "stem" /\ choice[2] = more
      /\ choice[1] = Line \/ choice[1] = [Line EXCEPT !.kind = "lead-in"] \/ (choice[1] = far /\ style # "prefixed")
  BY DEF PrintStem, When, Say
<1>2. /\ ReaderOK(doc, sheet, q) /\ doc \in Seq(Lines) /\ sheet \in Sheet /\ q \in Parser /\ q.at \in Nat /\ OptTarget \in Nat /\ OptTarget >= 2 /\ ~Aside(sheet)
      /\ q.cur # None /\ q.at = 0 /\ sheet.qs # <<>>
  BY <1>1, Stands DEF Aside
<1>3. choice[1] \in Lines /\ Class(style, q, choice[1]) = "text"
  <2>1. CASE choice[1] = Line
    <3>1. Line.count = 0 /\ Line.idx = 0 /\ Refused(style, q, Line) /\ Line.kind = "text" /\ Line \in Lines
      BY LineOf DEF Bare, Refused
    <3> QED
      BY <1>2, <2>1, <3>1, ClassText
  <2>2. CASE choice[1] = [Line EXCEPT !.kind = "lead-in"]
    <3> DEFINE l == [Line EXCEPT !.kind = "lead-in"]
    <3>1. l \in Lines /\ Bare(l) /\ l.kind = "lead-in"
      BY KindOf DEF Kinds
    <3>2. ~Between(q)
      BY <1>2 DEF Between
    <3> HIDE DEF l
    <3>3. l.count = 0 /\ l.idx = 0 /\ Refused(style, q, l)
      BY <3>1 DEF Bare, Refused
    <3>4. Class(style, q, l) = "text"
      BY <1>2, <3>1, <3>2, <3>3, ClassText
    <3> QED
      BY <2>2, <3>1, <3>4 DEF l
  <2>3. CASE choice[1] = far /\ style # "prefixed"
    <3>1. NumberOf(sheet) \in Nat /\ NumberOf(sheet) >= FirstQuestion /\ Latest = NumberOf(sheet) /\ q.last = NumberOf(sheet)
      <4>1. NumbersOK(sheet, q) /\ sheet.qs \in Seq(Printed)
        BY <1>2, SheetOf DEF ReaderOK
      <4>2. here # 0
        BY <1>2, <4>1 DEF here
      <4>3. Latest = NumberOf(sheet)
        BY <1>2, <4>2 DEF Latest, NumberOf, here
      <4> QED
        BY <1>2, <4>1, <4>3, Numbered DEF NumbersOK
    <3> DEFINE n == Latest + MaxNumberGap + 1
    <3>2. n \in Nat /\ n > 0 /\ n # q.last + 1 /\ n - q.last \notin 1..MaxNumberGap /\ q.last > 0
      BY <3>1, ParserAssumption, PrinterAssumption
    <3>3. ~AcceptQuestionNumber(style, q, n)
      BY <2>3, <3>2 DEF AcceptQuestionNumber
    <3> HIDE DEF n
    <3>4. far = [Line EXCEPT !.kind = "marks", !.n = n]
      BY DEF n
    <3>5. far \in Lines /\ far.count = 0 /\ far.idx = 0 /\ far.n = n /\ far.kind = "marks"
      BY <3>2, <3>4, LineOf DEF Lines, Kinds, Bare
    <3> HIDE DEF far
    <3>6. Refused(style, q, far)
      BY <3>3, <3>5 DEF Refused
    <3>7. Class(style, q, far) = "text"
      BY <1>2, <3>5, <3>6, ClassText
    <3> QED
      BY <2>3, <3>5, <3>7
  <2> QED
    BY <1>1, <2>1, <2>2, <2>3
<1>4. t = ReadText(q, line)
  BY <1>3 DEF Heard, Turn
<1>5. ReaderOK(Append(doc, choice[1]), [sheet EXCEPT !.qs[Len(sheet.qs)].stem = @ \union {Len(doc) + 1}], ReadText(q, Len(doc) + 1))
  BY <1>1, <1>3, StemLine
<1> QED
  BY <1>1, <1>4, <1>5 DEF Follows, line, here

\* A plain line is text.
LEMMA PlainLine ==
  ASSUME NEW q, q.at \in Nat
  PROVE  Line \in Lines /\ Class(style, q, Line) = "text"
<1>1. Line.count = 0 /\ Line.idx = 0 /\ Refused(style, q, Line) /\ Line.kind = "text" /\ Line \in Lines
  BY LineOf DEF Bare, Refused
<1> QED
  BY <1>1, ClassText

\* When a question is done.
LEMMA DoneOf ==
  ASSUME NEW q, Ready(doc, sheet, q), Done
  PROVE  /\ ~Aside(sheet) /\ Over(sheet) /\ q.at = OptTarget /\ sheet.given = OptTarget /\ sheet.phase \notin {"stem", "front", "preamble"}
         /\ sheet.phase # "options" => Filled(q.cur) = OptTarget
<1>1. ~Aside(sheet) /\ sheet.phase # "stem" /\ sheet.phase \notin {"front", "preamble"} /\ (sheet.phase = "options" => sheet.given = OptTarget)
  BY DEF Done, Aside
<1>2. q.at = OptTarget /\ sheet.given = OptTarget /\ \A k \in Option : Current(sheet).options[k] # {}
  BY <1>1, AllFilled DEF Ready
<1>3. sheet.phase # "options" => Filled(q.cur) = OptTarget
  BY Stands DEF Done
<1> QED
  BY <1>1, <1>2, <1>3 DEF Over

\* Text that goes on is read as it is meant.
LEMMA HearsWrap ==
  ASSUME NEW q, Ready(doc, sheet, q), NEW choice \in PrintWrap, NEW t, Heard(q, choice, t)
  PROVE  Follows(choice, t)
<1> DEFINE l == [Line EXCEPT !.kind = "heading", !.label = "A"]
           more == [sheet EXCEPT !.qs[here].options[sheet.given] = @ \union {line}]
<1>1. PrintWrap = When(sheet.phase = "options" /\ After({"marks"}), Say(Line, more) \union When(sheet.given < OptTarget, Say(l, more)))
  BY DEF PrintWrap
<1> HIDE DEF l, more
<1>2. /\ sheet.phase = "options" /\ After({"marks"}) /\ choice[2] = more
      /\ choice[1] = Line \/ (choice[1] = l /\ sheet.given < OptTarget)
  BY <1>1 DEF When, Say
<1>3. q.at \in Nat /\ q.at = sheet.given /\ q.at >= 1
  BY <1>2, Stands
<1>4. AfterMarks(doc)
  BY <1>2 DEF AfterMarks, After
<1>5. choice[1] \in Lines /\ Class(style, q, choice[1]) = "text" /\ choice[1].size = 1 /\ choice[1].kind # "marks"
  <2>1. CASE choice[1] = Line
    BY <1>3, <2>1, PlainLine, LineOf
  <2>2. CASE choice[1] = l /\ sheet.given < OptTarget
    <3>1. l \in Lines /\ l.count = 0 /\ l.idx = 0 /\ l.n = 0 /\ l.kind = "heading" /\ l.size = 1
      BY LineOf DEF Lines, Bare, Kinds, Labels, l
    <3>2. MidOptionRun(q) /\ Refused(style, q, l)
      BY <1>3, <2>2, <3>1, ParserAssumption DEF MidOptionRun, Refused
    <3>3. Class(style, q, l) = "text"
      BY <1>3, <3>1, <3>2, ClassText
    <3> QED
      BY <2>2, <3>1, <3>3
  <2> QED
    BY <1>2, <2>1, <2>2
<1>6. t = ReadText(q, line)
  BY <1>5 DEF Heard, Turn
<1>7. ReaderOK(Append(doc, choice[1]), [sheet EXCEPT !.qs[Len(sheet.qs)].options[sheet.given] = @ \union {Len(doc) + 1}], ReadText(q, Len(doc) + 1))
  BY <1>2, <1>4, <1>5, WrapLine
<1> QED
  BY <1>2, <1>6, <1>7 DEF Follows, line, here, more

\* Page furniture and foreign text are read as they are meant.
LEMMA HearsFurniture ==
  ASSUME NEW q, Ready(doc, sheet, q), NEW choice \in PrintFurniture, NEW t, Heard(q, choice, t)
  PROVE  Follows(choice, t)
<1> DEFINE more == [sheet EXCEPT !.qs[here].trailing = @ \union {line}]
<1>1. \/ sheet.phase = "closed" /\ choice[2] = more /\ choice[1] \in {Line, [Line EXCEPT !.kind = "part"]}
      \/ /\ sheet.phase = "options" /\ sheet.given = OptTarget /\ sheet.packed /\ After({"marks"}) /\ OptTarget >= 4
         /\ choice[1] = LongText /\ choice[2] = [more EXCEPT !.phase = "spilled", !.qs[here].issues = @ \union {"overrun"}]
  <2> DEFINE part == [Line EXCEPT !.kind = "part"]
             spilled == [more EXCEPT !.phase = "spilled", !.qs[here].issues = @ \union {"overrun"}]
             full == sheet.phase = "options" /\ sheet.given = OptTarget /\ sheet.packed /\ After({"marks"}) /\ OptTarget >= 4
  <2>1. PrintFurniture = When(sheet.phase = "closed", Say(Line, more) \union Say(part, more)) \union When(full, Say(LongText, spilled))
    BY DEF PrintFurniture
  <2> HIDE DEF part, spilled, full, more
  <2>2. \/ sheet.phase = "closed" /\ choice[2] = more /\ choice[1] \in {Line, part}
        \/ full /\ choice[1] = LongText /\ choice[2] = spilled
    BY <2>1 DEF When, Say
  <2> QED
    BY <2>2 DEF part, spilled, full
<1>2. q.at \in Nat /\ q.cur # None
  <2>1. ~Aside(sheet)
    BY <1>1 DEF Aside
  <2> QED
    BY <2>1, Stands
<1>3. CASE sheet.phase = "closed" /\ choice[2] = more /\ choice[1] \in {Line, [Line EXCEPT !.kind = "part"]}
  <2>1. choice[1] \in Lines /\ Class(style, q, choice[1]) = "text"
    <3>1. CASE choice[1] = Line
      BY <1>2, <3>1, PlainLine
    <3>2. CASE choice[1] = [Line EXCEPT !.kind = "part"]
      <4> DEFINE l == [Line EXCEPT !.kind = "part"]
      <4>1. l \in Lines /\ l.count = 0 /\ l.idx = 0 /\ l.n = 0 /\ l.kind = "part"
        BY KindOf DEF Bare, Kinds
      <4> HIDE DEF l
      <4>2. Refused(style, q, l)
        BY <4>1 DEF Refused
      <4>3. Class(style, q, l) = "text"
        BY <1>2, <4>1, <4>2, ClassText
      <4> QED
        BY <3>2, <4>1, <4>3 DEF l
    <3> QED
      BY <1>3, <3>1, <3>2
  <2>2. t = ReadText(q, line)
    BY <2>1 DEF Heard, Turn
  <2>3. ReaderOK(Append(doc, choice[1]), [sheet EXCEPT !.qs[Len(sheet.qs)].trailing = @ \union {Len(doc) + 1}], ReadText(q, Len(doc) + 1))
    BY <1>3, <2>1, FurnitureLine
  <2> QED
    BY <1>3, <2>2, <2>3 DEF Follows, line, here
<1>4. CASE /\ sheet.phase = "options" /\ sheet.given = OptTarget /\ sheet.packed /\ After({"marks"}) /\ OptTarget >= 4
           /\ choice[1] = LongText /\ choice[2] = [more EXCEPT !.phase = "spilled", !.qs[here].issues = @ \union {"overrun"}]
  <2>1. LongText \in Lines /\ LongText.size = 12 /\ LongText.count = 0 /\ LongText.idx = 0 /\ LongText.n = 0 /\ LongText.kind = "text"
    BY LineOf DEF LongText, Lines, Bare
  <2>2. Class(style, q, LongText) = "text"
    BY <1>2, <2>1, ClassText DEF Refused
  <2>3. t = ReadText(q, line)
    BY <1>4, <2>2 DEF Heard, Turn
  <2>4. AfterMarks(doc)
    BY <1>4 DEF AfterMarks, After
  <2>5. ReaderOK(Append(doc, LongText), [[sheet EXCEPT !.qs[Len(sheet.qs)].trailing = @ \union {Len(doc) + 1}] EXCEPT
                                     !.phase = "spilled", !.qs[Len(sheet.qs)].issues = @ \union {"overrun"}], ReadText(q, Len(doc) + 1))
    BY <1>4, <2>1, <2>4, SpillLine
  <2> QED
    BY <1>4, <2>3, <2>5 DEF Follows, line, here
<1> QED
  BY <1>1, <1>3, <1>4

\* The question's own answer and solution are read as they are meant.
LEMMA HearsAnswer ==
  ASSUME NEW q, Ready(doc, sheet, q), NEW choice \in PrintAnswer, NEW t, Heard(q, choice, t)
  PROVE  Follows(choice, t)
<1> DEFINE answer == [Line EXCEPT !.kind = "answer", !.verdict = 2]
           solution(v) == [Line EXCEPT !.kind = "solution", !.verdict = v]
           answered == [sheet EXCEPT !.phase = "answered", !.qs[here].own = 2]
           solved(v) == [sheet EXCEPT !.phase = "solved", !.qs[here].explanation = @ \union {line}, !.qs[here].own = IF @ = 0 THEN v ELSE @]
           more == [sheet EXCEPT !.qs[here].explanation = @ \union {line}]
<1>1. PrintAnswer = When(Done /\ sheet.phase \notin {"answered", "solved"}, Say(answer, answered))
                    \union When(Done /\ sheet.phase # "solved", {<<solution(v), solved(v)>> : v \in {0, 3} \intersect 0..OptTarget})
                    \union When(sheet.phase = "solved", Say(Line, more))
  BY DEF PrintAnswer
<1> HIDE DEF answer, solution, answered, solved, more
<1>2. \/ Done /\ choice[1] = answer /\ choice[2] = answered
      \/ Done /\ \E v \in {0, 3} \intersect 0..OptTarget : choice[1] = solution(v) /\ choice[2] = solved(v)
      \/ sheet.phase = "solved" /\ choice[1] = Line /\ choice[2] = more
  BY <1>1 DEF When, Say
<1>3. q.at \in Nat /\ (Done => ~Aside(sheet) /\ sheet.phase # "stem" /\ (sheet.phase = "options" => sheet.given = OptTarget) /\ q.cur # None)
  BY Stands, DoneOf
<1>4. CASE Done /\ choice[1] = answer /\ choice[2] = answered
  <2>1. answer \in Lines /\ answer.kind = "answer" /\ answer.verdict = 2 /\ Bare(answer)
    <3>1. 2 \in 0..OptTarget
      BY ParserAssumption
    <3> QED
      BY <3>1, LineOf DEF Lines, Kinds, Bare, answer
  <2>2. Class(style, q, answer) = "answer"
    BY <1>3, <1>4, <2>1, ClassAnswer
  <2>3. t = ReadAnswer(doc, q, answer)
    BY <1>4, <2>2 DEF Heard, Turn
  <2>4. ReaderOK(Append(doc, answer), [sheet EXCEPT !.phase = "answered", !.qs[Len(sheet.qs)].own = 2], ReadAnswer(doc, q, answer))
    BY <1>3, <1>4, <2>1, ReadAnswerLine
  <2> QED
    BY <1>4, <2>3, <2>4 DEF Follows, here, answered
<1>5. CASE Done /\ \E v \in {0, 3} \intersect 0..OptTarget : choice[1] = solution(v) /\ choice[2] = solved(v)
  <2>1. PICK v \in {0, 3} \intersect 0..OptTarget : choice[1] = solution(v) /\ choice[2] = solved(v)
    BY <1>5
  <2> DEFINE l == solution(v)
  <2>2. l \in Lines /\ l.kind = "solution" /\ l.verdict = v /\ Bare(l) /\ v \in 0..OptTarget
    BY LineOf DEF Lines, Kinds, Bare, solution
  <2>3. choice[1] = l
    BY <2>1
  <2> HIDE DEF l
  <2>4. Class(style, q, l) = "solution"
    BY <1>3, <1>5, <2>2, ClassAnswer
  <2>5. t = ReadSolution(doc, q, l, line)
    BY <2>4, <2>3 DEF Heard, Turn
  <2>6. ReaderOK(Append(doc, l), [sheet EXCEPT !.phase = "solved", !.qs[Len(sheet.qs)].explanation = @ \union {Len(doc) + 1},
                                            !.qs[Len(sheet.qs)].own = IF @ = 0 THEN l.verdict ELSE @],
                   ReadSolution(doc, q, l, Len(doc) + 1))
    BY <1>3, <1>5, <2>2, ReadSolutionLine
  <2> QED
    BY <2>1, <2>2, <2>5, <2>3, <2>6 DEF Follows, here, line, solved
<1>6. CASE sheet.phase = "solved" /\ choice[1] = Line /\ choice[2] = more
  <2>1. t = ReadText(q, line)
    BY <1>3, <1>6, PlainLine DEF Heard, Turn
  <2>2. ReaderOK(Append(doc, Line), [sheet EXCEPT !.qs[Len(sheet.qs)].explanation = @ \union {Len(doc) + 1}], ReadText(q, Len(doc) + 1))
    BY <1>6, LineOf, SolvedLine
  <2> QED
    BY <1>6, <2>1, <2>2 DEF Follows, line, here, more
<1> QED
  BY <1>2, <1>4, <1>5, <1>6

\* A heading is read as it is meant.
LEMMA HearsHeading ==
  ASSUME NEW q, Ready(doc, sheet, q), NEW choice \in PrintHeading, NEW t, Heard(q, choice, t)
  PROVE  Follows(choice, t)
<1> DEFINE heading == [Line EXCEPT !.kind = "heading", !.label = "A"]
           part == [Line EXCEPT !.kind = "part", !.label = "P"]
           headed(label) == Headed(sheet, label)
           a == "A"
           b == "P"
<1>1. PrintHeading = When(Done \/ sheet.phase = "front", Say(heading, headed(a))) \union When(sheet.phase = "front", Say(part, headed(b)))
  BY DEF PrintHeading, Headed, AllClosed
<1> HIDE DEF heading, part, headed, a, b
<1>2. \/ (Done \/ sheet.phase = "front") /\ choice[1] = heading /\ choice[2] = headed(a)
      \/ sheet.phase = "front" /\ choice[1] = part /\ choice[2] = headed(b)
  BY <1>1 DEF When, Say
<1>3. /\ heading \in Lines /\ heading.kind = "heading" /\ Bare(heading) /\ heading.label = a
      /\ part \in Lines /\ part.kind = "part" /\ Bare(part) /\ part.label = b
  BY LineOf DEF Lines, Kinds, Labels, Bare, heading, part, a, b
<1>4. /\ q.at \in Nat /\ ~MidOptionRun(q)
      /\ Over(sheet) /\ (sheet.phase = "front" => q.cur = None)
  <2>1. CASE sheet.phase = "front"
    <3>1. q.at \in Nat /\ q.at = 0 /\ q.cur = None
      BY <2>1, Stands DEF Aside
    <3> QED
      BY <2>1, <3>1 DEF MidOptionRun, Over
  <2>2. CASE Done
    <3>1. q.at \in Nat /\ q.at = OptTarget /\ OptTarget \in Nat /\ Over(sheet) /\ sheet.phase # "front"
      BY <2>2, Stands, DoneOf
    <3> QED
      BY <3>1 DEF MidOptionRun
  <2> QED
    BY <1>2, <2>1, <2>2
<1>5. /\ choice[1] \in Lines /\ choice[2] = headed(choice[1].label) /\ Class(style, q, choice[1]) = "heading"
  <2>1. Class(style, q, heading) = "heading"
    BY <1>3, <1>4, ClassHeading
  <2>2. sheet.phase = "front" => Class(style, q, part) = "heading"
    BY <1>3, <1>4, ClassHeading
  <2> QED
    BY <1>2, <1>3, <2>1, <2>2
<1>6. t = StartSection(doc, q, choice[1])
  BY <1>5 DEF Heard, Turn
<1>7. ReaderOK(Append(doc, choice[1]), Headed(sheet, choice[1].label), StartSection(doc, q, choice[1]))
  BY <1>4, <1>5, ReadHeading
<1> QED
  BY <1>5, <1>6, <1>7 DEF Follows, headed

\* The number of the next question.
LEMMA LatestOf ==
  ASSUME NEW q, Ready(doc, sheet, q)
  PROVE  /\ NextNumber(sheet) = Latest + 1 /\ Latest \in Nat /\ q.last = NumberOf(sheet) /\ here \in Nat /\ (here = 0 <=> sheet.qs = <<>>)
         /\ (here = 0 => q.last = 0 /\ Latest + 1 = FirstQuestion) /\ (here # 0 => Latest = q.last /\ q.last > 0)
         /\ FirstQuestion \in Nat /\ FirstQuestion > 0
<1>1. NumbersOK(sheet, q) /\ sheet \in Sheet /\ q \in Parser /\ sheet.qs \in Seq(Printed)
  BY SheetOf DEF Ready, ReaderOK, Typed
<1>2. here \in Nat /\ (here = 0 <=> sheet.qs = <<>>) /\ here = Len(sheet.qs)
  BY <1>1 DEF here
<1>3. FirstQuestion \in Nat /\ FirstQuestion > 0 /\ FirstQuestion - 1 \in Nat
  BY ParserAssumption, PrinterAssumption
<1>4. q.last = NumberOf(sheet) /\ NumberOf(sheet) \in Nat /\ (sheet.qs # <<>> => NumberOf(sheet) >= FirstQuestion) /\ (sheet.qs = <<>> => NumberOf(sheet) = 0)
  BY <1>1, Numbered DEF NumbersOK
<1>5. CASE here = 0
  <2>1. Latest = FirstQuestion - 1 /\ NextNumber(sheet) = FirstQuestion
    BY <1>2, <1>5 DEF Latest, NextNumber
  <2> QED
    BY <1>2, <1>3, <1>4, <1>5, <2>1
<1>6. CASE here # 0
  <2>1. Latest = NumberOf(sheet) /\ NextNumber(sheet) = NumberOf(sheet) + 1
    BY <1>2, <1>6 DEF Latest, NextNumber, NumberOf
  <2> QED
    BY <1>2, <1>3, <1>4, <1>6, <2>1
<1> QED
  BY <1>5, <1>6

\* A preamble's lines are read as they are meant.
LEMMA HearsPreamble ==
  ASSUME NEW q, Ready(doc, sheet, q), NEW choice \in PrintPreamble, NEW t, Heard(q, choice, t)
  PROVE  Follows(choice, t)
<1> DEFINE n == Latest + 1
           closed == [g \in DOMAIN sheet.govs |-> [sheet.govs[g] EXCEPT !.closed = TRUE]]
           opened(from, to) == [sheet EXCEPT !.phase = "preamble", !.govs = Append(closed,
                            [text |-> {line}, from |-> from, to |-> to, explicit |-> from > 0, closed |-> FALSE])]
           free == gov = 0 \/ ~sheet.govs[gov].explicit \/ sheet.govs[gov].to < n
           directions == [Line EXCEPT !.kind = "directions", !.from = n, !.to = n + 1]
           leadin == [Line EXCEPT !.kind = "lead-in"]
           more == [sheet EXCEPT !.govs[gov].text = @ \union {line}]
           first == opened(n, n + 1)
           second == opened(0, 0)
<1>1. PrintPreamble = When(free /\ (Done \/ sheet.phase = "front") /\ n < 2000,
                           Say(directions, first) \union When(sheet.phase # "options" \/ sheet.packed, Say(leadin, second)))
                      \union When(sheet.phase = "preamble", Say(Line, more))
  BY DEF PrintPreamble
<1>2. first = Opened(sheet, line, n, n + 1) /\ second = Opened(sheet, line, 0, 0)
  BY DEF Opened, AllClosed
<1> HIDE DEF directions, leadin, more, first, second, free, n
<1>3. \/ /\ free /\ (Done \/ sheet.phase = "front") /\ n < 2000
         /\ \/ choice[1] = directions /\ choice[2] = first
            \/ (sheet.phase # "options" \/ sheet.packed) /\ choice[1] = leadin /\ choice[2] = second
      \/ sheet.phase = "preamble" /\ choice[1] = Line /\ choice[2] = more
  BY <1>1 DEF When, Say
<1>4. n = NextNumber(sheet) /\ n \in Nat /\ n >= 1
  BY LatestOf DEF n
<1>5. ASSUME Done \/ sheet.phase = "front"
      PROVE  /\ q.at \in Nat /\ Over(sheet) /\ (sheet.phase # "options" \/ sheet.packed => Between(q))
  <2>1. CASE sheet.phase = "front"
    <3>1. q.at \in Nat /\ q.cur = None
      BY <2>1, Stands DEF Aside
    <3> QED
      BY <2>1, <3>1 DEF Between, Over
  <2>2. CASE Done
    <3>1. q.at \in Nat /\ q.at = OptTarget /\ OptTarget \in Nat /\ Over(sheet) /\ (sheet.phase # "options" => Filled(q.cur) = OptTarget)
      BY <2>2, Stands, DoneOf
    <3>2. sheet.phase = "options" /\ sheet.packed => Filled(q.cur) = OptTarget
      BY <2>2, DoneOf, Stands
    <3> QED
      BY <3>1, <3>2 DEF Between
  <2> QED
    BY <1>5, <2>1, <2>2
<1>6. CASE /\ free /\ (Done \/ sheet.phase = "front") /\ n < 2000
           /\ \/ choice[1] = directions /\ choice[2] = first
              \/ (sheet.phase # "options" \/ sheet.packed) /\ choice[1] = leadin /\ choice[2] = second
  <2>1. directions \in Lines /\ directions.kind = "directions" /\ directions.from = n /\ directions.to = n + 1
    <3>1. n + 1 \in Nat
      BY <1>4
    <3> QED
      BY <1>4, <3>1, LineOf DEF Lines, Kinds, directions
  <2>2. leadin \in Lines /\ leadin.kind = "lead-in" /\ leadin.n = 0 /\ leadin.from = 0 /\ leadin.to = 0
    BY LineOf DEF Lines, Kinds, Bare, leadin
  <2>3. PlausibleRange(directions)
    BY <1>4, <1>6, <2>1 DEF PlausibleRange
  <2> DEFINE l == choice[1]
  <2>4. /\ l \in Lines /\ Class(style, q, l) = "preamble" /\ choice[2] = Opened(sheet, line, l.from, l.to)
        /\ (l.from = 0 /\ l.to = 0) \/ (l.from = NextNumber(sheet) /\ l.to = NextNumber(sheet) + 1 /\ l.from >= 1)
    <3>1. CASE l = directions /\ choice[2] = first
      <4>1. Class(style, q, directions) = "preamble"
        BY <2>3, ClassPreamble
      <4> QED
        BY <1>2, <1>4, <2>1, <3>1, <4>1
    <3>2. CASE (sheet.phase # "options" \/ sheet.packed) /\ l = leadin /\ choice[2] = second
      <4>1. Between(q)
        BY <1>5, <1>6, <3>2
      <4>2. Class(style, q, leadin) = "preamble"
        BY <2>2, <4>1, ClassPreamble
      <4> QED
        BY <1>2, <2>2, <3>2, <4>2
    <3> QED
      BY <1>6, <3>1, <3>2
  <2>5. Len(sheet.govs) = 0 \/ ~sheet.govs[Len(sheet.govs)].explicit \/ sheet.govs[Len(sheet.govs)].to < NextNumber(sheet)
    BY <1>4, <1>6 DEF free, gov
  <2> HIDE DEF l
  <2>6. t = OpenContext(doc, q, l, line)
    BY <2>4 DEF Heard, Turn, l
  <2>7. Over(sheet)
    BY <1>5, <1>6
  <2>8. ReaderOK(Append(doc, l), Opened(sheet, Len(doc) + 1, l.from, l.to), OpenContext(doc, q, l, Len(doc) + 1))
    BY <2>4, <2>5, <2>7, OpensPreamble
  <2> QED
    BY <2>4, <2>6, <2>8 DEF Follows, line, l
<1>7. CASE sheet.phase = "preamble" /\ choice[1] = Line /\ choice[2] = more
  <2>1. q.at \in Nat
    BY Stands
  <2>2. t = ReadText(q, line)
    BY <1>7, <2>1, PlainLine DEF Heard, Turn
  <2>3. ReaderOK(Append(doc, Line), [sheet EXCEPT !.govs[Len(sheet.govs)].text = @ \union {Len(doc) + 1}], ReadText(q, Len(doc) + 1))
    BY <1>7, LineOf, PreambleText
  <2> QED
    BY <1>7, <2>2, <2>3 DEF Follows, line, gov, more
<1> QED
  BY <1>3, <1>6, <1>7

\* A label, with n where it may be read as a number, is refused as a question number.
LEMMA LabelRefused ==
  ASSUME NEW q, Ready(doc, sheet, q), sheet.phase \in {"stem", "options"}, NEW idx \in Nat, NEW l,
         l.n = IF style = "digits" THEN idx ELSE 0,
         (q.at < OptTarget /\ idx = q.at + 1) \/ idx = 1
  PROVE  Refused(style, q, l)
<1>1. q.cur # None /\ sheet.qs # <<>> /\ q.at \in Nat /\ OptTarget \in Nat
  BY Stands DEF Aside
<1>2. CASE style # "digits"
  BY <1>2 DEF Refused
<1>3. CASE style = "digits" /\ q.at < OptTarget /\ idx = q.at + 1
  BY <1>1, <1>3 DEF Refused, ClaimedByOption
<1>4. CASE style = "digits" /\ idx = 1
  <2>1. q.last \in Nat /\ q.last > 0 /\ MaxNumberGap \in Nat /\ l.n = 1
    BY <1>1, <1>4, LatestOf, ParserAssumption
  <2>2. ~(1 = q.last + 1) /\ 1 - q.last \notin 1..MaxNumberGap /\ q.last # 0
    BY <2>1
  <2>3. ~AcceptQuestionNumber(style, q, 1)
    BY <1>4, <2>2 DEF AcceptQuestionNumber
  <2> QED
    BY <2>1, <2>3 DEF Refused
<1> QED
  BY <1>2, <1>3, <1>4

\* Options, one or several on a line, are read as they are meant.
LEMMA HearsOptions ==
  ASSUME NEW q, Ready(doc, sheet, q), NEW choice \in PrintOptions, NEW t, Heard(q, choice, t)
  PROVE  Follows(choice, t)
<1> DEFINE marks(idx, count) == [Line EXCEPT !.kind = "marks", !.n = IF style = "digits" THEN idx ELSE 0, !.idx = idx, !.count = count]
           given(count) == Given(sheet, line, count)
           left == OptTarget - sheet.given
           replaced == [sheet EXCEPT !.packed = TRUE, !.qs[here].options = [k \in Option |-> {line}],
                                     !.qs[here].issues = @ \union {"replaced"}]
<1>1. PrintOptions = When(Wanting, {<<marks(sheet.given + 1, count), given(count)>> : count \in {1, 2, left} \intersect 1..left})
                     \union When(sheet.phase = "options" /\ sheet.given = OptTarget, Say(marks(1, OptTarget), replaced))
  BY DEF PrintOptions, Given, here
<1>2. ASSUME NEW idx \in Nat, NEW count \in Nat
      PROVE  LET l == marks(idx, count) IN
               /\ l \in Lines /\ l.kind = "marks" /\ l.idx = idx /\ l.count = count /\ l.size = 1 /\ ~l.behind
               /\ l.n = IF style = "digits" THEN idx ELSE 0
  BY LineOf DEF Lines, Kinds, Line
<1> HIDE DEF marks, given, replaced
<1>3. \/ Wanting /\ \E count \in {1, 2, left} \intersect 1..left : choice[1] = marks(sheet.given + 1, count) /\ choice[2] = given(count)
      \/ sheet.phase = "options" /\ sheet.given = OptTarget /\ choice[1] = marks(1, OptTarget) /\ choice[2] = replaced
  BY <1>1 DEF When, Say
<1>4. CASE Wanting /\ \E count \in {1, 2, left} \intersect 1..left : choice[1] = marks(sheet.given + 1, count) /\ choice[2] = given(count)
  <2>1. PICK count \in {1, 2, left} \intersect 1..left : choice[1] = marks(sheet.given + 1, count) /\ choice[2] = given(count)
    BY <1>4
  <2>2. sheet.phase \in {"stem", "options"} /\ (sheet.phase = "options" => sheet.given < OptTarget)
    BY <1>4 DEF Wanting
  <2>3. q.at = sheet.given /\ sheet.given \in Nat /\ OptTarget \in Nat /\ q.cur # None /\ q.at \in Nat
    BY <2>2, Wants, Stands
  <2>4. /\ count \in Nat /\ count >= 1 /\ sheet.given + count <= OptTarget /\ sheet.given + 1 \in Nat /\ q.at < OptTarget
        /\ sheet.given + 1 <= OptTarget
    BY <2>1, <2>3
  <2> DEFINE l == marks(sheet.given + 1, count)
  <2>5. /\ l \in Lines /\ l.kind = "marks" /\ l.idx = sheet.given + 1 /\ l.count = count /\ l.size = 1 /\ ~l.behind
        /\ l.n = IF style = "digits" THEN sheet.given + 1 ELSE 0
    BY <1>2, <2>4
  <2>6. choice[1] = l /\ choice[2] = Given(sheet, Len(doc) + 1, count)
    BY <2>1 DEF given, line
  <2> HIDE DEF l
  <2>7. Refused(style, q, l)
    BY <2>2, <2>3, <2>4, <2>5, LabelRefused
  <2>8. CASE count >= 2
    <3>1. Class(style, q, l) = "row"
      BY <2>3, <2>5, <2>7, <2>8, ClassRow
    <3>2. t = ReadRow(doc, q, l, line)
      BY <2>6, <3>1 DEF Heard, Turn
    <3>3. ReaderOK(Append(doc, l), Given(sheet, Len(doc) + 1, l.count), ReadRow(doc, q, l, Len(doc) + 1))
      BY <2>2, <2>4, <2>5, <2>8, ReadRowLine
    <3> QED
      BY <2>5, <2>6, <3>2, <3>3 DEF Follows, line
  <2>9. CASE count = 1
    <3>1. Class(style, q, l) = "option"
      BY <2>3, <2>4, <2>5, <2>7, <2>9, ClassOption
    <3>2. t = ReadOption(doc, q, l, line)
      BY <2>6, <3>1 DEF Heard, Turn
    <3>3. ReaderOK(Append(doc, l), Given(sheet, Len(doc) + 1, 1), ReadOption(doc, q, l, Len(doc) + 1))
      BY <2>2, <2>4, <2>5, ReadOptionLine
    <3> QED
      BY <2>6, <2>9, <3>2, <3>3 DEF Follows, line
  <2> QED
    BY <2>4, <2>8, <2>9
<1>5. CASE sheet.phase = "options" /\ sheet.given = OptTarget /\ choice[1] = marks(1, OptTarget) /\ choice[2] = replaced
  <2> DEFINE l == marks(1, OptTarget)
  <2>1. OptTarget \in Nat /\ OptTarget >= 2 /\ q.cur # None
    BY <1>5, Stands DEF Aside
  <2>2. /\ l \in Lines /\ l.kind = "marks" /\ l.idx = 1 /\ l.count = OptTarget /\ l.size = 1 /\ ~l.behind
        /\ l.n = IF style = "digits" THEN 1 ELSE 0
    BY <1>2, <2>1
  <2>3. choice[1] = l
    BY <1>5
  <2> HIDE DEF l
  <2>4. Refused(style, q, l)
    BY <1>5, <2>2, LabelRefused
  <2>5. Class(style, q, l) = "row"
    BY <2>1, <2>2, <2>4, ClassRow
  <2>6. t = ReadRow(doc, q, l, line)
    BY <2>3, <2>5 DEF Heard, Turn
  <2>7. ReaderOK(Append(doc, l), [sheet EXCEPT !.packed = TRUE, !.qs[Len(sheet.qs)].options = [k \in Option |-> {Len(doc) + 1}],
                                               !.qs[Len(sheet.qs)].issues = @ \union {"replaced"}],
                 ReadRow(doc, q, l, Len(doc) + 1))
    BY <1>5, <2>2, ReadChoices
  <2> QED
    BY <1>5, <2>3, <2>6, <2>7 DEF Follows, line, here, replaced
<1> QED
  BY <1>3, <1>4, <1>5

\* A question number that may be printed is taken for one.
Numberable(q, n) ==
  /\ n = Latest + 1 \/ (/\ n = Latest + 2 /\ here > 0 /\ (Done \/ sheet.phase \in {"front", "preamble"})
                        /\ (MinOptions < OptTarget \/ sheet.packed \/ sheet.phase # "options"))
  /\ Done \/ sheet.phase \in {"front", "preamble"} \/ style # "digits"
\* The number the printer gives a question is accepted, and no option's.
LEMMA NumberTaken ==
  ASSUME NEW q, Ready(doc, sheet, q), NEW n, Numberable(q, n), NEW l, l.n = n
  PROVE  n \in Nat /\ n > 0 /\ n >= NextNumber(sheet) /\ ~ClaimedByOption(style, q, l) /\ AcceptQuestionNumber(style, q, n)
<1>1. /\ NextNumber(sheet) = Latest + 1 /\ Latest \in Nat /\ here \in Nat /\ (here = 0 <=> sheet.qs = <<>>)
      /\ (here = 0 => q.last = 0 /\ Latest + 1 = FirstQuestion) /\ (here # 0 => Latest = q.last /\ q.last > 0)
      /\ FirstQuestion \in Nat /\ FirstQuestion > 0
  BY LatestOf
<1>2. n \in Nat /\ n > 0 /\ n >= NextNumber(sheet) /\ (n = Latest + 1 \/ n = Latest + 2)
  BY <1>1 DEF Numberable
<1>3. ~ClaimedByOption(style, q, l)
  <2>1. CASE Done
    <3>1. q.at = OptTarget /\ OptTarget \in Nat
      BY <2>1, DoneOf, ParserAssumption
    <3> QED
      BY <3>1 DEF ClaimedByOption
  <2>2. CASE sheet.phase \in {"front", "preamble"}
    <3>1. q.cur = None
      BY <2>2, Stands DEF Aside
    <3> QED
      BY <3>1 DEF ClaimedByOption
  <2>3. CASE style # "digits"
    BY <2>3 DEF ClaimedByOption
  <2> QED
    BY <2>1, <2>2, <2>3 DEF Numberable
<1>4. CASE n = Latest + 1
  <2>1. CASE here = 0
    BY <1>1, <1>2, <1>3, <1>4, <2>1 DEF AcceptQuestionNumber
  <2>2. CASE here # 0
    BY <1>1, <1>2, <1>3, <1>4, <2>2 DEF AcceptQuestionNumber
  <2> QED
    BY <2>1, <2>2
<1>5. CASE n # Latest + 1
  <2>1. /\ n = Latest + 2 /\ here > 0 /\ (Done \/ sheet.phase \in {"front", "preamble"})
        /\ (MinOptions < OptTarget \/ sheet.packed \/ sheet.phase # "options")
    BY <1>5 DEF Numberable
  <2>2. n = q.last + 2 /\ q.last \in Nat /\ q.last > 0
    BY <1>1, <2>1
  <2>3. n - q.last \in 1..MaxNumberGap
    <3>1. MaxNumberGap \in Nat /\ MaxNumberGap >= 2
      BY ParserAssumption, PrinterAssumption
    <3> QED
      BY <2>2, <3>1
  <2>4. IF q.cur = None THEN q.complete ELSE Filled(q.cur) >= MinOptions
    <3>1. CASE sheet.phase \in {"front", "preamble"}
      BY <1>1, <2>1, <3>1, Stands DEF Aside
    <3>2. CASE Done
      <4>1. MinOptions \in Nat /\ OptTarget \in Nat /\ MinOptions <= OptTarget
        BY ParserAssumption
      <4>2. q.cur # None /\ (sheet.phase # "options" => Filled(q.cur) = OptTarget) /\ (sheet.phase = "options" => sheet.given = OptTarget)
        BY <3>2, DoneOf, Stands
      <4>3. CASE sheet.phase = "options" /\ ~sheet.packed
        <5>1. Filled(q.cur) >= OptTarget - 1 /\ MinOptions < OptTarget
          BY <2>1, <4>2, <4>3, Stands
        <5>2. Filled(q.cur) \in Nat
          <6> DEFINE S == {k \in Option : q.cur.options[k] # {}}
          <6>1. IsFiniteSet(Option) /\ S \subseteq Option
            BY <4>1, FS_Interval DEF Option
          <6>2. IsFiniteSet(S)
            BY <6>1, FS_Subset
          <6> QED
            BY <6>2, FS_CardinalityType DEF Filled
        <5> QED
          BY <4>1, <4>2, <5>1, <5>2
      <4>4. CASE ~(sheet.phase = "options" /\ ~sheet.packed)
        <5>1. Filled(q.cur) = OptTarget
          BY <4>2, <4>4, Stands
        <5> QED
          BY <4>1, <4>2, <5>1
      <4> QED
        BY <4>3, <4>4
    <3> QED
      BY <2>1, <3>1, <3>2
  <2> QED
    BY <1>2, <1>3, <2>2, <2>3, <2>4 DEF AcceptQuestionNumber
<1> QED
  BY <1>2, <1>3, <1>4, <1>5

\* The line that begins a question is read as it is meant.
LEMMA HearsMarker ==
  ASSUME NEW q, Ready(doc, sheet, q), NEW choice \in PrintMarker, NEW t, Heard(q, choice, t)
  PROVE  Follows(choice, t)
<1> DEFINE finished == Done \/ sheet.phase \in {"front", "preamble"}
           filed == MinOptions < OptTarget \/ sheet.packed \/ sheet.phase # "options"
           numbers == {Latest + 1} \union When(finished /\ here > 0 /\ filed, {Latest + 2})
<1>1. PrintMarker = When(finished \/ style # "digits", {Starting(n, behind) : n \in numbers, behind \in BOOLEAN})
  BY DEF PrintMarker
<1>2. ASSUME NEW n \in Nat, NEW behind \in BOOLEAN
      PROVE  LET l == Starting(n, behind)[1] IN
               /\ l \in Lines /\ l.kind = "marks" /\ l.n = n /\ l.behind = behind /\ l.size = 1 /\ (behind => l.count = OptTarget)
               /\ Starting(n, behind)[2] = Marked(sheet, line, l)
  <2> DEFINE idx == IF behind THEN 1 ELSE IF style = "digits" THEN n ELSE 0
             count == IF behind THEN OptTarget ELSE IF style = "digits" THEN 1 ELSE 0
             l == [Line EXCEPT !.kind = "marks", !.n = n, !.behind = behind, !.idx = idx, !.count = count]
             question == [number |-> n, section |-> sheet.label, stem |-> {line}, trailing |-> {}, explanation |-> {}, own |-> 0,
                          options |-> [k \in Option |-> IF behind THEN {line} ELSE {}], issues |-> {}, govs |-> Reaching(n)]
             after == [sheet EXCEPT !.qs = Append(@, question), !.phase = IF behind THEN "options" ELSE "stem",
                                    !.given = IF behind THEN OptTarget ELSE 0, !.packed = behind,
                                    !.govs = IF @ # <<>> /\ @[gov].from = 0 THEN [@ EXCEPT ![gov].from = n] ELSE @]
  <2>1. idx \in Nat /\ count \in Nat /\ (behind => count = OptTarget)
    BY ParserAssumption
  <2>2. Starting(n, behind) = <<l, after>>
    BY DEF Starting
  <2> HIDE DEF idx, count
  <2>3. l \in Lines /\ l.kind = "marks" /\ l.n = n /\ l.behind = behind /\ l.size = 1 /\ (behind => l.count = OptTarget)
    BY <2>1, LineOf DEF Lines, Kinds
  <2> HIDE DEF l
  <2>4. Reaching(n) = ReachingOf(sheet, n)
    BY DEF Reaching, ReachingOf, gov
  <2>5. question = Asked(sheet, line, l)
    BY <2>3, <2>4 DEF Asked
  <2> HIDE DEF question
  <2>6. after = Marked(sheet, line, l)
    BY <2>3, <2>5 DEF Marked, gov
  <2> HIDE DEF after
  <2> QED
    BY <2>2, <2>3, <2>6
<1>3. /\ finished \/ style # "digits"
      /\ \E n \in numbers, behind \in BOOLEAN : choice = Starting(n, behind)
  BY <1>1 DEF When
<1>4. PICK n \in numbers, behind \in BOOLEAN : choice = Starting(n, behind)
  BY <1>3
<1> DEFINE l == Starting(n, behind)[1]
<1>5. Numberable(q, n)
  BY <1>3 DEF Numberable, When
<1>6. n \in Nat /\ n > 0 /\ n >= NextNumber(sheet) /\ AcceptQuestionNumber(style, q, n)
  <2>1. [n |-> n].n = n
    OBVIOUS
  <2> QED
    BY <1>5, <2>1, NumberTaken
<1>7. /\ l \in Lines /\ l.kind = "marks" /\ l.n = n /\ l.behind = behind /\ l.size = 1 /\ (behind => l.count = OptTarget)
      /\ choice[1] = l /\ choice[2] = Marked(sheet, Len(doc) + 1, l)
  BY <1>2, <1>4, <1>6 DEF line
<1> HIDE DEF l
<1>8. ~ClaimedByOption(style, q, l)
  BY <1>5, <1>7, NumberTaken
<1>9. Class(style, q, l) = "marker"
  BY <1>6, <1>7, <1>8, ClassMarker
<1>10. t = ReadMarker(doc, q, l, Len(doc) + 1)
  BY <1>7, <1>9 DEF Heard, Turn, line
<1>11. l.n >= NextNumber(sheet) /\ (l.behind => l.count = OptTarget)
  BY <1>6, <1>7
<1>12. ReaderOK(Append(doc, l), Marked(sheet, Len(doc) + 1, l), ReadMarker(doc, q, l, Len(doc) + 1))
  <2>1. CASE sheet.phase # "preamble"
    BY <1>7, <1>11, <2>1, ReadMarkerAfter
  <2>2. CASE sheet.phase = "preamble"
    BY <1>7, <1>11, <2>2, ReadMarkerFirst
  <2> QED
    BY <2>1, <2>2
<1> QED
  BY <1>7, <1>10, <1>12 DEF Follows

\* Nothing but a blank line is printed as one, or taken for one.
LEMMA BlankOnly == ASSUME NEW s, NEW q, NEW l, Class(s, q, l) = "blank" PROVE l.kind = "blank"
  BY DEF Class
\* Only a blank line is printed blank,
LEMMA BlankPrinted == ASSUME NEW choice \in PrintBlank PROVE choice[1].kind = "blank"
<1>1. choice[1] = Blank
  BY DEF PrintBlank, When, Say
<1> QED
  BY <1>1, KindOf DEF Blank, Kinds
\* and no other line is.
LEMMA OthersPrinted ==
  ASSUME NEW choice \in Printable, choice \notin PrintBlank
  PROVE  choice[1].kind # "blank"
<1> DEFINE far == [Line EXCEPT !.kind = "marks", !.n = Latest + MaxNumberGap + 1]
           wrap == [Line EXCEPT !.kind = "heading", !.label = "A"]
           part == [Line EXCEPT !.kind = "part", !.label = "P"]
           answer == [Line EXCEPT !.kind = "answer", !.verdict = 2]
           solution(v) == [Line EXCEPT !.kind = "solution", !.verdict = v]
           directions == [Line EXCEPT !.kind = "directions", !.from = Latest + 1, !.to = Latest + 2]
           marks(idx, count) == [Line EXCEPT !.kind = "marks", !.n = IF style = "digits" THEN idx ELSE 0, !.idx = idx, !.count = count]
<1>1. /\ far.kind = "marks" /\ wrap.kind = "heading" /\ part.kind = "part" /\ answer.kind = "answer" /\ directions.kind = "directions"
      /\ [Line EXCEPT !.kind = "part"].kind = "part" /\ [Line EXCEPT !.kind = "lead-in"].kind = "lead-in"
      /\ LongText.kind = "text" /\ Line.kind = "text"
  BY DEF Line, LongText
<1>2. (\A v : solution(v).kind = "solution") /\ \A idx, count : marks(idx, count).kind = "marks"
  BY DEF Line
<1>3. CASE choice \in PrintMarker
  <2>1. \E n, behind : choice = Starting(n, behind)
    BY <1>3 DEF PrintMarker, When
  <2>2. PICK n, behind : choice = Starting(n, behind)
    BY <2>1
  <2> DEFINE idx == IF behind THEN 1 ELSE IF style = "digits" THEN n ELSE 0
             count == IF behind THEN OptTarget ELSE IF style = "digits" THEN 1 ELSE 0
  <2>3. choice[1] = [Line EXCEPT !.kind = "marks", !.n = n, !.behind = behind, !.idx = idx, !.count = count]
    BY <2>2 DEF Starting
  <2> HIDE DEF idx, count
  <2> QED
    BY <2>3 DEF Line
<1>4. CASE choice \in PrintOptions
  <2> DEFINE given(count) == Given(sheet, line, count)
             left == OptTarget - sheet.given
             replaced == [sheet EXCEPT !.packed = TRUE, !.qs[here].options = [k \in Option |-> {line}],
                                       !.qs[here].issues = @ \union {"replaced"}]
  <2>1. PrintOptions = When(Wanting, {<<marks(sheet.given + 1, count), given(count)>> : count \in {1, 2, left} \intersect 1..left})
                       \union When(sheet.phase = "options" /\ sheet.given = OptTarget, Say(marks(1, OptTarget), replaced))
    BY DEF PrintOptions, Given, here
  <2> HIDE DEF marks, given, replaced
  <2>2. \E idx, count : choice[1] = marks(idx, count)
    BY <1>4, <2>1 DEF When, Say
  <2> QED
    BY <1>2, <2>2
<1>5. CASE choice \in PrintStem
  <2>1. choice[1] = Line \/ choice[1] = [Line EXCEPT !.kind = "lead-in"] \/ choice[1] = far
    BY <1>5 DEF PrintStem, When, Say
  <2> HIDE DEF far
  <2> QED
    BY <1>1, <2>1
<1>6. CASE choice \in PrintWrap
  <2> DEFINE more == [sheet EXCEPT !.qs[here].options[sheet.given] = @ \union {line}]
  <2>1. PrintWrap = When(sheet.phase = "options" /\ After({"marks"}), Say(Line, more) \union When(sheet.given < OptTarget, Say(wrap, more)))
    BY DEF PrintWrap
  <2> HIDE DEF wrap, more
  <2>2. choice[1] = Line \/ choice[1] = wrap
    BY <1>6, <2>1 DEF When, Say
  <2> QED
    BY <1>1, <2>2
<1>7. CASE choice \in PrintFurniture
  <2>1. choice[1] \in {Line, [Line EXCEPT !.kind = "part"], LongText}
    BY <1>7 DEF PrintFurniture, When, Say
  <2> QED
    BY <1>1, <2>1
<1>8. CASE choice \in PrintPreamble
  <2> DEFINE n == Latest + 1
             free == gov = 0 \/ ~sheet.govs[gov].explicit \/ sheet.govs[gov].to < n
             leadin == [Line EXCEPT !.kind = "lead-in"]
             range == [Line EXCEPT !.kind = "directions", !.from = n, !.to = n + 1]
             more == [sheet EXCEPT !.govs[gov].text = @ \union {line}]
             first == Opened(sheet, line, n, n + 1)
             second == Opened(sheet, line, 0, 0)
  <2>1. PrintPreamble = When(free /\ (Done \/ sheet.phase = "front") /\ n < 2000,
                             Say(range, first) \union When(sheet.phase # "options" \/ sheet.packed, Say(leadin, second)))
                        \union When(sheet.phase = "preamble", Say(Line, more))
    BY DEF PrintPreamble, Opened, AllClosed
  <2>2. range.kind = "directions" /\ leadin.kind = "lead-in"
    BY DEF Line
  <2> HIDE DEF range, leadin, more, first, second, free, n
  <2>3. choice[1] \in {range, leadin, Line}
    BY <1>8, <2>1 DEF When, Say
  <2> QED
    BY <1>1, <2>2, <2>3
<1>9. CASE choice \in PrintHeading
  <2> DEFINE a == "A"
             b == "P"
             heading == [Line EXCEPT !.kind = "heading", !.label = a]
             section == [Line EXCEPT !.kind = "part", !.label = b]
             headed(label) == Headed(sheet, label)
  <2>1. PrintHeading = When(Done \/ sheet.phase = "front", Say(heading, headed(a))) \union When(sheet.phase = "front", Say(section, headed(b)))
    BY DEF PrintHeading, Headed, AllClosed
  <2>2. heading.kind = "heading" /\ section.kind = "part"
    BY DEF Line
  <2> HIDE DEF heading, section, headed, a, b
  <2>3. choice[1] \in {heading, section}
    BY <1>9, <2>1 DEF When, Say
  <2> QED
    BY <2>2, <2>3
<1>10. CASE choice \in PrintAnswer
  <2> DEFINE answered == [sheet EXCEPT !.phase = "answered", !.qs[here].own = 2]
             solved(v) == [sheet EXCEPT !.phase = "solved", !.qs[here].explanation = @ \union {line}, !.qs[here].own = IF @ = 0 THEN v ELSE @]
             more == [sheet EXCEPT !.qs[here].explanation = @ \union {line}]
  <2>1. PrintAnswer = When(Done /\ sheet.phase \notin {"answered", "solved"}, Say(answer, answered))
                      \union When(Done /\ sheet.phase # "solved", {<<solution(v), solved(v)>> : v \in {0, 3} \intersect 0..OptTarget})
                      \union When(sheet.phase = "solved", Say(Line, more))
    BY DEF PrintAnswer
  <2> HIDE DEF answer, solution, answered, solved, more
  <2>2. choice[1] = answer \/ choice[1] = Line \/ \E v : choice[1] = solution(v)
    BY <1>10, <2>1 DEF When, Say
  <2> QED
    BY <1>1, <1>2, <2>2
<1> QED
  BY <1>3, <1>4, <1>5, <1>6, <1>7, <1>8, <1>9, <1>10 DEF Printable

\* A line printed and read leaves the parser with what was printed.
Read(l, next) ==
  \/ BlankLine(l, next) \/ PreambleLine(l, next) \/ MarkerLine(l, next) \/ RowLine(l, next) \/ OptionLine(l, next)
  \/ AnswerLine(l, next) \/ SolutionLine(l, next) \/ HeadingLine(l, next) \/ TextLine(l, next)
\* Every line the printer can print keeps the parser in step with it.
LEMMA LineRead ==
  ASSUME ReaderOK(doc, sheet, p), NEW choice \in Printable, Read(choice[1], choice[2])
  PROVE  ReaderOK(doc', sheet', p')
<1> DEFINE l == choice[1]
<1>1. doc' = Append(doc, l) /\ sheet' = choice[2]
  BY DEF Read, BlankLine, PreambleLine, MarkerLine, RowLine, OptionLine, AnswerLine, SolutionLine, HeadingLine, TextLine, Reading
<1>2. Follows(choice, p')
  <2>1. CASE choice \in PrintBlank
    <3>1. Class(style, Settled(l), l) = "blank"
      BY <2>1, BlankPrinted, ClassBlank
    <3>2. p' = [Commit(doc, p) EXCEPT !.blank = TRUE]
      BY <3>1 DEF Read, BlankLine, PreambleLine, MarkerLine, RowLine, OptionLine, AnswerLine, SolutionLine, HeadingLine, TextLine, Reading
    <3> QED
      BY <2>1, <3>2, HearsBlank
  <2>2. CASE choice \notin PrintBlank
    <3>1. l.kind # "blank" /\ Settled(l) = Settle(doc, p)
      BY <2>2, OthersPrinted DEF Settled
    <3> DEFINE q == Settle(doc, p)
    <3>2. Ready(doc, sheet, q)
      BY Settling DEF Ready
    <3>3. Class(style, q, l) # "blank"
      BY <3>1, BlankOnly
    <3> HIDE DEF q
    <3>4. Settled(l) = q
      BY <3>1 DEF q
    <3>5. Heard(q, choice, p')
      BY <3>3, <3>4
         DEF Read, BlankLine, PreambleLine, MarkerLine, RowLine, OptionLine, AnswerLine, SolutionLine, HeadingLine, TextLine, Reading, Heard, Turn
    <3> QED
      BY <2>2, <3>2, <3>5, HearsMarker, HearsOptions, HearsStem, HearsWrap, HearsFurniture, HearsPreamble, HearsHeading, HearsAnswer DEF Printable
  <2> QED
    BY <2>1, <2>2
<1> QED
  BY <1>1, <1>2 DEF Follows

-----------------------------------------------------------------------------
\* The end of the body.

\* The preambles that reach question j, as they are printed.
Governing(sh, j) ==
  {g \in sh.qs[j].govs : LET c == sh.govs[g] IN c.explicit \/ c.closed \/ sh.qs[j].number < c.from + OpenContextCap}
\* The preambles read are those printed, and each covers the questions it reaches.
Covers(c, last, n) == LET x == Closed(c, last) IN n \in x.from..x.to
Covered(sh, C, last) ==
  \A j \in 1..Len(sh.qs) :
    /\ \A g \in 1..Len(C) : Covers(C[g], last, sh.qs[j].number) <=> g \in Governing(sh, j)
    /\ \A g \in Governing(sh, j) : g \in 1..Len(C) /\ C[g].text = sh.govs[g].text
    /\ \A a, b \in Governing(sh, j) : a = b

\* A preamble covers those it reaches, an open one no more than its cap.
LEMMA CoversReached ==
  ASSUME NEW c \in Context, NEW v, Told(c, v), NEW last \in Nat, NEW n \in Nat, n <= last,
         ~c.explicit => (c.to # 0 <=> v.closed)
  PROVE  Covers(c, last, n) <=> (Reaches(c, n) /\ (v.explicit \/ v.closed \/ n < v.from + OpenContextCap))
<1>1. c.from \in Nat /\ c.to \in Nat /\ c.explicit \in BOOLEAN /\ OpenContextCap \in Nat
  BY ParserAssumption DEF Context
<1>2. c.from = v.from /\ c.explicit = v.explicit /\ (c.explicit => c.to # 0)
  BY <1>1 DEF Told
<1> DEFINE limit == c.from + OpenContextCap - 1
<1>3. CASE c.to # 0
  <2>1. Closed(c, last) = c
    BY <1>3 DEF Closed
  <2>2. v.explicit \/ v.closed
    BY <1>2, <1>3
  <2> QED
    BY <1>1, <1>3, <2>1, <2>2 DEF Covers, Reaches
<1>4. CASE c.to = 0 /\ limit >= last
  <2>1. Closed(c, last) = [c EXCEPT !.to = last]
    BY <1>4 DEF Closed
  <2>2. Closed(c, last).from = c.from /\ Closed(c, last).to = last
    BY <2>1 DEF Context
  <2>3. n < v.from + OpenContextCap
    BY <1>1, <1>2, <1>4
  <2> QED
    BY <1>1, <1>4, <2>2, <2>3 DEF Covers, Reaches
<1>5. CASE c.to = 0 /\ ~(limit >= last)
  <2>1. ~c.explicit /\ ~v.closed /\ ~v.explicit
    BY <1>2, <1>5
  <2>2. Closed(c, last) = [c EXCEPT !.to = limit, !.capped = TRUE]
    BY <1>5, <2>1 DEF Closed
  <2>3. Closed(c, last).from = c.from /\ Closed(c, last).to = limit
    BY <2>2 DEF Context
  <2>4. n <= limit <=> n < v.from + OpenContextCap
    BY <1>1, <1>2
  <2> QED
    BY <1>1, <1>5, <2>1, <2>3, <2>4 DEF Covers, Reaches
<1> QED
  BY <1>3, <1>4, <1>5

\* Where the body ends no preamble is left waiting.
LEMMA BodyEnds ==
  ASSUME NEW d, NEW sh, NEW q, ReaderOK(d, sh, q), sh.qs # <<>>
  PROVE  LET r == EndBody(d, q) IN Shut(sh, q, r) /\ Covered(sh, r.contexts, r.last)
<1> DEFINE r == EndBody(d, q)
           C == q.contexts
           R == r.contexts
           L == Len(C)
           last == NumberOf(sh)
<1>1. sh \in Sheet /\ q \in Parser /\ NumbersOK(sh, q) /\ ContextsOK(sh, q)
  BY DEF ReaderOK, Typed
<1>2. /\ last \in Nat /\ last >= 1 /\ last + 1 \in Nat /\ q.last = last /\ L \in Nat /\ C \in Seq(Context)
      /\ \A j \in 1..Len(sh.qs) : sh.qs[j].number \in Nat /\ sh.qs[j].number <= last
  <2>1. NumberOf(sh) \in Nat /\ NumberOf(sh) >= FirstQuestion /\ \A j \in 1..Len(sh.qs) : sh.qs[j].number \in Nat /\ sh.qs[j].number <= NumberOf(sh)
    BY <1>1, Numbered
  <2>2. FirstQuestion \in Nat /\ FirstQuestion >= 1
    BY ParserAssumption, PrinterAssumption
  <2>3. q.last = last
    BY <1>1 DEF NumbersOK
  <2>4. C \in Seq(Context)
    BY <1>1, ParserOf
  <2> QED
    BY <2>1, <2>2, <2>3, <2>4
<1>3. Shut(sh, q, r) /\ (sh.phase # "preamble" => R = C) /\ (sh.phase = "preamble" => Taken(R, q, sh.govs[Len(sh.govs)], last + 1))
  <2>1. r = CloseQuestion(d, CloseContext(d, q, last + 1))
    BY <1>2 DEF EndBody
  <2>2. CASE sh.phase # "preamble"
    <3>1. LET s == CloseQuestion(d, q) IN
             /\ Shut(sh, q, s) /\ s.contexts = q.contexts
             /\ \A n : CloseContext(d, s, n) = s /\ CloseQuestion(d, CloseContext(d, q, n)) = s
      BY <2>2, Closes
    <3> QED
      BY <2>1, <2>2, <3>1
  <2>3. CASE sh.phase = "preamble"
    <3>1. last + 1 >= 1
      BY <1>2
    <3>2. LET s == CloseQuestion(d, CloseContext(d, q, last + 1)) IN
             Shut(sh, q, s) /\ s.complete = q.complete /\ Taken(s.contexts, q, sh.govs[Len(sh.govs)], last + 1)
      BY <1>2, <2>3, <3>1, ClosesPreamble
    <3> QED
      BY <2>1, <2>3, <3>2
  <2> QED
    BY <2>2, <2>3
<1> HIDE DEF r
<1>4. r \in Parser /\ r.last = last /\ R \in Seq(Context)
  BY <1>2, <1>3, ParserOf DEF Shut
\* What is read of each preamble, and whom it reaches.
<1>5. ASSUME NEW g \in 1..Len(R), g <= L
      PROVE  /\ R[g] \in Context /\ Told(R[g], sh.govs[g]) /\ (~R[g].explicit => (R[g].to # 0 <=> sh.govs[g].closed))
             /\ \A n \in Nat : n <= last => (Reaches(R[g], n) <=> Reaches(C[g], n))
  <2>1. g \in 1..L /\ R[g] \in Context /\ C[g] \in Context
    BY <1>2, <1>4, <1>5, ElementOfSeq
  <2>2. Told(C[g], sh.govs[g]) /\ Ended(sh, g, C[g], sh.govs[g], L)
    BY <1>1, <2>1 DEF ContextsOK
  <2>3. CASE sh.phase # "preamble"
    <3>1. R[g] = C[g]
      BY <1>3, <2>3
    <3>2. ~C[g].explicit => (C[g].to # 0 <=> sh.govs[g].closed)
      BY <2>2, <2>3 DEF Ended
    <3> QED
      BY <2>1, <2>2, <3>1, <3>2
  <2>4. CASE sh.phase = "preamble"
    <3> DEFINE v == sh.govs[Len(sh.govs)]
               f == IF v.from = 0 THEN last + 1 ELSE v.from
    <3>1. f = last + 1 /\ f > 1 /\ f - 1 = last
      <4>1. Awaited(sh, q)
        BY <1>1, <2>4 DEF ContextsOK
      <4>2. (v.explicit => v.from = last + 1) /\ (~v.explicit => v.from = 0)
        BY <4>1 DEF Awaited
      <4> QED
        BY <1>2, <4>2
    <3>2. PICK s : (IF f > 1 THEN Sealed(s, C, f - 1) ELSE s = C) /\ \A k \in 1..L : R[k] = s[k]
      BY <1>3, <2>4 DEF Taken
    <3>3. Sealed(s, C, last) /\ R[g] = s[g]
      BY <2>1, <3>1, <3>2
    <3>4. /\ R[g].text = C[g].text /\ R[g].from = C[g].from /\ R[g].explicit = C[g].explicit /\ R[g].capped = C[g].capped
          /\ R[g].to = IF C[g].to = 0 /\ C[g].from <= last THEN last ELSE C[g].to
      BY <2>1, <3>3 DEF Sealed
    <3>5. C[g].to \in Nat /\ C[g].from \in Nat /\ C[g].explicit \in BOOLEAN
      BY <2>1 DEF Context
    <3>6. sh.govs[g].closed
      <4>1. Len(sh.govs) = L + 1
        BY <1>1, <2>4 DEF ContextsOK
      <4>2. g < Len(sh.govs)
        BY <1>2, <2>1, <4>1
      <4> QED
        BY <2>2, <4>2 DEF Ended
    <3>7. ~R[g].explicit => R[g].to # 0
      <4>1. ~C[g].explicit => C[g].from <= last
        BY <2>2 DEF Ended
      <4> QED
        BY <1>2, <3>4, <3>5, <4>1
    <3>8. Told(R[g], sh.govs[g])
      <4>1. C[g].explicit => C[g].to # 0
        BY <2>2, <3>5 DEF Told
      <4>2. C[g].explicit => R[g].to = C[g].to
        BY <3>4, <4>1
      <4> QED
        BY <2>2, <3>4, <4>2 DEF Told
    <3>9. \A n \in Nat : n <= last => (Reaches(R[g], n) <=> Reaches(C[g], n))
      <4> TAKE n \in Nat
      <4> HAVE n <= last
      <4>1. Reaches(s[g], n) <=> Reaches(C[g], n)
        BY <1>2, <2>1, <3>3, SealReaches
      <4> QED
        BY <3>3, <4>1
    <3> QED
      BY <2>1, <3>6, <3>7, <3>8, <3>9
  <2> QED
    BY <2>3, <2>4
\* One more, behind the last question.
<1>6. ASSUME NEW g \in 1..Len(R), ~(g <= L)
      PROVE  \A n \in Nat : n <= last => ~Covers(R[g], last, n)
  <2>1. sh.phase = "preamble" /\ g = L + 1 /\ Taken(R, q, sh.govs[Len(sh.govs)], last + 1)
    <3>1. CASE sh.phase # "preamble"
      BY <1>2, <1>3, <1>6, <3>1
    <3>2. CASE sh.phase = "preamble"
      <4>1. Taken(R, q, sh.govs[Len(sh.govs)], last + 1)
        BY <1>3, <3>2
      <4>2. Len(R) = L + 1
        BY <4>1 DEF Taken
      <4> QED
        BY <1>2, <1>6, <3>2, <4>1, <4>2
    <3> QED
      BY <3>1, <3>2
  <2> DEFINE v == sh.govs[Len(sh.govs)]
  <2>2. (v.explicit => v.from = last + 1) /\ (~v.explicit => v.from = 0)
    BY <1>1, <2>1 DEF ContextsOK, Awaited
  <2>3. R[g].from = last + 1
    BY <1>2, <2>1, <2>2 DEF Taken
  <2>4. R[g] \in Context
    BY <1>4, ElementOfSeq
  <2>5. Closed(R[g], last).from = last + 1
    BY <2>3, <2>4 DEF Closed, Context
  <2>6. \A n \in Nat : n <= last => ~(last + 1 <= n)
    BY <1>2
  <2> TAKE n \in Nat
  <2> HAVE n <= last
  <2>7. n \notin (last + 1)..Closed(R[g], last).to
    BY <2>6
  <2> QED
    BY <2>5, <2>7 DEF Covers
<1>7. L <= Len(R) /\ Len(R) \in Nat
  <2>1. CASE sh.phase # "preamble"
    BY <1>2, <1>3, <2>1
  <2>2. CASE sh.phase = "preamble"
    <3>1. Len(R) = L + 1
      BY <1>3, <2>2 DEF Taken
    <3> QED
      BY <1>2, <3>1
  <2> QED
    BY <2>1, <2>2
<1>8. ASSUME NEW j \in 1..Len(sh.qs)
      PROVE  /\ \A g \in 1..Len(R) : Covers(R[g], last, sh.qs[j].number) <=> g \in Governing(sh, j)
             /\ \A g \in Governing(sh, j) : g \in 1..Len(R) /\ R[g].text = sh.govs[g].text
             /\ \A a, b \in Governing(sh, j) : a = b
  <2> DEFINE n == sh.qs[j].number
             G == sh.qs[j].govs
  <2>1. n \in Nat /\ n <= last
    BY <1>2
  <2>2. /\ \A g \in 1..L : g \in G <=> Reaches(C[g], n)
        /\ G \subseteq 1..L /\ \A a, b \in G : a = b
    BY <1>1 DEF ContextsOK
  <2> HIDE DEF n, G
  <2>3. Governing(sh, j) = {g \in G : sh.govs[g].explicit \/ sh.govs[g].closed \/ n < sh.govs[g].from + OpenContextCap}
    BY DEF Governing, G, n
  <2>4. ASSUME NEW g \in 1..Len(R) PROVE Covers(R[g], last, n) <=> g \in Governing(sh, j)
    <3>1. CASE g <= L
      <4>1. g \in 1..L
        BY <1>2, <3>1
      <4>2. R[g] \in Context /\ Told(R[g], sh.govs[g]) /\ (~R[g].explicit => (R[g].to # 0 <=> sh.govs[g].closed))
        BY <1>5, <3>1
      <4>3. Reaches(R[g], n) <=> Reaches(C[g], n)
        BY <1>5, <2>1, <3>1
      <4>4. Covers(R[g], last, n) <=> (Reaches(R[g], n) /\ (sh.govs[g].explicit \/ sh.govs[g].closed \/ n < sh.govs[g].from + OpenContextCap))
        BY <1>2, <2>1, <4>2, CoversReached
      <4> QED
        BY <2>2, <2>3, <4>1, <4>3, <4>4
    <3>2. CASE ~(g <= L)
      <4>1. ~Covers(R[g], last, n)
        BY <1>6, <2>1, <3>2
      <4>2. g \notin 1..L
        BY <3>2
      <4> QED
        BY <2>2, <2>3, <4>1, <4>2
    <3> QED
      BY <3>1, <3>2
  <2>5. ASSUME NEW g \in Governing(sh, j) PROVE g \in 1..Len(R) /\ R[g].text = sh.govs[g].text
    <3>1. g \in 1..L
      BY <2>2, <2>3
    <3>2. g \in 1..Len(R) /\ g <= L
      BY <1>2, <1>7, <3>1
    <3>3. Told(R[g], sh.govs[g])
      BY <1>5, <3>2
    <3> QED
      BY <3>2, <3>3 DEF Told
  <2> QED
    BY <2>2, <2>3, <2>4, <2>5 DEF n
<1> QED
  BY <1>3, <1>4, <1>8 DEF Covered, r

-----------------------------------------------------------------------------
\* What is folded onto the questions.

Fields == {"number", "line", "section", "text", "options", "width", "correct", "context", "issues"}
\* What no fold touches of a question.
Kin(x, q) ==
  /\ DOMAIN x = Fields /\ DOMAIN x.text = Parts
  /\ x.number = q.number /\ x.section = q.section /\ x.options = q.options /\ x.width = q.width /\ x.text["stem"] = q.text["stem"]
\* A question is of its own kin.
LEMMA KinOf == ASSUME NEW q \in Question PROVE Kin(q, q)
  BY DEF Question, Kin, Fields
\* Kin of kin is kin.
LEMMA KinOfKin == ASSUME NEW x, NEW y, NEW z, Kin(x, y), Kin(y, z) PROVE Kin(x, z)
  BY DEF Kin
\* A list of as many questions, each of the kin of that of another.
Kindred(A, Q) ==
  /\ DOMAIN A = 1..Len(Q) /\ A = [j \in 1..Len(Q) |-> A[j]]
  /\ \A j \in 1..Len(Q) : Kin(A[j], Q[j])

\* ApplyContexts gives every question the text of a preamble that covers it.
LEMMA WithContexts ==
  ASSUME NEW Q \in Seq(Question), NEW C \in Seq(Context), NEW last
  PROVE  LET A == ApplyContexts(Q, C, last) IN
           /\ Kindred(A, Q)
           /\ \A j \in 1..Len(Q) :
                /\ A[j].correct = Q[j].correct
                /\ (\A g \in 1..Len(C) : ~Covers(C[g], last, Q[j].number)) => A[j].context = Q[j].context
                /\ (\E g \in 1..Len(C) : Covers(C[g], last, Q[j].number))
                     => \E g \in 1..Len(C) : Covers(C[g], last, Q[j].number) /\ A[j].context = C[g].text
<1> DEFINE closed == [i \in DOMAIN C |-> Closed(C[i], last)]
           covering(q) == {i \in DOMAIN closed : q.number \in closed[i].from..closed[i].to}
           with(q) == LET c == closed[Min(covering(q))] IN
                        [q EXCEPT !.context = c.text, !.issues = IF c.capped THEN @ \union {"capped"} ELSE @]
           A == ApplyContexts(Q, C, last)
<1>1. A = [j \in DOMAIN Q |-> IF covering(Q[j]) = {} THEN Q[j] ELSE with(Q[j])]
  BY DEF ApplyContexts
<1>2. DOMAIN Q = 1..Len(Q) /\ DOMAIN C = 1..Len(C) /\ Len(C) \in Nat
  OBVIOUS
<1>3. \A g \in 1..Len(C) : closed[g] = Closed(C[g], last) /\ Closed(C[g], last).text = C[g].text
  <2> TAKE g \in 1..Len(C)
  <2>1. C[g] \in Context
    BY ElementOfSeq
  <2>2. Closed(C[g], last).text = C[g].text
    BY <2>1 DEF Closed, Context
  <2> QED
    BY <1>2, <2>2
<1>4. DOMAIN closed = 1..Len(C)
  BY <1>2
<1> HIDE DEF closed
<1>5. \A q : covering(q) = {g \in 1..Len(C) : Covers(C[g], last, q.number)}
  BY <1>3, <1>4 DEF Covers
<1> HIDE DEF A
<1>6. ASSUME NEW j \in 1..Len(Q)
      PROVE  /\ Kin(A[j], Q[j]) /\ A[j].correct = Q[j].correct
             /\ covering(Q[j]) = {} => A[j].context = Q[j].context
             /\ covering(Q[j]) # {} => \E g \in 1..Len(C) : Covers(C[g], last, Q[j].number) /\ A[j].context = C[g].text
  <2> DEFINE q == Q[j]
  <2>1. q \in Question /\ Kin(q, q)
    BY ElementOfSeq, KinOf
  <2>2. CASE covering(q) = {}
    <3>1. A[j] = q
      BY <1>1, <1>2, <2>2
    <3> QED
      BY <2>1, <2>2, <3>1
  <2>3. CASE covering(q) # {}
    <3> DEFINE g == Min(covering(q))
               c == closed[g]
               issues == IF c.capped THEN q.issues \union {"capped"} ELSE q.issues
    <3>1. g \in covering(q)
      <4>1. covering(q) \in SUBSET Nat
        BY <1>2, <1>5
      <4> QED
        BY <2>3, <4>1, MinOfSet
    <3>2. g \in 1..Len(C) /\ Covers(C[g], last, q.number) /\ c.text = C[g].text
      BY <1>3, <1>5, <3>1
    <3>3. A[j] = [q EXCEPT !.context = c.text, !.issues = issues]
      BY <1>1, <1>2, <2>3
    <3> HIDE DEF g, c, issues
    <3>4. A[j].context = c.text /\ A[j].correct = q.correct /\ Kin(A[j], q)
      <4>1. A[j].context = c.text /\ A[j].correct = q.correct
        BY <2>1, <3>3 DEF Question
      <4>2. DOMAIN A[j] = Fields /\ A[j].text = q.text /\ A[j].number = q.number /\ A[j].section = q.section /\ A[j].options = q.options /\ A[j].width = q.width
        BY <2>1, <3>3 DEF Question, Fields
      <4> QED
        BY <2>1, <4>1, <4>2 DEF Kin
    <3> QED
      BY <2>3, <3>2, <3>4
  <2> QED
    BY <2>2, <2>3
<1>7. Kindred(A, Q)
  <2>1. DOMAIN A = 1..Len(Q) /\ A = [j \in 1..Len(Q) |-> A[j]]
    BY <1>1, <1>2 DEF A
  <2> QED
    BY <1>6, <2>1 DEF Kindred
<1>8. ASSUME NEW j \in 1..Len(Q)
      PROVE  /\ (\A g \in 1..Len(C) : ~Covers(C[g], last, Q[j].number)) => A[j].context = Q[j].context
             /\ (\E g \in 1..Len(C) : Covers(C[g], last, Q[j].number))
                     => \E g \in 1..Len(C) : Covers(C[g], last, Q[j].number) /\ A[j].context = C[g].text
  BY <1>5, <1>6
<1> QED
  BY <1>6, <1>7, <1>8 DEF A

\* The key's answer for a question, or its own.
LEMMA WithKey ==
  ASSUME NEW Q \in Seq(Question), NEW A, Kindred(A, Q), NEW key
  PROVE  LET B == ApplyAnswerKey(A, key) IN
           /\ Kindred(B, Q)
           /\ \A j \in 1..Len(Q) :
                /\ B[j].context = A[j].context
                /\ (\A pair \in key : ~(pair[1] = Q[j].number /\ pair[2] <= Q[j].width)) => B[j].correct = A[j].correct
                /\ (\E pair \in key : pair[1] = Q[j].number /\ pair[2] <= Q[j].width)
                     => \E pair \in key : pair[1] = Q[j].number /\ B[j].correct = pair[2]
<1> DEFINE hit(q) == {pair \in key : pair[1] = q.number /\ pair[2] <= q.width}
           B == ApplyAnswerKey(A, key)
<1>1. B = [j \in DOMAIN A |-> IF hit(A[j]) = {} THEN A[j] ELSE [A[j] EXCEPT !.correct = (CHOOSE pair \in hit(A[j]) : TRUE)[2]]]
  BY DEF ApplyAnswerKey
<1>2. DOMAIN B = 1..Len(Q) /\ B = [j \in 1..Len(Q) |-> B[j]]
  BY <1>1 DEF Kindred
<1>3. ASSUME NEW j \in 1..Len(Q)
      PROVE  /\ Kin(B[j], Q[j]) /\ B[j].context = A[j].context
             /\ hit(A[j]) = {} => B[j].correct = A[j].correct
             /\ hit(A[j]) # {} => \E pair \in key : pair[1] = Q[j].number /\ B[j].correct = pair[2]
             /\ hit(A[j]) = {pair \in key : pair[1] = Q[j].number /\ pair[2] <= Q[j].width}
  <2>1. Kin(A[j], Q[j]) /\ j \in DOMAIN A
    BY DEF Kindred
  <2>2. hit(A[j]) = {pair \in key : pair[1] = Q[j].number /\ pair[2] <= Q[j].width}
    BY <2>1 DEF Kin
  <2>3. CASE hit(A[j]) = {}
    <3>1. B[j] = A[j]
      BY <1>1, <2>1, <2>3
    <3> QED
      BY <2>1, <2>2, <2>3, <3>1
  <2>4. CASE hit(A[j]) # {}
    <3> DEFINE chosen == CHOOSE pair \in hit(A[j]) : TRUE
    <3>1. chosen \in hit(A[j])
      BY <2>4
    <3>2. chosen \in key /\ chosen[1] = Q[j].number
      BY <2>2, <3>1
    <3>3. B[j] = [A[j] EXCEPT !.correct = chosen[2]]
      BY <1>1, <2>1, <2>4
    <3> HIDE DEF chosen, B
    <3>4. B[j].correct = chosen[2] /\ B[j].context = A[j].context
      BY <2>1, <3>3 DEF Kin, Fields
    <3>5. DOMAIN B[j] = Fields /\ B[j].text = A[j].text /\ B[j].number = A[j].number /\ B[j].section = A[j].section
          /\ B[j].options = A[j].options /\ B[j].width = A[j].width
      BY <2>1, <3>3 DEF Kin, Fields
    <3>6. Kin(B[j], Q[j])
      BY <2>1, <3>5 DEF Kin
    <3> QED
      BY <2>2, <2>4, <3>2, <3>4, <3>6
  <2> QED
    BY <2>3, <2>4
<1> HIDE DEF B
<1>4. Kindred(B, Q)
  BY <1>2, <1>3 DEF Kindred
<1>5. ASSUME NEW j \in 1..Len(Q)
      PROVE  /\ (\A pair \in key : ~(pair[1] = Q[j].number /\ pair[2] <= Q[j].width)) => B[j].correct = A[j].correct
             /\ (\E pair \in key : pair[1] = Q[j].number /\ pair[2] <= Q[j].width)
                     => \E pair \in key : pair[1] = Q[j].number /\ B[j].correct = pair[2]
  BY <1>3
<1> QED
  BY <1>3, <1>4, <1>5 DEF B

\* A solution's verdict where nothing has answered.
LEMMA WithSolutions ==
  ASSUME NEW Q \in Seq(Question), NEW B, Kindred(B, Q), NEW blocks
  PROVE  LET E == ApplyExplanations(B, blocks) IN
           /\ Kindred(E, Q)
           /\ \A j \in 1..Len(Q) : E[j].context = B[j].context /\ (B[j].correct # 0 => E[j].correct = B[j].correct)
<1> DEFINE mine(j) == {i \in DOMAIN blocks : blocks[i].number = B[j].number}
           skipped(j) == mine(j) = {} \/ (\E k \in DOMAIN B : k > j /\ B[k].number = B[j].number)
           b(j) == blocks[Min(mine(j))]
           E == ApplyExplanations(B, blocks)
<1>1. E = [j \in DOMAIN B |-> IF skipped(j) THEN B[j]
                              ELSE [B[j] EXCEPT !.text.explanation = IF @ = {} THEN b(j).text ELSE @,
                                                !.correct = IF @ = 0 /\ b(j).answer \in 1..B[j].width THEN b(j).answer ELSE @]]
  BY DEF ApplyExplanations
<1>2. DOMAIN E = 1..Len(Q) /\ E = [j \in 1..Len(Q) |-> E[j]]
  BY <1>1 DEF Kindred
<1>3. ASSUME NEW j \in 1..Len(Q)
      PROVE  Kin(E[j], Q[j]) /\ E[j].context = B[j].context /\ (B[j].correct # 0 => E[j].correct = B[j].correct)
  <2>1. Kin(B[j], Q[j]) /\ j \in DOMAIN B
    BY DEF Kindred
  <2>2. CASE skipped(j)
    <3>1. E[j] = B[j]
      BY <1>1, <2>1, <2>2
    <3> QED
      BY <2>1, <3>1
  <2>3. CASE ~skipped(j)
    <3> DEFINE x == B[j]
               explanation == IF x.text.explanation = {} THEN b(j).text ELSE x.text.explanation
               correct == IF x.correct = 0 /\ b(j).answer \in 1..x.width THEN b(j).answer ELSE x.correct
    <3>1. E[j] = [x EXCEPT !.text.explanation = explanation, !.correct = correct]
      BY <1>1, <2>1, <2>3
    <3>2. x.correct # 0 => correct = x.correct
      OBVIOUS
    <3> HIDE DEF E, explanation, correct
    <3> DEFINE text == [x.text EXCEPT !.explanation = explanation]
    <3>3. /\ DOMAIN E[j] = Fields /\ E[j].number = x.number /\ E[j].section = x.section /\ E[j].options = x.options /\ E[j].width = x.width
          /\ E[j].text = text /\ E[j].correct = correct /\ E[j].context = x.context
      BY <2>1, <3>1 DEF Kin, Fields
    <3>4. DOMAIN text = Parts /\ text["stem"] = x.text["stem"]
      BY <2>1 DEF Kin, Parts
    <3>5. Kin(E[j], Q[j])
      BY <2>1, <3>3, <3>4 DEF Kin
    <3> QED
      BY <3>2, <3>3, <3>5
  <2> QED
    BY <2>2, <2>3
<1> HIDE DEF E
<1>4. Kindred(E, Q)
  BY <1>2, <1>3 DEF Kindred
<1> QED
  BY <1>3, <1>4 DEF E

\* A list all whose members are kept is kept as it is.
LEMMA AmongAll ==
  ASSUME NEW M, NEW K, NEW list \in Seq(M), \A i \in 1..Len(list) : list[i] \in K
  PROVE  Among(list, K) = list
<1> DEFINE L == Seq(M \intersect K)
<1>1. PICK f : /\ Among(list, K) = f[Len(list)]
               /\ f[0] = <<>>
               /\ \A n \in 1..Len(list) : f[n] = IF list[n] \in K THEN Append(f[n - 1], list[n]) ELSE f[n - 1]
               /\ \A n \in 0..Len(list) : f[n] \in L
  BY AmongSteps
<1> DEFINE Whole(n) == Len(f[n]) = n /\ \A k \in 1..n : f[n][k] = list[k]
           S == {n \in Nat : n <= Len(list) => Whole(n)}
<1>2. Len(list) \in Nat
  OBVIOUS
<1>3. 0 \in S
  BY <1>1
<1>4. ASSUME NEW n \in S PROVE n + 1 \in S
  <2>1. SUFFICES ASSUME n + 1 <= Len(list) PROVE Whole(n + 1)
    OBVIOUS
  <2>2. n \in Nat /\ n + 1 \in 1..Len(list) /\ n \in 0..Len(list) /\ (n + 1) - 1 = n
    BY <1>2, <2>1
  <2>3. Whole(n) /\ f[n] \in L
    BY <1>1, <2>2
  <2>4. f[n + 1] = Append(f[n], list[n + 1])
    BY <1>1, <2>2
  <2>5. list[n + 1] \in M \intersect K
    BY <2>2, ElementOfSeq
  <2>6. Len(f[n + 1]) = n + 1 /\ f[n + 1][n + 1] = list[n + 1] /\ \A k \in 1..n : f[n + 1][k] = f[n][k]
    BY <2>2, <2>3, <2>4, <2>5
  <2>7. \A k \in 1..(n + 1) : k \in 1..n \/ k = n + 1
    BY <2>2
  <2> QED
    BY <2>3, <2>6, <2>7
<1>5. S = Nat
  BY <1>3, <1>4, SetInduction
<1>6. Whole(Len(list)) /\ Len(list) \in 0..Len(list)
  BY <1>2, <1>5
<1>7. f[Len(list)] \in Seq(M)
  BY <1>1, <1>6
<1>8. f[Len(list)] = list
  <2> DEFINE g == f[Len(list)]
  <2>1. g \in Seq(M) /\ Len(g) = Len(list) /\ \A k \in 1..Len(list) : g[k] = list[k]
    BY <1>6, <1>7
  <2> HIDE DEF g
  <2>2. g = list
    BY <2>1
  <2> QED
    BY <2>2 DEF g
<1> QED
  BY <1>1, <1>8

\* Flags change no answer of a question that has all its options.
LEMMA FlaggedOf ==
  ASSUME NEW q \in Question, NEW x, Kin(x, q)
  PROVE  /\ Kin(Flagged(x), q) /\ Flagged(x).context = x.context
         /\ (\A k \in Option : q.options[k] # {}) /\ x.correct \in Option => Flagged(x).correct = x.correct
<1> DEFINE places == {0} \union {k \in Option : x.options[k] # {}}
           last == Max(places)
           issues == x.issues \union (IF Filled(x) = 0 THEN {"no options"} ELSE IF Filled(x) < OptTarget THEN {"incomplete"} ELSE {})
                              \union (IF x.text.trailing # {} /\ "overrun" \notin x.issues THEN {"trailing"} ELSE {})
           correct == IF x.correct \in 1..last THEN x.correct ELSE 0
           y == Flagged(x)
<1>1. y = [x EXCEPT !.issues = issues, !.correct = correct]
  BY DEF Flagged
<1>2. ASSUME \A k \in Option : q.options[k] # {}, x.correct \in Option PROVE correct = x.correct
  <2>1. OptTarget \in Nat /\ OptTarget >= 2 /\ x.options = q.options
    BY ParserAssumption DEF Kin
  <2>2. places = 0..OptTarget
    BY <1>2, <2>1 DEF Option
  <2>3. OptTarget \in 0..OptTarget /\ \A k \in 0..OptTarget : OptTarget >= k
    BY <2>1
  <2>4. last = OptTarget
    <3> HIDE DEF places
    <3>1. last = CHOOSE m \in places : \A k \in places : m >= k
      BY DEF Max
    <3>2. \A m \in 0..OptTarget : (\A k \in 0..OptTarget : m >= k) => m = OptTarget
      BY <2>1
    <3> QED
      BY <2>2, <2>3, <3>1, <3>2
  <2> HIDE DEF last
  <2> QED
    BY <1>2, <2>4 DEF Option
<1> HIDE DEF issues, correct, y
<1>3. y.correct = correct /\ y.context = x.context
  BY <1>1 DEF Kin, Fields
<1>4. DOMAIN y = Fields /\ y.text = x.text /\ y.number = x.number /\ y.section = x.section /\ y.options = x.options /\ y.width = x.width
  BY <1>1 DEF Kin, Fields
<1>5. Kin(y, q)
  BY <1>4 DEF Kin
<1> QED
  BY <1>2, <1>3, <1>5 DEF y

\* A question with a stem is never dropped.
LEMMA Finalizes ==
  ASSUME NEW Q \in Seq(Question), \A j \in 1..Len(Q) : Q[j].text["stem"] # {}, NEW E, Kindred(E, Q)
  PROVE  Finalize(E) = [j \in 1..Len(Q) |-> Flagged(E[j])]
<1> DEFINE members == {E[j] : j \in 1..Len(Q)}
           kept == {q \in ToSet(E) : q.text.stem # {} \/ Filled(q) > 0}
<1>1. Len(Q) \in Nat /\ DOMAIN E = 1..Len(Q)
  BY DEF Kindred
<1>2. E \in Seq(members) /\ Len(E) = Len(Q)
  <2>1. E = [j \in 1..Len(Q) |-> E[j]]
    BY DEF Kindred
  <2>2. \A j \in 1..Len(Q) : E[j] \in members
    OBVIOUS
  <2> QED
    BY <1>1, <2>1, <2>2
<1>3. \A j \in 1..Len(E) : E[j] \in kept
  <2> TAKE j \in 1..Len(E)
  <2>1. E[j].text.stem # {} /\ j \in DOMAIN E
    BY <1>1, <1>2 DEF Kindred, Kin
  <2> QED
    BY <2>1 DEF ToSet
<1> HIDE DEF kept
<1>4. Among(E, kept) = E
  BY <1>2, <1>3, AmongAll
<1>5. Finalize(E) = [j \in DOMAIN Among(E, kept) |-> Flagged(Among(E, kept)[j])]
  BY DEF Finalize, kept
<1> QED
  BY <1>1, <1>4, <1>5

-----------------------------------------------------------------------------
\* The answer key.

KeyLines == Seq([table : PairSeq, wrapped : PairSeq, bare : PairSeq])
Forms == {"table", "wrapped", "bare"}
\* The options a key names for question n in a form.
Named(lines, n, form) ==
  LET read == {k \in DOMAIN lines : form = "bare" => lines[k].table = <<>>} IN
    UNION {{pair[2] : pair \in {x \in ToSet(lines[k][form]) : x[1] = n /\ x[2] \in Option}} : k \in read}
\* A pair of a key and where it stands.
Spot(lines, k, form, i) ==
  [pass |-> IF form = "bare" THEN 2 ELSE 1, line |-> k, form |-> IF form = "table" THEN 1 ELSE 2,
   place |-> IF form = "table" THEN -i ELSE i, pair |-> lines[k][form][i]]
IsSpot(lines, k, form, i) ==
  k \in DOMAIN lines /\ form \in Forms /\ (form = "bare" => lines[k].table = <<>>) /\ i \in DOMAIN lines[k][form]

\* The pairs of an answer key are those at its spots.
LEMMA PairsOf ==
  ASSUME NEW lines
  PROVE  /\ \A x \in Pairs(lines) : \E k, form, i : IsSpot(lines, k, form, i) /\ x = Spot(lines, k, form, i)
         /\ \A k, form, i : IsSpot(lines, k, form, i) => Spot(lines, k, form, i) \in Pairs(lines)
<1> DEFINE read(k, form) == {[pass |-> IF form = "bare" THEN 2 ELSE 1, line |-> k, form |-> IF form = "table" THEN 1 ELSE 2,
                              place |-> IF form = "table" THEN -i ELSE i, pair |-> lines[k][form][i]] : i \in DOMAIN lines[k][form]}
           of(k) == read(k, "table") \union read(k, "wrapped") \union (IF lines[k].table = <<>> THEN read(k, "bare") ELSE {})
<1>1. Pairs(lines) = UNION {of(k) : k \in DOMAIN lines}
  BY DEF Pairs
<1>2. \A k, form : read(k, form) = {Spot(lines, k, form, i) : i \in DOMAIN lines[k][form]}
  BY DEF Spot
<1> HIDE DEF read
<1>3. ASSUME NEW x \in Pairs(lines) PROVE \E k, form, i : IsSpot(lines, k, form, i) /\ x = Spot(lines, k, form, i)
  <2>1. PICK k \in DOMAIN lines : x \in of(k)
    BY <1>1
  <2>2. PICK form \in Forms : x \in read(k, form) /\ (form = "bare" => lines[k].table = <<>>)
    BY <2>1 DEF Forms
  <2>3. PICK i \in DOMAIN lines[k][form] : x = Spot(lines, k, form, i)
    BY <1>2, <2>2
  <2> QED
    BY <2>1, <2>2, <2>3 DEF IsSpot
<1>4. ASSUME NEW k, NEW form, NEW i, IsSpot(lines, k, form, i) PROVE Spot(lines, k, form, i) \in Pairs(lines)
  <2>1. k \in DOMAIN lines /\ form \in Forms /\ (form = "bare" => lines[k].table = <<>>) /\ i \in DOMAIN lines[k][form]
    BY <1>4 DEF IsSpot
  <2>2. Spot(lines, k, form, i) \in read(k, form)
    BY <1>2, <2>1
  <2>3. Spot(lines, k, form, i) \in of(k)
    BY <2>1, <2>2 DEF Forms
  <2> QED
    BY <1>1, <2>1, <2>3
<1> QED
  BY <1>3, <1>4

\* Where the pairs for question n stand.
Spots(lines, n) == {x \in Pairs(lines) : Valid(x.pair) /\ x.pair[1] = n}
\* What a form of the key names for a number stands at one of the number's spots.
LEMMA NamedAt ==
  ASSUME NEW lines, NEW n \in Nat, n >= 1, NEW form \in Forms, NEW o
  PROVE  o \in Named(lines, n, form) <=>
           \E k, i : IsSpot(lines, k, form, i) /\ Spot(lines, k, form, i) \in Spots(lines, n) /\ Spot(lines, k, form, i).pair[2] = o
<1> DEFINE read == {k \in DOMAIN lines : form = "bare" => lines[k].table = <<>>}
<1>1. o \in Named(lines, n, form) <=> \E k \in read : \E i \in DOMAIN lines[k][form] :
        lines[k][form][i][1] = n /\ lines[k][form][i][2] \in Option /\ lines[k][form][i][2] = o
  BY DEF Named, ToSet
<1>2. \A k, i : Spot(lines, k, form, i).pair = lines[k][form][i]
  BY DEF Spot
<1>3. ASSUME NEW k, NEW i, IsSpot(lines, k, form, i)
      PROVE  Spot(lines, k, form, i) \in Spots(lines, n) <=> (lines[k][form][i][1] = n /\ lines[k][form][i][2] \in Option)
  <2>1. Spot(lines, k, form, i) \in Pairs(lines)
    BY <1>3, PairsOf
  <2> QED
    BY <1>2, <2>1 DEF Spots, Valid
<1>4. \A k, i : IsSpot(lines, k, form, i) <=> (k \in read /\ i \in DOMAIN lines[k][form])
  BY DEF IsSpot
<1> HIDE DEF read
<1> QED
  BY <1>1, <1>2, <1>3, <1>4

\* Of the pairs for a question one stands before none of the others.
LEMMA FirstSpot ==
  ASSUME NEW lines \in KeyLines, NEW n, Spots(lines, n) # {}
  PROVE  \E x \in Spots(lines, n) : \A y \in Spots(lines, n) : ~Before(y, x)
<1> DEFINE S == Spots(lines, n)
<1>1. ASSUME NEW x \in S
      PROVE  /\ x.pass \in Nat /\ x.line \in 1..Len(lines) /\ x.form \in Nat /\ x.place \in Int
             /\ x.form = 1 => 0 - x.place \in 1..Len(lines[x.line].table)
             /\ x.form # 1 => x.place \in Nat
  <2>1. PICK k, form, i : IsSpot(lines, k, form, i) /\ x = Spot(lines, k, form, i)
    BY PairsOf DEF Spots
  <2>2. k \in 1..Len(lines) /\ form \in Forms /\ i \in DOMAIN lines[k][form]
    BY <2>1 DEF IsSpot, KeyLines
  <2>3. lines[k] \in [table : PairSeq, wrapped : PairSeq, bare : PairSeq]
    BY <2>2, ElementOfSeq DEF KeyLines
  <2>4. lines[k][form] \in PairSeq /\ (form = "table" => lines[k][form] = lines[k].table)
    BY <2>2, <2>3 DEF Forms
  <2>5. i \in 1..Len(lines[k][form]) /\ i \in Nat
    BY <2>2, <2>4 DEF PairSeq
  <2>6. /\ x.pass = IF form = "bare" THEN 2 ELSE 1
        /\ x.line = k /\ x.form = (IF form = "table" THEN 1 ELSE 2)
        /\ x.place = IF form = "table" THEN -i ELSE i
    BY <2>1 DEF Spot
  <2> QED
    BY <2>2, <2>4, <2>5, <2>6
<1> HIDE DEF S
<1> DEFINE P == {x.pass : x \in S}
<1>2. PICK a \in P : \A b \in P : a <= b
  <2>1. P \in SUBSET Nat /\ P # {}
    BY <1>1 DEF S
  <2> HIDE DEF P
  <2> QED
    BY <2>1, LeastOfSet
<1> DEFINE S1 == {x \in S : x.pass = a}
           P1 == {x.line : x \in S1}
<1>3. PICK k \in P1 : \A b \in P1 : k <= b
  <2>1. P1 \in SUBSET Nat /\ P1 # {}
    BY <1>1, <1>2
  <2> HIDE DEF P1
  <2> QED
    BY <2>1, LeastOfSet
<1> DEFINE S2 == {x \in S1 : x.line = k}
           P2 == {x.form : x \in S2}
<1>4. PICK f \in P2 : \A b \in P2 : f <= b
  <2>1. P2 \in SUBSET Nat /\ P2 # {}
    BY <1>1, <1>3
  <2> HIDE DEF P2
  <2> QED
    BY <2>1, LeastOfSet
<1> DEFINE S3 == {x \in S2 : x.form = f}
           shift == Len(lines[k].table)
           P3 == {x.place + shift : x \in S3}
<1>5. S3 # {} /\ S3 \subseteq S /\ \A x \in S3 : x.pass = a /\ x.line = k /\ x.form = f
  BY <1>4
<1>6. shift \in Nat
  <2>1. k \in 1..Len(lines)
    BY <1>1, <1>3
  <2>2. lines[k] \in [table : PairSeq, wrapped : PairSeq, bare : PairSeq]
    BY <2>1, ElementOfSeq DEF KeyLines
  <2>3. lines[k].table \in PairSeq
    BY <2>2
  <2> QED
    BY <2>3 DEF PairSeq
<1>7. ASSUME NEW x \in S3 PROVE x.place \in Int /\ x.place + shift \in Nat
  <2>1. x \in S /\ x.line = k
    BY <1>5
  <2>2. x.place \in Int /\ (x.form = 1 => 0 - x.place \in 1..shift) /\ (x.form # 1 => x.place \in Nat)
    BY <1>1, <2>1
  <2> HIDE DEF shift
  <2> QED
    BY <1>6, <2>2
<1> HIDE DEF shift, S3
<1>8. PICK m \in P3 : \A b \in P3 : m <= b
  <2>1. P3 \in SUBSET Nat /\ P3 # {}
    BY <1>5, <1>7
  <2> HIDE DEF P3
  <2> QED
    BY <2>1, LeastOfSet
<1>9. PICK x \in S3 : m = x.place + shift
  BY <1>8
<1>10. x \in S /\ x.pass = a /\ x.line = k /\ x.form = f /\ x.place \in Int
  BY <1>5, <1>7
<1>11. ASSUME NEW y \in S, Before(y, x) PROVE FALSE
  <2>1. y.pass \in Nat /\ y.line \in Nat /\ y.form \in Nat /\ y.place \in Int /\ a \in Nat /\ k \in Nat /\ f \in Nat
    BY <1>1, <1>10
  <2>2. a <= y.pass
    BY <1>2
  <2>3. y.pass = a
    BY <1>10, <1>11, <2>1, <2>2 DEF Before
  <2>4. k <= y.line
    BY <1>3, <2>3
  <2>5. y.line = k
    BY <1>10, <1>11, <2>1, <2>3, <2>4 DEF Before
  <2>6. f <= y.form
    BY <1>4, <2>3, <2>5
  <2>7. y.form = f
    BY <1>10, <1>11, <2>1, <2>3, <2>5, <2>6 DEF Before
  <2>8. y \in S3
    BY <2>3, <2>5, <2>7 DEF S3
  <2>9. x.place + shift <= y.place + shift
    BY <1>8, <1>9, <2>8
  <2>10. y.place < x.place
    BY <1>10, <1>11, <2>1, <2>3, <2>5, <2>7 DEF Before
  <2> QED
    BY <1>6, <1>10, <2>1, <2>9, <2>10
<1> QED
  BY <1>10, <1>11 DEF S

\* The key has for a question what the surest of its pairs say.
LEMMA KeyDecides ==
  ASSUME NEW lines \in KeyLines, NEW n \in Nat, n >= 1
  PROVE  LET key == ParseAnswerKey(lines)
             sure == Named(lines, n, "table") \union Named(lines, n, "wrapped")
             bare == Named(lines, n, "bare")
         IN /\ \A pair \in key : pair[1] = n => /\ pair[2] \in Option /\ (sure # {} => pair[2] \in sure)
                                                /\ (sure = {} => pair[2] \in bare)
            /\ sure # {} \/ bare # {} => \E pair \in key : pair[1] = n
<1> DEFINE key == ParseAnswerKey(lines)
           sure == Named(lines, n, "table") \union Named(lines, n, "wrapped")
           bare == Named(lines, n, "bare")
           S == Spots(lines, n)
<1>1. \A pair : pair \in key /\ pair[1] = n <=> \E x \in S : pair = x.pair /\ \A y \in S : ~Before(y, x)
  BY DEF ParseAnswerKey, Spots
<1>2. "table" \in Forms /\ "wrapped" \in Forms /\ "bare" \in Forms
  BY DEF Forms
<1>3. \A x \in S : x.pair[2] \in Option /\ x.pass \in {1, 2} /\ (x.pass = 1 => x.pair[2] \in sure) /\ (x.pass = 2 => x.pair[2] \in bare)
  <2> TAKE x \in S
  <2>1. PICK k, form, i : IsSpot(lines, k, form, i) /\ x = Spot(lines, k, form, i)
    BY PairsOf DEF Spots
  <2>2. form \in Forms
    BY <2>1 DEF IsSpot
  <2>3. x.pair[2] \in Named(lines, n, form)
    BY <2>1, <2>2, NamedAt
  <2>4. x.pass = IF form = "bare" THEN 2 ELSE 1
    BY <2>1 DEF Spot
  <2>5. x.pair[2] \in Option
    BY DEF Spots, Valid
  <2> QED
    BY <2>2, <2>3, <2>4, <2>5 DEF Forms
<1>4. sure # {} => \E x \in S : x.pass = 1
  <2>1. SUFFICES ASSUME NEW o, NEW form \in {"table", "wrapped"}, o \in Named(lines, n, form) PROVE \E x \in S : x.pass = 1
    OBVIOUS
  <2>2. PICK k, i : IsSpot(lines, k, form, i) /\ Spot(lines, k, form, i) \in S
    BY <1>2, <2>1, NamedAt
  <2>3. Spot(lines, k, form, i).pass = 1
    BY <2>1 DEF Spot
  <2> QED
    BY <2>2, <2>3
<1>5. bare # {} => S # {}
  BY <1>2, NamedAt
<1> HIDE DEF key, sure, bare, S
<1>6. ASSUME NEW x \in S, \A y \in S : ~Before(y, x), sure # {} PROVE x.pass = 1
  <2>1. PICK y \in S : y.pass = 1
    BY <1>4, <1>6
  <2>2. ~(y.pass < x.pass)
    BY <1>6, <2>1 DEF Before
  <2> QED
    BY <1>3, <2>1, <2>2
<1>7. ASSUME NEW pair \in key, pair[1] = n
      PROVE  pair[2] \in Option /\ (sure # {} => pair[2] \in sure) /\ (sure = {} => pair[2] \in bare)
  <2>1. PICK x \in S : pair = x.pair /\ \A y \in S : ~Before(y, x)
    BY <1>1, <1>7
  <2>2. sure # {} => x.pass = 1
    BY <1>6, <2>1
  <2>3. sure = {} => x.pass # 1
    BY <1>3
  <2> QED
    BY <1>3, <2>1, <2>2, <2>3
<1>8. sure # {} \/ bare # {} => \E pair \in key : pair[1] = n
  <2>1. SUFFICES ASSUME S # {} PROVE \E pair \in key : pair[1] = n
    BY <1>4, <1>5
  <2>2. \E x \in S : \A y \in S : ~Before(y, x)
    BY <2>1, FirstSpot DEF S
  <2> QED
    BY <1>1, <2>2
<1> QED
  BY <1>7, <1>8 DEF key, sure, bare

-----------------------------------------------------------------------------
\* The sections.

\* Each label is summarised once, at its first place.
Summary(s, printed) ==
  /\ {s[a].label : a \in DOMAIN s} = Range(printed) /\ Cardinality(Range(printed)) = Len(s)
  /\ \A a \in DOMAIN s : s[a].count = Cardinality({j \in DOMAIN printed : printed[j] = s[a].label})
\* The sections' summary names each section once, with the questions it has.
LEMMA Summarizes ==
  ASSUME NEW sections \in Seq(Labels), NEW kept, NEW n \in Nat, DOMAIN kept = 1..n, \A j \in 1..n : kept[j].section \in Labels
  PROVE  Summary(SummarizeSections(sections, kept), [j \in 1..n |-> kept[j].section])
<1> DEFINE listed == [j \in 1..n |-> kept[j].section]
           labels == sections \o listed
           of(label) == {j \in 1..n : kept[j].section = label}
           numbers(label) == {kept[j].number : j \in of(label)}
           first == {k \in DOMAIN labels : of(labels[k]) # {} /\ \A m \in 1..(k - 1) : labels[m] # labels[k]}
           places == [k \in DOMAIN labels |-> k]
           order == Among(places, first)
           s == SummarizeSections(sections, kept)
           N == Len(labels)
<1>1. s = [a \in DOMAIN order |-> LET label == labels[order[a]] IN
            [label |-> label, first |-> Min(numbers(label)), last |-> Max(numbers(label)), count |-> Cardinality(of(label))]]
  BY DEF SummarizeSections
<1>2. /\ listed \in Seq(Labels) /\ Len(listed) = n
      /\ labels \in Seq(Labels) /\ N = Len(sections) + n /\ N \in Nat /\ DOMAIN labels = 1..N
      /\ \A j \in 1..n : labels[Len(sections) + j] = kept[j].section
  <2>1. listed \in Seq(Labels) /\ Len(listed) = n /\ DOMAIN listed = 1..n
    OBVIOUS
  <2>2. Len(sections) \in Nat
    OBVIOUS
  <2>3. \A j \in 1..n : listed[j] = kept[j].section
    OBVIOUS
  <2> HIDE DEF listed
  <2>4. labels \in Seq(Labels) /\ N = Len(sections) + n /\ N \in Nat /\ DOMAIN labels = 1..N
    BY <2>1, <2>2
  <2>5. \A j \in 1..n : labels[Len(sections) + j] = listed[j]
    BY <2>1, <2>2
  <2> QED
    BY <2>1, <2>3, <2>4, <2>5
<1> HIDE DEF labels, listed, s
<1>3. places \in Seq(1..N) /\ Len(places) = N /\ \A k \in 1..N : places[k] = k
  BY <1>2
<1>4. first \subseteq 1..N
  BY <1>2
<1> HIDE DEF first, places
<1>5. /\ Len(order) \in Nat /\ DOMAIN order = 1..Len(order)
      /\ \A a \in 1..Len(order) : order[a] \in first
      /\ \A a, b \in 1..Len(order) : a < b => order[a] < order[b]
      /\ \A k \in first : \E a \in 1..Len(order) : order[a] = k
  <2>1. order \in Seq(1..N \intersect first)
    BY <1>3, AmongMembers
  <2>2. PICK h : h \in StoodAt(places, first)
    BY <1>3, AmongPlaces
  <2>3. /\ h \in [1..Len(order) -> {i \in 1..Len(places) : places[i] \in first}]
        /\ \A k \in 1..Len(order) : order[k] = places[h[k]]
        /\ \A k, l \in 1..Len(order) : k < l => h[k] < h[l]
        /\ \A i \in 1..Len(places) : places[i] \in first => \E k \in 1..Len(order) : h[k] = i
    BY <2>2 DEF StoodAt
  <2>4. \A k \in 1..Len(order) : order[k] = h[k] /\ order[k] \in first
    BY <1>3, <2>3
  <2>5. Len(order) \in Nat /\ DOMAIN order = 1..Len(order)
    BY <2>1
  <2>6. \A k \in first : \E a \in 1..Len(order) : order[a] = k
    BY <1>3, <1>4, <2>3, <2>4
  <2>7. \A a, b \in 1..Len(order) : a < b => order[a] < order[b]
    BY <2>3, <2>4
  <2> QED
    BY <2>4, <2>5, <2>6, <2>7
<1> HIDE DEF order
<1> DEFINE L == Len(order)
<1>6. DOMAIN s = 1..L /\ Len(s) = L /\ \A a \in 1..L : s[a].label = labels[order[a]] /\ s[a].count = Cardinality(of(labels[order[a]]))
  <2>1. DOMAIN s = 1..L /\ \A a \in 1..L : s[a].label = labels[order[a]] /\ s[a].count = Cardinality(of(labels[order[a]]))
    BY <1>1, <1>5
  <2> QED
    BY <1>5, <2>1
<1> DEFINE printed == [j \in 1..n |-> kept[j].section]
           R == Range(printed)
<1>7. R = {kept[j].section : j \in 1..n}
  BY DEF Range
<1>8. \A a \in 1..L : labels[order[a]] \in R
  <2> TAKE a \in 1..L
  <2>1. order[a] \in first
    BY <1>5
  <2>2. of(labels[order[a]]) # {}
    BY <2>1 DEF first
  <2> QED
    BY <1>7, <2>2
<1>9. ASSUME NEW x \in R PROVE \E a \in 1..L : labels[order[a]] = x
  <2>1. PICK j \in 1..n : kept[j].section = x
    BY <1>7
  <2> DEFINE K == {k \in 1..N : labels[k] = x}
  <2>2. Len(sections) + j \in K
    BY <1>2, <2>1
  <2>3. PICK k \in K : \A y \in K : k <= y
    <3>1. K # {}
      BY <2>2
    <3>2. K \in SUBSET Nat
      BY <1>2
    <3> HIDE DEF K
    <3> QED
      BY <3>1, <3>2, LeastOfSet
  <2>4. \A m \in 1..(k - 1) : labels[m] # labels[k]
    <3> SUFFICES ASSUME NEW m \in 1..(k - 1), labels[m] = labels[k] PROVE FALSE
      OBVIOUS
    <3>1. m \in 1..N /\ m < k /\ k \in Nat /\ m \in Nat
      BY <1>2
    <3>2. m \in K
      BY <3>1
    <3>3. k <= m
      BY <2>3, <3>2
    <3> QED
      BY <3>1, <3>3
  <2>5. of(labels[k]) # {}
    BY <2>1
  <2>6. k \in first
    BY <1>2, <2>4, <2>5 DEF first
  <2> QED
    BY <1>5, <2>6
<1>10. ASSUME NEW a \in 1..L, NEW b \in 1..L, a < b PROVE labels[order[a]] # labels[order[b]]
  <2>1. order[a] < order[b] /\ order[b] \in first /\ order[a] \in 1..N /\ order[b] \in 1..N
    BY <1>4, <1>5, <1>10
  <2>2. order[a] \in 1..(order[b] - 1)
    BY <1>2, <2>1
  <2> QED
    BY <2>1, <2>2 DEF first
<1>11. Cardinality(R) = L
  <2> DEFINE f == [a \in 1..L |-> labels[order[a]]]
  <2>1. f \in [1..L -> R] /\ \A a \in 1..L : f[a] = labels[order[a]]
    BY <1>8
  <2> HIDE DEF f, R
  <2>2. \A a, b \in 1..L : f[a] = f[b] => a = b
    <3> SUFFICES ASSUME NEW a \in 1..L, NEW b \in 1..L, f[a] = f[b], a # b PROVE FALSE
      OBVIOUS
    <3>1. a < b \/ b < a
      BY <1>5
    <3> QED
      BY <1>10, <2>1, <3>1
  <2>3. f \in Bijection(1..L, R)
    <3>1. \A x \in R : \E a \in 1..L : f[a] = x
      BY <1>9, <2>1
    <3> QED
      BY <2>1, <2>2, <3>1 DEF Bijection, Injection, Surjection, IsInjective
  <2>4. IsFiniteSet(1..L) /\ Cardinality(1..L) = L
    BY <1>5, FirstNumbers
  <2> QED
    BY <2>3, <2>4, FS_Bijection DEF ExistsBijection
<1>12. {s[a].label : a \in DOMAIN s} = R
  <2>1. DOMAIN s = 1..L /\ \A a \in 1..L : s[a].label = labels[order[a]]
    BY <1>6
  <2> HIDE DEF R
  <2>2. \A x : x \in R <=> \E a \in 1..L : labels[order[a]] = x
    BY <1>8, <1>9
  <2> QED
    BY <2>1, <2>2
<1>13. \A a \in DOMAIN s : s[a].count = Cardinality({j \in 1..n : printed[j] = s[a].label})
  <2> TAKE a \in DOMAIN s
  <2>1. s[a].label = labels[order[a]] /\ s[a].count = Cardinality(of(labels[order[a]]))
    BY <1>6
  <2>2. {j \in 1..n : printed[j] = s[a].label} = of(s[a].label)
    OBVIOUS
  <2> QED
    BY <2>1, <2>2
<1>14. DOMAIN printed = 1..n
  OBVIOUS
<1>15. Summary(s, printed)
  <2> HIDE DEF R, printed
  <2> QED
    BY <1>6, <1>11, <1>12, <1>13, <1>14 DEF Summary, R
<1> QED
  BY <1>15 DEF s

-----------------------------------------------------------------------------
\* The whole of the parse.

\* What becomes of a question.
Folded(x, q, C, last, key) ==
  /\ Kin(x, q)
  /\ (\A g \in 1..Len(C) : ~Covers(C[g], last, q.number)) => x.context = q.context
  /\ (\E g \in 1..Len(C) : Covers(C[g], last, q.number))
       => \E g \in 1..Len(C) : Covers(C[g], last, q.number) /\ x.context = C[g].text
  /\ (\A k \in Option : q.options[k] # {}) =>
       /\ (\A pair \in key : ~(pair[1] = q.number /\ pair[2] <= q.width)) /\ q.correct \in Option => x.correct = q.correct
       /\ (\E pair \in key : pair[1] = q.number /\ pair[2] <= q.width) /\ (\A pair \in key : pair[1] = q.number => pair[2] \in Option)
            => \E pair \in key : pair[1] = q.number /\ x.correct = pair[2]
AllFolded(R, Q, C, last, key) ==
  DOMAIN R = 1..Len(Q) /\ R = [j \in 1..Len(Q) |-> R[j]] /\ \A j \in 1..Len(Q) : Folded(R[j], Q[j], C, last, key)
\* What the end of the parse makes of each question, whatever stands behind them.
LEMMA Folds ==
  ASSUME NEW Q \in Seq(Question), \A j \in 1..Len(Q) : Q[j].text["stem"] # {}, NEW C \in Seq(Context), NEW last, NEW key, NEW blocks
  PROVE  AllFolded(Finalize(ApplyExplanations(ApplyAnswerKey(ApplyContexts(Q, C, last), key), blocks)), Q, C, last, key)
<1> DEFINE A == ApplyContexts(Q, C, last)
           B == ApplyAnswerKey(A, key)
           E == ApplyExplanations(B, blocks)
           R == Finalize(E)
<1>1. /\ Kindred(A, Q)
      /\ \A j \in 1..Len(Q) :
                /\ A[j].correct = Q[j].correct
                /\ (\A g \in 1..Len(C) : ~Covers(C[g], last, Q[j].number)) => A[j].context = Q[j].context
                /\ (\E g \in 1..Len(C) : Covers(C[g], last, Q[j].number))
                     => \E g \in 1..Len(C) : Covers(C[g], last, Q[j].number) /\ A[j].context = C[g].text
  BY WithContexts
<1> HIDE DEF A
<1>2. /\ Kindred(B, Q)
      /\ \A j \in 1..Len(Q) :
                /\ B[j].context = A[j].context
                /\ (\A pair \in key : ~(pair[1] = Q[j].number /\ pair[2] <= Q[j].width)) => B[j].correct = A[j].correct
                /\ (\E pair \in key : pair[1] = Q[j].number /\ pair[2] <= Q[j].width)
                     => \E pair \in key : pair[1] = Q[j].number /\ B[j].correct = pair[2]
  BY <1>1, WithKey
<1> HIDE DEF B
<1>3. Kindred(E, Q) /\ \A j \in 1..Len(Q) : E[j].context = B[j].context /\ (B[j].correct # 0 => E[j].correct = B[j].correct)
  BY <1>2, WithSolutions
<1> HIDE DEF E
<1>4. R = [j \in 1..Len(Q) |-> Flagged(E[j])]
  BY <1>3, Finalizes
<1> HIDE DEF R
<1>5. DOMAIN R = 1..Len(Q) /\ R = [j \in 1..Len(Q) |-> R[j]]
  BY <1>4
<1>6. ASSUME NEW j \in 1..Len(Q)
      PROVE  /\ Kin(R[j], Q[j]) /\ R[j].context = A[j].context
             /\ (\A k \in Option : Q[j].options[k] # {}) /\ B[j].correct \in Option => R[j].correct = B[j].correct
  <2>1. R[j] = Flagged(E[j])
    BY <1>4
  <2>2. Kin(E[j], Q[j]) /\ Q[j] \in Question
    BY <1>3, ElementOfSeq DEF Kindred
  <2>3. /\ Kin(Flagged(E[j]), Q[j]) /\ Flagged(E[j]).context = E[j].context
        /\ (\A k \in Option : Q[j].options[k] # {}) /\ E[j].correct \in Option => Flagged(E[j]).correct = E[j].correct
    BY <2>2, FlaggedOf
  <2>4. B[j].correct \in Option => E[j].correct = B[j].correct
    <3>1. \A k \in Option : k # 0
      BY ParserAssumption DEF Option
    <3> QED
      BY <1>3, <3>1
  <2> QED
    BY <1>2, <1>3, <2>1, <2>3, <2>4
<1>7. ASSUME NEW j \in 1..Len(Q), \A k \in Option : Q[j].options[k] # {},
             \A pair \in key : ~(pair[1] = Q[j].number /\ pair[2] <= Q[j].width), Q[j].correct \in Option
      PROVE  R[j].correct = Q[j].correct
  BY <1>1, <1>2, <1>6, <1>7
<1>8. ASSUME NEW j \in 1..Len(Q), \A k \in Option : Q[j].options[k] # {},
             \E pair \in key : pair[1] = Q[j].number /\ pair[2] <= Q[j].width,
             \A pair \in key : pair[1] = Q[j].number => pair[2] \in Option
      PROVE  \E pair \in key : pair[1] = Q[j].number /\ R[j].correct = pair[2]
  <2>1. PICK pair \in key : pair[1] = Q[j].number /\ B[j].correct = pair[2]
    BY <1>2, <1>8
  <2>2. R[j].correct = B[j].correct
    BY <1>6, <1>8, <2>1
  <2> QED
    BY <2>1, <2>2
<1>9. ASSUME NEW j \in 1..Len(Q)
      PROVE  /\ (\A g \in 1..Len(C) : ~Covers(C[g], last, Q[j].number)) => R[j].context = Q[j].context
             /\ (\E g \in 1..Len(C) : Covers(C[g], last, Q[j].number))
                     => \E g \in 1..Len(C) : Covers(C[g], last, Q[j].number) /\ R[j].context = C[g].text
  BY <1>1, <1>6
<1>10. \A j \in 1..Len(Q) : Folded(R[j], Q[j], C, last, key)
  BY <1>6, <1>7, <1>8, <1>9 DEF Folded
<1>11. AllFolded(R, Q, C, last, key)
  BY <1>5, <1>10 DEF AllFolded
<1> QED
  BY <1>11 DEF R, E, B, A

\* A question as it is printed, part by part.
AsPrinted(q, m) ==
  /\ q.number = m.number /\ q.section = m.section /\ q.options = m.options /\ q.correct = m.own
  /\ q.text = [stem |-> m.stem, trailing |-> m.trailing, explanation |-> m.explanation]
  /\ q.issues = m.issues
\* A question that is the printed one has all that was printed.
LEMMA SamePrinted ==
  ASSUME NEW c \in Question, NEW m, Same(c, m)
  PROVE  AsPrinted(c, m)
<1> DEFINE text == [stem |-> m.stem, trailing |-> m.trailing, explanation |-> m.explanation]
<1>1. c.text \in [Parts -> Texts] /\ c.text["stem"] = m.stem /\ c.text["trailing"] = m.trailing /\ c.text["explanation"] = m.explanation
  BY DEF Question, Same
<1>2. c.text = text
  <2>1. DOMAIN text = Parts /\ DOMAIN c.text = Parts /\ text = [part \in Parts |-> text[part]] /\ c.text = [part \in Parts |-> c.text[part]]
    BY <1>1 DEF Parts
  <2>2. \A part \in Parts : text[part] = c.text[part]
    BY <1>1 DEF Parts
  <2> QED
    BY <2>1, <2>2
<1> QED
  BY <1>2 DEF Same, AsPrinted
\* Every question filed is as it was printed.
LEMMA FiledPrinted ==
  ASSUME NEW d, NEW sh, NEW q, ReaderOK(d, sh, q)
  PROVE  \A j \in DOMAIN q.out : AsPrinted(q.out[j], sh.qs[j])
<1> TAKE j \in DOMAIN q.out
<1>1. q.out \in Seq(Question)
  BY ParserOf DEF ReaderOK, Typed
<1>2. j \in 1..Len(q.out) /\ q.out[j] \in Question
  BY <1>1
<1>3. Same(q.out[j], sh.qs[j])
  BY <1>2 DEF ReaderOK, FiledOK
<1> QED
  BY <1>2, <1>3, SamePrinted

\* The answer a question ends with.
Preferred(x, own, lines) ==
  LET n == x.number
      sure == Named(lines, n, "table") \union Named(lines, n, "wrapped")
      bare == Named(lines, n, "bare")
  IN /\ sure # {} => x.correct \in sure
     /\ sure = {} /\ bare # {} => x.correct \in bare
     /\ sure = {} /\ bare = {} /\ own # 0 => x.correct = own
\* The answer a finished question has comes from the surest source.
LEMMA Answered ==
  ASSUME NEW c \in Question, NEW m, Same(c, m), m.number \in Nat, m.number >= 1, m.own \in 0..OptTarget,
         NEW lines \in KeyLines, NEW C, NEW last, NEW R, Folded(R, c, C, last, ParseAnswerKey(lines)), Filled(R) = OptTarget
  PROVE  Preferred(R, m.own, lines)
<1> DEFINE n == R.number
           key == ParseAnswerKey(lines)
           sure == Named(lines, n, "table") \union Named(lines, n, "wrapped")
           bare == Named(lines, n, "bare")
<1>1. c \in Question /\ n = c.number /\ n = m.number /\ R.options = c.options /\ c.width \in 0..OptTarget /\ OptTarget \in Nat
  <2>1. c.width \in 0..OptTarget
    BY DEF Question
  <2>2. Kin(R, c)
    BY DEF Folded
  <2> QED
    BY <2>1, <2>2, ParserAssumption DEF Kin, Same
<1>2. \A k \in Option : c.options[k] # {}
  <2> DEFINE F == {k \in Option : R.options[k] # {}}
  <2>1. IsFiniteSet(Option) /\ Cardinality(Option) = OptTarget /\ F \subseteq Option
    BY <1>1, FirstNumbers DEF Option
  <2>2. Cardinality(F) = OptTarget
    BY DEF Filled
  <2> HIDE DEF F
  <2>3. F = Option
    BY <2>1, <2>2, FS_Subset
  <2> QED
    BY <1>1, <2>3 DEF F
<1>3. c.width = OptTarget
  <2>1. OptTarget \in Option
    BY ParserAssumption DEF Option
  <2>2. OptTarget <= c.width
    BY <1>2, <2>1 DEF Same, Fits
  <2> QED
    BY <1>1, <2>2
<1>4. /\ \A pair \in key : pair[1] = n => /\ pair[2] \in Option /\ (sure # {} => pair[2] \in sure)
                                          /\ (sure = {} => pair[2] \in bare)
      /\ sure # {} \/ bare # {} => \E pair \in key : pair[1] = n
  BY <1>1, KeyDecides
<1> HIDE DEF key, sure, bare
<1>5. \A k \in Option : k <= c.width
  BY <1>1, <1>3 DEF Option
<1>6. CASE \E pair \in key : pair[1] = n
  <2>1. PICK pair \in key : pair[1] = n /\ R.correct = pair[2]
    <3>1. \E pair \in key : pair[1] = c.number /\ pair[2] <= c.width
      BY <1>1, <1>4, <1>5, <1>6
    <3>2. \A pair \in key : pair[1] = c.number => pair[2] \in Option
      BY <1>1, <1>4
    <3>3. \E pair \in key : pair[1] = c.number /\ R.correct = pair[2]
      BY <1>2, <3>1, <3>2 DEF key, Folded
    <3> QED
      BY <1>1, <3>3
  <2>2. (sure # {} => R.correct \in sure) /\ (sure = {} => R.correct \in bare)
    BY <1>4, <2>1
  <2> QED
    BY <2>2 DEF sure, bare, Preferred
<1>7. CASE \A pair \in key : pair[1] # n
  <2>1. sure = {} /\ bare = {}
    BY <1>4, <1>7
  <2>2. ASSUME m.own # 0 PROVE R.correct = m.own
    <3>1. c.correct = m.own /\ m.own \in Option
      BY <2>2, ParserAssumption DEF Same, Option
    <3>2. \A pair \in key : ~(pair[1] = c.number /\ pair[2] <= c.width)
      BY <1>1, <1>7
    <3> QED
      BY <1>2, <3>1, <3>2 DEF key, Folded
  <2> QED
    BY <2>1, <2>2 DEF sure, bare, Preferred
<1> QED
  BY <1>6, <1>7 DEF sure, bare

\* The end of the parse: all questions, sections, preambles and answers as printed.
LEMMA Parses ==
  ASSUME ReaderOK(doc, sheet, p), Parse
  PROVE  parsed' # None /\ ReadAsPrinted' /\ PreamblesAsPrinted' /\ AnswersByPrecedence'
<1> DEFINE r == EndBody(doc, p)
           Q == r.out
           C == r.contexts
           N == Len(sheet.qs)
<1>1. PICK b \in Back :
        /\ back' = b
        /\ p' = r /\ sheet' = sheet /\ here > 0
        /\ parsed' = Finalize(ApplyExplanations(ApplyAnswerKey(ApplyContexts(Q, C, r.last), ParseAnswerKey(b.key)), ParseExplanations(b.solutions)))
  BY DEF Parse
<1>2. sheet \in Sheet /\ p \in Parser /\ NumbersOK(sheet, p) /\ sheet.qs \in Seq(Printed) /\ N \in Nat /\ N > 0 /\ sheet.qs # <<>>
  <2>1. sheet \in Sheet /\ p \in Parser /\ NumbersOK(sheet, p) /\ sheet.qs \in Seq(Printed)
    BY SheetOf DEF ReaderOK, Typed
  <2>2. N > 0
    BY <1>1 DEF here
  <2> QED
    BY <2>1, <2>2
<1>3. Shut(sheet, p, r) /\ Covered(sheet, C, r.last)
  BY <1>2, BodyEnds
<1> HIDE DEF r
<1>4. r \in Parser /\ Q \in Seq(Question) /\ C \in Seq(Context) /\ r.sections \in Seq(Labels) /\ Len(Q) = N /\ \A j \in 1..N : Same(Q[j], sheet.qs[j])
  BY <1>3, ParserOf DEF Shut
<1>5. b.key \in KeyLines
  BY PrinterAssumption DEF KeyLines
<1> DEFINE R == parsed'
           key == ParseAnswerKey(b.key)
<1>6. DOMAIN R = 1..N /\ R = [j \in 1..N |-> R[j]] /\ \A j \in 1..N : Folded(R[j], Q[j], C, r.last, key)
  <2>1. \A j \in 1..Len(Q) : Q[j].text["stem"] # {}
    BY <1>4 DEF Same
  <2> DEFINE blocks == ParseExplanations(b.solutions)
  <2> HIDE DEF blocks, key
  <2>2. R = Finalize(ApplyExplanations(ApplyAnswerKey(ApplyContexts(Q, C, r.last), key), blocks))
    BY <1>1 DEF blocks, key
  <2>3. AllFolded(Finalize(ApplyExplanations(ApplyAnswerKey(ApplyContexts(Q, C, r.last), key), blocks)), Q, C, r.last, key)
    BY <1>4, <2>1, Folds
  <2> QED
    BY <1>4, <2>2, <2>3 DEF AllFolded
<1> HIDE DEF R
<1>7. parsed' # None
  <2>1. 1 \in DOMAIN R
    BY <1>2, <1>6
  <2> QED
    BY <2>1 DEF R, None
<1>8. \A j \in 1..N : /\ R[j].number = sheet.qs[j].number /\ R[j].section = sheet.qs[j].section /\ Q[j].number = sheet.qs[j].number
                      /\ Q[j].context = {} /\ sheet.qs[j] \in Printed
  <2> TAKE j \in 1..N
  <2>1. Kin(R[j], Q[j]) /\ Same(Q[j], sheet.qs[j])
    BY <1>4, <1>6 DEF Folded
  <2>2. sheet.qs[j] \in Printed
    BY <1>2, ElementOfSeq
  <2> QED
    BY <2>1, <2>2 DEF Kin, Same
\* The sections.
<1>9. SectionsAsPrinted'
  <2> DEFINE s == SummarizeSections(r.sections, R)
             listed == [j \in 1..N |-> R[j].section]
             printed == [j \in DOMAIN R |-> sheet.qs[j].section]
  <2>1. \A j \in 1..N : R[j].section \in Labels
    BY <1>8 DEF Printed
  <2>2. Summary(s, listed)
    BY <1>2, <1>4, <1>6, <2>1, Summarizes
  <2>3. printed = listed /\ DOMAIN printed = DOMAIN R
    BY <1>6, <1>8
  <2> HIDE DEF s, listed, printed
  <2>4. Summary(s, printed)
    BY <2>2, <2>3
  <2>5. /\ {s[a].label : a \in DOMAIN s} = Range(printed) /\ Cardinality(Range(printed)) = Len(s)
        /\ \A a \in DOMAIN s : s[a].count = Cardinality({j \in DOMAIN R : printed[j] = s[a].label})
    BY <2>3, <2>4 DEF Summary
  <2> QED
    BY <1>1, <2>5 DEF SectionsAsPrinted, R, s, printed
<1>10. ReadAsPrinted'
  <2>1. \A j \in DOMAIN Q : AsPrinted(Q[j], sheet.qs[j])
    <3> TAKE j \in DOMAIN Q
    <3>1. j \in 1..N /\ Q[j] \in Question
      BY <1>4
    <3> QED
      BY <1>4, <3>1, SamePrinted
  <2> QED
    BY <1>1, <1>9, <2>1 DEF ReadAsPrinted, AsPrinted
\* The preambles.
<1>11. PreamblesAsPrinted'
  <2>1. ASSUME NEW j \in 1..N
        PROVE  R[j].context = UNION {sheet.govs[g].text : g \in Governing(sheet, j)}
    <3> DEFINE G == Governing(sheet, j)
    <3>1. /\ \A g \in 1..Len(C) : Covers(C[g], r.last, Q[j].number) <=> g \in G
          /\ \A g \in G : g \in 1..Len(C) /\ C[g].text = sheet.govs[g].text
          /\ \A x, y \in G : x = y
      BY <1>3, <1>8 DEF Covered
    <3> HIDE DEF G
    <3>2. CASE G = {}
      <4>1. R[j].context = {}
        BY <1>6, <1>8, <3>1, <3>2 DEF Folded
      <4>2. UNION {sheet.govs[g].text : g \in G} = {}
        BY <3>2
      <4> QED
        BY <4>1, <4>2 DEF G
    <3>3. CASE G # {}
      <4>1. PICK g \in 1..Len(C) : g \in G /\ R[j].context = C[g].text
        BY <1>6, <3>1, <3>3 DEF Folded
      <4>2. G = {g} /\ C[g].text = sheet.govs[g].text
        BY <3>1, <4>1
      <4>3. UNION {sheet.govs[x].text : x \in G} = sheet.govs[g].text
        BY <4>2
      <4> QED
        BY <4>1, <4>2, <4>3 DEF G
    <3> QED
      BY <3>2, <3>3
  <2> QED
    BY <1>1, <1>6, <2>1 DEF PreamblesAsPrinted, Governing, R
\* The answers.
<1>12. AnswersByPrecedence'
  <2>1. ASSUME NEW j \in 1..N, Filled(R[j]) = OptTarget
        PROVE  Preferred(R[j], sheet.qs[j].own, b.key)
    <3>1. Q[j] \in Question /\ Same(Q[j], sheet.qs[j]) /\ Folded(R[j], Q[j], C, r.last, ParseAnswerKey(b.key))
      BY <1>4, <1>6, ElementOfSeq
    <3>2. sheet.qs[j].number \in Nat /\ sheet.qs[j].number >= 1 /\ sheet.qs[j].own \in 0..OptTarget
      <4>1. sheet.qs[j].number >= FirstQuestion /\ FirstQuestion \in Nat /\ FirstQuestion >= 1
        BY <1>2, ParserAssumption, PrinterAssumption DEF NumbersOK
      <4>2. sheet.qs[j].number \in Nat /\ sheet.qs[j].own \in 0..OptTarget
        BY <1>8 DEF Printed
      <4> QED
        BY <4>1, <4>2
    <3> QED
      BY <1>5, <2>1, <3>1, <3>2, Answered
  <2>2. \A n, form : KeyOptions(n, form)' = Named(b.key, n, form)
    BY <1>1 DEF KeyOptions, Named
  <2> QED
    BY <1>1, <1>6, <2>1, <2>2 DEF AnswersByPrecedence, R, Preferred
<1> QED
  BY <1>7, <1>10, <1>11, <1>12

-----------------------------------------------------------------------------
\* What holds in every state: while the paper is printed the parser holds what was
\* printed, and what is parsed is as printed.
Meant == (parsed = None => ReaderOK(doc, sheet, p)) /\ ReadAsPrinted /\ PreamblesAsPrinted /\ AnswersByPrecedence

\* While the parser reads, only the filed questions say something.
LEMMA Unparsed ==
  ASSUME parsed = None, ReaderOK(doc, sheet, p)
  PROVE  Meant
<1>1. SectionsAsPrinted /\ PreamblesAsPrinted /\ AnswersByPrecedence
  BY DEF SectionsAsPrinted, PreamblesAsPrinted, AnswersByPrecedence
<1>2. \A j \in DOMAIN p.out : AsPrinted(p.out[j], sheet.qs[j])
  BY FiledPrinted
<1> QED
  BY <1>1, <1>2 DEF Meant, ReadAsPrinted, AsPrinted

\* It holds of the empty document.
LEMMA InitMeant == ASSUME Init PROVE Meant
<1>1. parsed = None /\ doc = <<>> /\ p = NewParser
      /\ sheet = [qs |-> <<>>, phase |-> "front", given |-> 0, packed |-> FALSE, govs |-> <<>>, label |-> "none"]
  BY DEF Init
<1>2. doc \in Seq(Lines) /\ sheet \in Sheet /\ p \in Parser
  <2>1. doc \in Seq(Lines) /\ sheet \in Sheet
    BY <1>1, ParserAssumption DEF Sheet, Phases, Labels
  <2>2. p \in Parser
    BY <1>1, ParserAssumption DEF Parser, NewParser, Dests, Parts, Labels, Texts
  <2> QED
    BY <2>1, <2>2
<1>3. Aside(sheet) /\ sheet.qs = <<>> /\ Len(sheet.qs) = 0 /\ sheet.govs = <<>> /\ Len(sheet.govs) = 0 /\ sheet.phase = "front" /\ sheet.label = "none"
  BY <1>1 DEF Aside
<1>4. /\ p.out = <<>> /\ Len(p.out) = 0 /\ p.cur = None /\ p.at = 0 /\ p.dest = "stem" /\ p.buf = {} /\ p.last = 0 /\ p.section = "none"
      /\ p.pending = None /\ p.contexts = <<>> /\ Len(p.contexts) = 0
  BY <1>1 DEF NewParser
<1>5. ReaderOK(doc, sheet, p)
  <2>1. FiledOK(sheet, p) /\ NumbersOK(sheet, p) /\ OpenOK(sheet, p)
    BY <1>3, <1>4 DEF FiledOK, NumbersOK, OpenOK, NumberOf
  <2>2. PhaseOK(sheet, p)
    BY <1>3, <1>4 DEF PhaseOK
  <2>3. LengthsOK(doc, sheet, p)
    BY <1>3, <1>4 DEF LengthsOK
  <2>4. ContextsOK(sheet, p)
    BY <1>3, <1>4 DEF ContextsOK
  <2> QED
    BY <1>2, <2>1, <2>2, <2>3, <2>4 DEF ReaderOK, Typed
<1> QED
  BY <1>1, <1>5, Unparsed

\* Every step keeps it.
LEMMA StepMeant == ASSUME Meant, [Next]_vars PROVE Meant'
<1>1. CASE Parse
  <2>1. ReaderOK(doc, sheet, p)
    BY <1>1 DEF Parse, Meant
  <2>2. parsed' # None /\ ReadAsPrinted' /\ PreamblesAsPrinted' /\ AnswersByPrecedence'
    BY <1>1, <2>1, Parses
  <2> QED
    BY <2>2 DEF Meant
<1>2. ASSUME NEW choice \in Printable, Read(choice[1], choice[2]) PROVE Meant'
  <2>1. parsed = None /\ parsed' = None
    BY <1>2 DEF Read, BlankLine, PreambleLine, MarkerLine, RowLine, OptionLine, AnswerLine, SolutionLine, HeadingLine, TextLine, Reading
  <2>2. ReaderOK(doc', sheet', p')
    BY <1>2, <2>1, LineRead DEF Meant
  <2>3. SectionsAsPrinted' /\ PreamblesAsPrinted' /\ AnswersByPrecedence'
    BY <2>1 DEF SectionsAsPrinted, PreamblesAsPrinted, AnswersByPrecedence
  <2>4. \A j \in DOMAIN p'.out : AsPrinted(p'.out[j], sheet'.qs[j])
    BY <2>2, FiledPrinted
  <2>5. ReadAsPrinted'
    BY <2>3, <2>4 DEF ReadAsPrinted, AsPrinted
  <2> QED
    BY <2>1, <2>2, <2>3, <2>5 DEF Meant
<1>3. CASE UNCHANGED vars
  <2>1. doc' = doc /\ sheet' = sheet /\ p' = p /\ parsed' = parsed /\ back' = back
    BY <1>3 DEF vars
  <2>2. ReadAsPrinted' /\ PreamblesAsPrinted'
    <3>1. SectionsAsPrinted'
      BY <2>1 DEF Meant, ReadAsPrinted, SectionsAsPrinted
    <3>2. PreamblesAsPrinted'
      BY <2>1 DEF Meant, PreamblesAsPrinted
    <3>3. \A j \in DOMAIN p.out : AsPrinted(p.out[j], sheet.qs[j])
      BY DEF Meant, ReadAsPrinted, AsPrinted
    <3>4. \A j \in DOMAIN p'.out : AsPrinted(p'.out[j], sheet'.qs[j])
      BY <2>1, <3>3
    <3> QED
      BY <3>1, <3>2, <3>4 DEF ReadAsPrinted, AsPrinted
  <2>3. \A n, form : KeyOptions(n, form)' = KeyOptions(n, form)
    BY <2>1 DEF KeyOptions
  <2>4. AnswersByPrecedence'
    BY <2>1, <2>3 DEF Meant, AnswersByPrecedence
  <2> QED
    BY <2>1, <2>2, <2>4 DEF Meant
<1>4. Next => Parse \/ \E choice \in Printable : Read(choice[1], choice[2])
  BY DEF Next, Read
<1> QED
  BY <1>1, <1>2, <1>3, <1>4

\* In every state what the parser has filed, and when it is done the sections, are
\* as printed: for every document the printer can print, at any length.
THEOREM ReadAsPrintedHolds == Spec => []ReadAsPrinted
<1>1. Spec => []Meant
  BY InitMeant, StepMeant, PTL DEF Spec
<1>2. Meant => ReadAsPrinted
  BY DEF Meant
<1> QED
  BY <1>1, <1>2, PTL
\* Every preamble reaches the questions printed under it.
THEOREM PreamblesReach == Spec => []PreamblesAsPrinted
<1>1. Spec => []Meant
  BY InitMeant, StepMeant, PTL DEF Spec
<1>2. Meant => PreamblesAsPrinted
  BY DEF Meant
<1> QED
  BY <1>1, <1>2, PTL
\* Every answer comes from the surest source that has one.
THEOREM AnswersPreferred == Spec => []AnswersByPrecedence
<1>1. Spec => []Meant
  BY InitMeant, StepMeant, PTL DEF Spec
<1>2. Meant => AnswersByPrecedence
  BY DEF Meant
<1> QED
  BY <1>1, <1>2, PTL
=============================================================================
