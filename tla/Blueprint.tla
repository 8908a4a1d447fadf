----------------------------- MODULE Blueprint -----------------------------
(***************************************************************************)
(* From an exam's past papers to mock papers of it: the papers are read    *)
(* one by one and a pattern is inferred (PatternDraft), or one is entered  *)
(* by hand; then papers are asked for, checked for supply, planned and     *)
(* filled section by section (PaperPlan).  One analysis and one build run  *)
(* at a time and the bank stands still meanwhile: what overlaps is the     *)
(* subject of PatternVersions and PaperGate.                               *)
(***************************************************************************)
EXTENDS PatternDraft, PaperPlan

CONSTANTS Paper,      \* the past papers a document can parse into
          Heading,    \* the labels and subjects sections go by
          ByHand,     \* the section lists a user may enter
          Bank,       \* the question banks
          Request,    \* the requests for a paper
          Multiples,  \* what the analysis may be asked to round counts to
          MaxRead, MaxPapers  \* bounds on papers read and papers built

\* A mix is in shares of a whole (models.DifficultyMix); a pattern's section may
\* have none of its own, and a request may leave each section its own.
Shares == [easy : Nat, medium : Nat, hard : Nat]
Section == [subject : Heading, count : Int, mix : Shares \union {<<>>}]
Asked == [type : {"easy", "tough", "speed", "mixed"}, total : Int, mix : Shares \union {<<>>}, borrowed : BOOLEAN, onlyApproved : BOOLEAN,
          requireAnswer : BOOLEAN, unvetted : BOOLEAN, excluded : SUBSET UNION Bank]

\* A section as the parser finds it (extract.ParsedSection).
Printed == [label : Heading, subject : Heading, count : Nat]

ASSUME HeadingAssumption == {"", "none", "Section"} \subseteq Heading
ASSUME PaperAssumption == \A p \in Paper : p.questions \in Nat /\ p.sections \in Seq(Printed)
ASSUME MultiplesAssumption == Multiples \subseteq Int
ASSUME PatternAssumption == ByHand \subseteq Seq(Section)
ASSUME RequestAssumption == Request \subseteq Asked
ASSUME BankAssumption ==
  \A b \in Bank : IsFiniteSet(b) /\ \A q \in b : q.difficulty \in Difficulty

VARIABLES stage,     \* "read", "draft", "ready", "build"
          observed,  \* papers read for the analysis
          multiple,  \* what the analysis rounds to
          draft,     \* what it inferred
          sections,  \* the active pattern's sections
          bank, req, \* the bank and the request at work
          report,    \* what Inspect said of the request, and the sections it did not count
          plans,     \* the sections' targets
          filled,    \* per section so far: the free candidates and those chosen
          papers     \* the question sets of papers built before
vars == <<stage, observed, multiple, draft, sections, bank, req, report, plans, filled, papers>>
reading == <<observed, multiple, draft>>
building == <<bank, req, report, plans, filled>>

Nothing == <<>>
Init == /\ stage = "read" /\ observed = <<>> /\ multiple \in Multiples /\ draft = Nothing
        /\ sections = <<>> /\ bank = {} /\ req = Nothing /\ report = Nothing /\ plans = <<>>
        /\ filled = <<>> /\ papers = <<>>

\* runPatternAnalysis: a document is converted and parsed; one that cannot be is
\* passed over.
ReadDocument == /\ stage = "read" /\ Len(observed) < MaxRead
                /\ \E p \in Paper : observed' = Append(observed, p)
                /\ UNCHANGED <<stage, multiple, draft, sections, building, papers>>
InferPattern == /\ stage = "read" /\ observed # <<>>
                /\ draft' = Analyze(observed, multiple)
                /\ stage' = "draft"
                /\ UNCHANGED <<observed, multiple, sections, building, papers>>
\* The draft is saved and activated; its sections get the balanced mix.
SaveDraft == /\ stage = "draft"
             /\ sections' = [i \in DOMAIN draft.sections |->
                  [subject |-> draft.sections[i].subject, count |-> draft.sections[i].count, mix |-> DefaultMix]]
             /\ stage' = "ready" /\ observed' = <<>> /\ draft' = Nothing
             /\ multiple' = 0
             /\ UNCHANGED <<building, papers>>
EnterByHand == /\ stage = "read" /\ observed = <<>>
               /\ \E h \in ByHand : sections' = h
               /\ stage' = "ready" /\ multiple' = 0
               /\ UNCHANGED <<observed, draft, building, papers>>

\* GeneratePaper: refused when nothing at all is available, else built.  A
\* series excludes the questions of the papers before it, beside those the request names.
Questions(fills) == UNION {fills[i].chosen : i \in DOMAIN fills}
GeneratePaper ==
  /\ stage = "ready" /\ Len(papers) < MaxPapers
  /\ \E b \in IF papers = <<>> THEN Bank ELSE {bank}, r \in Request, series \in BOOLEAN :
       LET earlier == UNION {papers[i] : i \in DOMAIN papers}
           asked == [r EXCEPT !.excluded = IF series THEN @ \union earlier ELSE @]
       IN /\ bank' = b /\ req' = asked
          /\ \E uncounted \in SUBSET (IF CountsNeeded(asked) THEN DOMAIN Usable(sections) ELSE {}) :
               report' = Inspect(b, asked, sections, uncounted)
          /\ report'.available > 0
          /\ plans' = ScaleSections(asked, sections)
  /\ stage' = "build" /\ filled' = <<>>
  /\ UNCHANGED <<reading, sections, papers>>

Used == req.excluded \union Questions(filled)
\* Mutant: only earlier papers are left out, not earlier sections.
FillAgain == LET plan == plans[Len(filled) + 1]
                 free == LoadCandidates(bank, req, plan.subject) \ req.excluded IN
  /\ stage = "build" /\ Len(filled) < Len(plans)
  /\ \E S \in SelectForSection(free, plan) :
       filled' = Append(filled, [free |-> free, chosen |-> S])
  /\ UNCHANGED <<stage, reading, sections, bank, req, report, plans, papers>>
FillSection == LET plan == plans[Len(filled) + 1]
                   free == LoadCandidates(bank, req, plan.subject) \ Used IN
  /\ stage = "build" /\ Len(filled) < Len(plans)
  /\ \E S \in SelectForSection(free, plan) :
       filled' = Append(filled, [free |-> free, chosen |-> S])
  /\ UNCHANGED <<stage, reading, sections, bank, req, report, plans, papers>>

\* A paper without a question is an error; nothing is stored.
Store == /\ stage = "build" /\ Len(filled) = Len(plans)
         /\ papers' = IF Questions(filled) = {} THEN papers ELSE Append(papers, Questions(filled))
         /\ stage' = "ready" /\ req' = Nothing /\ report' = Nothing /\ plans' = <<>> /\ filled' = <<>>
         /\ UNCHANGED <<reading, sections, bank>>

Next == ReadDocument \/ InferPattern \/ SaveDraft \/ EnterByHand \/ GeneratePaper \/ FillSection \/ Store
Spec == Init /\ [][Next]_vars

(***************************************************************************)
(* Properties of the inference.                                            *)
(***************************************************************************)
Parsed == WithQuestions(observed)
CountsOf(d, key) == {s.count : s \in {t \in Range(Whole(d)) : KeyOf(t) = key}}
Inferred(d) == {[key |-> IF s.subject = "none" THEN <<"label", s.name>> ELSE <<"subject", s.subject>>, count |-> s.count] : s \in Range(d.sections)}
Named(key) == IF key = <<"label", "">> THEN <<"label", "Section">> ELSE key
OncePerPaper == \A d \in Range(Parsed) : IsInjective([i \in DOMAIN Whole(d) |-> KeyOf(Whole(d)[i])])

\* Papers that all have the same sections give exactly these sections, in order.
AgreedPapers ==
  multiple <= 1 /\ OncePerPaper /\ (\A d, e \in Range(Parsed) : Whole(d) = Whole(e)) /\ Parsed # <<>> =>
    LET agreed == Among(Whole(Parsed[1]), {s \in Range(Whole(Parsed[1])) : s.count > 0}) IN
      /\ Len(draft.sections) = Len(agreed)
      /\ \A i \in DOMAIN agreed : /\ draft.sections[i].subject = agreed[i].subject
                                  /\ draft.sections[i].count = agreed[i].count
                                  /\ draft.sections[i].seenIn = Len(Parsed)
\* "One badly extracted paper cannot drag a section's count away from what the
\* others agree on", nor a misprint the duration.
OneMisprint ==
  Len(Parsed) >= 3 /\ multiple <= 1 /\ OncePerPaper => \A odd \in DOMAIN Parsed :
    LET others == {Parsed[i] : i \in DOMAIN Parsed \ {odd}} IN
      /\ \A key \in {KeyOf(s) : s \in UNION {Range(Whole(d)) : d \in others}} :
           LET counts == UNION {CountsOf(d, key) : d \in others} IN
             Cardinality(counts) = 1 /\ 0 \notin counts /\ (\A d \in others : CountsOf(d, key) # {})
               => \E s \in Inferred(draft) : s.key = Named(key) /\ s.count \in counts
      /\ \A v \in 1..600 : (\A d \in others : DetectDuration(d.header) = v) => draft.duration = v
\* The order in which documents are listed changes no count and no rule.
Reordered == {Analyze([i \in DOMAIN observed |-> observed[p[i]]], multiple) :
                p \in {f \in [DOMAIN observed -> DOMAIN observed] : IsInjective(f)}}
CountsIn(d) == {[subject |-> s.subject, count |-> s.count] : s \in Range(d.sections)}
AnyOrder == \A other \in Reordered :
  /\ CountsIn(other) = CountsIn(draft)
  /\ other.total = draft.total /\ other.duration = draft.duration
  /\ other.negative = draft.negative /\ other.totalMarks = draft.totalMarks

\* What the analysis infers is what the papers agree on, whatever one of them
\* says and whatever order they come in.
DraftFollowsPapers == stage = "draft" => AgreedPapers /\ OneMisprint /\ AnyOrder

(***************************************************************************)
(* Properties of the papers.                                               *)
(***************************************************************************)
\* No question is used twice in a paper, or again in a series, or against the
\* request, and a section is short only when every candidate left is in it.
PaperSound ==
  stage = "build" =>
    /\ \A i, j \in DOMAIN filled : i # j => filled[i].chosen \intersect filled[j].chosen = {}
    /\ Questions(filled) \intersect req.excluded = {}
    /\ \A q \in Questions(filled) : q.status # "rejected" /\ (q.passed \/ req.unvetted)
                                    /\ (q.answered \/ ~req.requireAnswer)
    /\ \A i \in DOMAIN filled :
         LET left == LoadCandidates(bank, req, plans[i].subject) \ Used IN
           \/ Cardinality(filled[i].chosen) = plans[i].want
           \/ Cardinality(filled[i].chosen) < plans[i].want /\ left = {}

\* A section has as many of each difficulty as its mix calls for, or all there are.
MixHonoured ==
  stage = "build" => \A i \in DOMAIN filled, d \in Difficulty :
    Cardinality(Buckets(filled[i].chosen)[d]) >= Min({Targets(plans[i])[d], Cardinality(Buckets(filled[i].free)[d])})

\* The sections' targets add up to the size asked for.  Only where every section
\* gets its least and nothing is left for the last one is it more, and then by fewer
\* questions than there are sections.
Planned == Total([i \in DOMAIN plans |-> plans[i].want])
PlanCoversRequest ==
  stage = "build" /\ req.total > 0 =>
    /\ Planned >= req.total /\ Planned < req.total + Len(plans)
    /\ Planned > req.total => plans[Len(plans)].want = 0
    /\ \A i \in 1..(Len(plans) - 1) : plans[i].want >= 1

\* A section that can be filled is reported sufficient, whatever the narrowing
\* filters leave of the bank: the supply is counted more generously than the build
\* selects, unless one of its counts failed, which reads as nothing there.
SupplyNeverUnderstated ==
  stage = "build" => \A i \in DOMAIN filled :
    Cardinality(filled[i].chosen) = plans[i].want => i \in report.sufficient \/ i \in report.uncounted
=============================================================================
