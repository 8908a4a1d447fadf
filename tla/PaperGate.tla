------------------------------ MODULE PaperGate ------------------------------
(***************************************************************************)
(* One paper and the questions it is built from: it is assembled from the  *)
(* questions that passed, checked as a whole, published, withdrawn and     *)
(* deleted, while the questions keep changing (pipeline/paper.go,          *)
(* pipeline/paperqa.go, blueprint/build.go, quality/paper.go,              *)
(* handler/paper.go, and DeleteQuestion of handler/question.go).           *)
(*                                                                         *)
(* A check reads the paper, then its questions, and writes its verdict     *)
(* later.  Publishing reads the verdict and writes the status later.       *)
(***************************************************************************)
EXTENDS QuestionGate

CONSTANTS Check,     \* checks of the paper: the build's own, jobs, requests
          NoCheck    \* a check that is not at work

PaperStatus == {"none", "draft", "published", "deleted"}
CheckStep == [at : {"loaded"}, status : {"draft", "published"}]
               \cup [at : {"judged"}, status : {"draft", "published"}, verdict : Verdict]

ASSUME PaperAssumption == NoCheck \notin CheckStep

VARIABLES
  selection,   \* the questions a build has chosen and not yet saved
  built,       \* the questions the paper was saved with
  items,       \* its items that are not deleted
  paperStatus, \* test_papers.status
  paperQuality,\* test_papers.quality_status
  check,       \* [Check -> where it is, and what it read]
  publishing,  \* a request to publish has read a pass and not yet written
  deleting,    \* [Question -> how far its deletion is]
  moved,       \* [Check -> questions changed since the check read them]
  drift,       \* the same, since the verdict on record read them
  overtaken,   \* the last check failed the paper when a request to publish it had
               \* read its pass and not yet written
  withdrawn    \* the last request about the status made the paper a draft, and no
               \* check at work had read it as published

paperRow  == <<built, paperStatus, paperQuality>>
paperVars == <<selection, paperRow, items, check, publishing, deleting, withdrawn>>
staleness == <<moved, drift, overtaken>>
vars == <<questionVars, paperVars, staleness>>

-----------------------------------------------------------------------------
\* Auxiliary predicates

Saved == paperStatus \in {"draft", "published"}

\* loadCandidates: passed, not rejected (or approved only).
Candidates(onlyApproved) ==
  {q \in alive : /\ quality[q] = "pass"
                 /\ IF onlyApproved THEN status[q] = "approved" ELSE status[q] # "rejected"}

\* ValidatePaper finds a critical defect in an item: the question is gone, has
\* not passed, or its text is corrupted whatever its verdict.
\* Mutant: the verdict is trusted.
DefectiveByVerdict(q) == q \notin alive \/ quality[q] # "pass"
Defective(q) == q \notin alive \/ quality[q] # "pass" \/ text[q] = "corrupt"

\* A missing item shows in the marks.  What else the rules and the model find
\* in the paper is not modelled.
PaperVerdicts ==
  IF items # built \/ \E q \in items : Defective(q) THEN {"failed"} ELSE setup.conclusions

Judged(c) == check[c] # NoCheck /\ check[c].at = "judged"

CheckIdle == \A c \in Check : check[c] = NoCheck

\* The questions this step changes.
Changed == {q \in Question : \/ text'[q] # text[q]
                             \/ quality'[q] # quality[q]
                             \/ (q \in alive') # (q \in alive)
                             \/ (q \in items') # (q \in items)}

\* Kept only as long as there is a verdict it can make stale.
NoteChanges ==
  /\ moved' = [c \in Check |-> IF Judged(c) THEN moved[c] \cup Changed ELSE {}]
  /\ drift' = IF paperQuality = "pass" THEN drift \cup Changed ELSE {}
  /\ UNCHANGED overtaken

-----------------------------------------------------------------------------
Init ==
  /\ QuestionInit
  /\ selection = {}
  /\ built = {}
  /\ items = {}
  /\ paperStatus = "none"
  /\ paperQuality = "unchecked"
  /\ check = [c \in Check |-> NoCheck]
  /\ publishing = FALSE
  /\ deleting = [q \in Question |-> "no"]
  /\ moved = [c \in Check |-> {}]
  /\ drift = {}
  /\ overtaken = FALSE
  /\ withdrawn = FALSE

\* Anything that happens to the questions alone.
QuestionStep == QuestionNext /\ UNCHANGED paperVars /\ NoteChanges

-----------------------------------------------------------------------------
\* Building

\* blueprint.Build reads the candidates outside any transaction ...
BuildSelect ==
  /\ "paper" \in setup.requests
  /\ paperStatus = "none"
  /\ selection = {}
  /\ \E onlyApproved \in BOOLEAN :
       \E chosen \in SUBSET Candidates(onlyApproved) : selection' = chosen
  /\ selection' # {}
  /\ UNCHANGED <<questionVars, paperRow, items, check, publishing, deleting, withdrawn, staleness>>

\* ... and runPaperBuild saves the paper and its items in one transaction.
BuildSave ==
  /\ selection # {}
  /\ built' = selection
  /\ items' = selection
  /\ paperStatus' = "draft"
  /\ selection' = {}
  /\ UNCHANGED <<questionVars, paperQuality, check, publishing, deleting, withdrawn>>
  /\ NoteChanges

-----------------------------------------------------------------------------
\* Checking

CheckLoad(c) ==
  /\ Saved
  /\ check[c] = NoCheck
  /\ check' = [check EXCEPT ![c] = [at |-> "loaded", status |-> paperStatus]]
  /\ UNCHANGED <<questionVars, selection, paperRow, items, publishing, deleting, withdrawn, staleness>>

CheckItems(c) ==
  /\ check[c] # NoCheck
  /\ check[c].at = "loaded"
  /\ \E verdict \in PaperVerdicts :
       check' = [check EXCEPT ![c] =
         [at |-> "judged", status |-> check[c].status, verdict |-> verdict]]
  /\ moved' = [moved EXCEPT ![c] = {}]
  /\ UNCHANGED <<questionVars, selection, paperRow, items, publishing, deleting, withdrawn, drift, overtaken>>

\* The status a check writes: the one it read, unless the paper no longer passes.
\* Mutant: the status is left alone.
StatusKept(verdict, was) == was
StatusAfter(verdict, was) == IF verdict # "pass" THEN "draft" ELSE was

\* The verdict and the status go into one update.
CheckWrite(c) ==
  /\ Judged(c)
  /\ IF Saved
     THEN /\ paperQuality' = check[c].verdict
          /\ paperStatus' = StatusAfter(check[c].verdict, check[c].status)
          /\ drift' = IF check[c].verdict = "pass" THEN moved[c] ELSE {}
          /\ overtaken' = (publishing /\ check[c].verdict # "pass")
     ELSE UNCHANGED <<paperQuality, paperStatus, drift, overtaken>>
  /\ check' = [check EXCEPT ![c] = NoCheck]
  /\ moved' = [moved EXCEPT ![c] = {}]
  /\ UNCHANGED <<questionVars, selection, built, items, publishing, deleting, withdrawn>>

\* A read fails, the job dies or the write fails: no verdict is recorded.
CheckFails(c) ==
  /\ check[c] # NoCheck
  /\ check' = [check EXCEPT ![c] = NoCheck]
  /\ moved' = [moved EXCEPT ![c] = {}]
  /\ UNCHANGED <<questionVars, selection, paperRow, items, publishing, deleting, withdrawn, drift, overtaken>>

-----------------------------------------------------------------------------
\* Requests about the paper

\* UpdatePaper to published: refused unless the paper it read has passed.
PublishRead ==
  /\ Saved
  /\ ~publishing
  /\ paperQuality = "pass"
  /\ publishing' = TRUE
  /\ UNCHANGED <<questionVars, selection, paperRow, items, check, deleting, withdrawn, staleness>>

PublishWrite ==
  /\ publishing
  /\ publishing' = FALSE
  /\ IF Saved THEN paperStatus' = "published" /\ withdrawn' = FALSE
              ELSE UNCHANGED <<paperStatus, withdrawn>>
  /\ UNCHANGED <<questionVars, selection, built, paperQuality, items, check, deleting, staleness>>

\* UpdatePaper to draft.
Withdraw ==
  /\ Saved
  /\ paperStatus' = "draft"
  /\ withdrawn' = (\A c \in Check : check[c] # NoCheck => check[c].status # "published")
  /\ UNCHANGED <<questionVars, selection, built, paperQuality, items, check, publishing, deleting, staleness>>

\* DeletePaper: the paper and its items.
DeletePaper ==
  /\ Saved
  /\ paperStatus' = "deleted"
  /\ items' = {}
  /\ UNCHANGED <<questionVars, selection, built, paperQuality, check, publishing, deleting, withdrawn>>
  /\ NoteChanges

\* DeleteQuestion counts the items that use the question and refuses to delete
\* a used one unless forced; a count that fails is a count of none ...
DeleteCount(q) ==
  /\ "delete" \in setup.requests
  /\ q \in alive
  /\ deleting[q] = "no"
  /\ \E force, counted \in BOOLEAN :
       /\ counted /\ q \in items => force
       /\ deleting' = [deleting EXCEPT ![q] = IF counted /\ q \in items THEN "used" ELSE "unused"]
  /\ UNCHANGED <<questionVars, selection, paperRow, items, check, publishing, withdrawn, staleness>>

\* ... and deletes it, with its items only if it counted some.
DeleteCommit(q) ==
  /\ deleting[q] # "no"
  /\ deleting' = [deleting EXCEPT ![q] = "no"]
  /\ alive' = alive \ {q}
  /\ items' = IF deleting[q] = "used" THEN items \ {q} ELSE items
  /\ UNCHANGED <<text, gate, view, people, setup>>
  /\ UNCHANGED <<selection, paperRow, check, publishing, withdrawn>>
  /\ NoteChanges

-----------------------------------------------------------------------------
Next ==
  \/ QuestionStep
  \/ BuildSelect
  \/ BuildSave
  \/ \E c \in Check : CheckLoad(c) \/ CheckItems(c) \/ CheckWrite(c) \/ CheckFails(c)
  \/ PublishRead
  \/ PublishWrite
  \/ Withdraw
  \/ DeletePaper
  \/ \E q \in Question : DeleteCount(q) \/ DeleteCommit(q)

Spec == Init /\ [][Next]_vars

-----------------------------------------------------------------------------
\* Properties

TypeOK ==
  /\ QuestionTypeOK
  /\ selection \in SUBSET Question
  /\ built \in SUBSET Question
  /\ items \in SUBSET built
  /\ paperStatus \in PaperStatus
  /\ paperQuality \in Quality
  /\ check \in [Check -> CheckStep \cup {NoCheck}]
  /\ publishing \in BOOLEAN
  /\ deleting \in [Question -> {"no", "used", "unused"}]
  /\ moved \in [Check -> SUBSET Question]
  /\ drift \in SUBSET Question
  /\ overtaken \in BOOLEAN
  /\ withdrawn \in BOOLEAN

\* What a pass of the paper is worth: every question it was built with is in
\* it, exists, has passed and is not corrupted, except those changed after the
\* check read them.  This holds however builds, deletions, edits, audits and
\* several checks of the paper overlap; a person's acceptance does not get a
\* corrupted text past the paper's own check.
PassMeansChecked ==
  Saved /\ paperQuality = "pass" =>
    \A q \in built \ drift :
      q \in items /\ q \in alive /\ quality[q] = "pass" /\ text[q] # "corrupt"

\* paperqa.go: "A paper that no longer passes cannot stay published."  However
\* checks, publications and withdrawals overlap, a published paper has passed its
\* last check, unless that check wrote its verdict between the two steps of the
\* request that published the paper.
PublishedPassedUnlessOvertaken ==
  paperStatus = "published" => paperQuality = "pass" \/ overtaken

\* A paper someone made a draft is published again only by someone: no check
\* brings it back, but for one that had read it as published before.
WithdrawnStays == withdrawn => paperStatus # "published"
=============================================================================
