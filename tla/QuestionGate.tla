----------------------------- MODULE QuestionGate -----------------------------
(***************************************************************************)
(* The gate every question passes: the verdict of the rules, the audits    *)
(* that renew it, and the people who edit, accept, reject and approve      *)
(* (pipeline/audit.go, handler/review.go, handler/question.go).            *)
(*                                                                         *)
(* A question's text is known by what the rules say of it; of its list of  *)
(* issues only the verdict is kept.  An audit reads its batch once and     *)
(* writes each question later; so does a recheck.  Every other request is  *)
(* a single update that does not depend on what was read.                  *)
(***************************************************************************)
EXTENDS FiniteSets

CONSTANTS
  Question,
  Audit,      \* question_audit jobs
  Recheck,    \* requests to ResolveIssue with the decision "recheck"
  Unread,     \* nothing read of a question
  Setups      \* the warehouses and clients looked at

Text    == {"sound", "doubtful", "broken", "corrupt"}
Quality == {"unchecked", "pass", "review", "failed"}
Verdict == Quality \ {"unchecked"}
Status  == {"pending", "approved", "rejected"}
Actor   == Audit \cup Recheck

\* What an audit or a recheck remembers of a question it has read.
Snapshot == [text : Text, status : Status, modelChecked : BOOLEAN]

\* What people ask for; a warehouse is looked at with some of it at a time.
Request == {"audit", "recheck", "resolve", "status", "edit", "delete", "paper"}

Setup == [
  requests    : SUBSET Request,
  stock       : SUBSET Question,   \* the questions of the warehouse
  texts       : SUBSET Text,
  model       : BOOLEAN,   \* llm.Available() and cfg.LLM.AuditQuestions
  autoApprove : BOOLEAN,   \* cfg.Review.AutoApproveExtracted
  conclusions : SUBSET Verdict ]  \* of a check of a paper without defective items

ASSUME GateAssumption ==
  /\ Unread \notin Snapshot
  /\ Setups \subseteq Setup
  /\ \A s \in Setups : s.texts # {}

VARIABLES
  text,          \* [Question -> Text], options and answer included
  quality,       \* questions.quality_status
  status,        \* questions.status
  modelChecked,  \* questions.model_checked
  alive,         \* the questions not deleted
  view,          \* [Actor -> [Question -> Snapshot or Unread]]
  vouched,       \* questions a person approved since the last automatic verdict
  rejected,      \* questions whose last word from a person was a rejection, made
                 \* when no audit or recheck at work had read them as anything else
  setup          \* one of Setups, and always the same

gate     == <<quality, status, modelChecked>>
people   == <<vouched, rejected>>
questionVars == <<text, gate, alive, view, people, setup>>

-----------------------------------------------------------------------------
\* Auxiliary predicates

\* ValidateQuestion and Worst: a critical finding fails, a major one holds back.
Rules(t) == CASE t = "sound"    -> "pass"
              [] t = "doubtful" -> "review"
              [] OTHER          -> "failed"

\* Findings beyond the rules' (duplicates, the model's) only make it worse.
AtLeast(verdict) == CASE verdict = "pass"   -> Verdict
                      [] verdict = "review" -> {"review", "failed"}
                      [] OTHER              -> {"failed"}

\* Mutants: an approval survives a bad verdict; whatever passes is approved.
FollowUp(verdict, was, approve) ==
  IF verdict = "pass" /\ approve /\ was = "pending" THEN "approved" ELSE was
FollowVerdict(verdict, was, approve) ==
  IF verdict = "pass"
  THEN IF approve THEN "approved" ELSE was
  ELSE IF was = "approved" THEN "pending" ELSE was

\* Approval follows the gate, and a rejection is not the gate's to undo.
Follow(verdict, was, approve) ==
  IF verdict = "pass"
  THEN IF approve /\ was = "pending" THEN "approved" ELSE was
  ELSE IF was = "approved" THEN "pending" ELSE was

Idle(a) == \A q \in Question : view[a][q] = Unread

MayAct(request) == request \in setup.requests

Read(a, qs) ==
  view' = [view EXCEPT ![a] = [q \in Question |->
    IF q \in qs THEN [text |-> text[q], status |-> status[q],
                      modelChecked |-> modelChecked[q]]
    ELSE @[q]]]

Drop(a, qs) ==
  view' = [view EXCEPT ![a] = [q \in Question |-> IF q \in qs THEN Unread ELSE @[q]]]

\* The questions that whoever is at work has read, if at all, as rejected.
Undisputed(qs) ==
  {q \in qs : \A a \in Actor : view[a][q] # Unread => view[a][q].status = "rejected"}

\* A person's word on the status of some questions.
Say(qs, s) ==
  /\ vouched' = IF s = "approved" THEN vouched \cup qs ELSE vouched \ qs
  /\ rejected' = IF s = "rejected" THEN rejected \cup Undisputed(qs) ELSE rejected \ qs
  /\ status' = [q \in Question |-> IF q \in qs THEN s ELSE status[q]]

\* An automatic verdict on a question.
Judge(q, verdict, s, checked) ==
  /\ quality' = [quality EXCEPT ![q] = verdict]
  /\ status' = [status EXCEPT ![q] = s]
  /\ modelChecked' = [modelChecked EXCEPT ![q] = checked]
  /\ vouched' = vouched \ {q}

-----------------------------------------------------------------------------
\* Questions read from a document have the rules' verdict; those written by
\* hand (CreateQuestion) are unchecked and approved.
QuestionInit ==
  /\ setup \in Setups
  /\ alive = setup.stock
  /\ text \in [Question -> setup.texts]
  /\ \A p, q \in Question \ alive : text[p] = text[q]
  /\ \E byHand \in SUBSET alive :
       /\ quality = [q \in Question |-> IF q \in byHand THEN "unchecked" ELSE Rules(text[q])]
       /\ status = [q \in Question |->
            IF q \in byHand THEN "approved" ELSE Follow(Rules(text[q]), "pending", setup.autoApprove)]
       /\ vouched = byHand
  /\ modelChecked = [q \in Question |-> FALSE]
  /\ view = [a \in Actor |-> [q \in Question |-> Unread]]
  /\ rejected = {}

-----------------------------------------------------------------------------
\* Audits

\* runQuestionAudit reads its batch: those in scope that have not passed or
\* that no model has seen, or all of them.
AuditStart(j) ==
  /\ MayAct("audit")
  /\ Idle(j)
  /\ \E scope \in SUBSET alive, includePassing \in BOOLEAN :
       LET batch == {q \in scope : includePassing \/ quality[q] # "pass" \/ ~modelChecked[q]}
       IN  batch # {} /\ Read(j, batch)
  /\ UNCHANGED <<text, gate, alive, people, setup>>

\* auditOne judges what the batch holds of the question and writes the verdict
\* and the status; a question deleted meanwhile is not found.
AuditOne(j, q) ==
  LET seen == view[j][q] IN
  /\ seen # Unread
  /\ q \in alive
  /\ \E verdict \in AtLeast(Rules(seen.text)), asked \in {FALSE, setup.model} :
       Judge(q, verdict, Follow(verdict, seen.status, setup.autoApprove),
             seen.modelChecked \/ asked)
  /\ Drop(j, {q})
  /\ UNCHANGED <<text, alive, rejected, setup>>

\* The job is cancelled, a write fails or finds no question.
AuditLost(j) ==
  /\ ~Idle(j)
  /\ \E qs \in SUBSET Question \ {{}} :
       /\ \A q \in qs : view[j][q] # Unread
       /\ Drop(j, qs)
  /\ UNCHANGED <<text, gate, alive, people, setup>>

-----------------------------------------------------------------------------
\* People

\* ResolveIssue "accept": the question passes whatever its findings.
Accept(q) ==
  /\ MayAct("resolve")
  /\ quality' = [quality EXCEPT ![q] = "pass"]
  /\ Say({q}, "approved")
  /\ UNCHANGED <<text, modelChecked, alive, view, setup>>

\* ResolveIssue "reject".
Reject(q) ==
  /\ MayAct("resolve")
  /\ quality' = [quality EXCEPT ![q] = "failed"]
  /\ Say({q}, "rejected")
  /\ UNCHANGED <<text, modelChecked, alive, view, setup>>

\* ResolveIssue "recheck" reads the question ...
RecheckRead(r, q) ==
  /\ MayAct("recheck")
  /\ Idle(r)
  /\ Read(r, {q})
  /\ UNCHANGED <<text, gate, alive, people, setup>>

\* ... and writes the rules' verdict on what it read.
RecheckWrite(r, q) ==
  LET seen == view[r][q] IN
  /\ seen # Unread
  /\ IF q \in alive
     THEN /\ quality' = [quality EXCEPT ![q] = Rules(seen.text)]
          /\ status' = [status EXCEPT ![q] = Follow(Rules(seen.text), seen.status, TRUE)]
          /\ vouched' = vouched \ {q}
     ELSE UNCHANGED <<quality, status, vouched>>
  /\ Drop(r, {q})
  /\ UNCHANGED <<text, modelChecked, alive, rejected, setup>>

\* ReviewQuestion and BulkUpdateQuestions set the status and leave the verdict.
SetStatus(qs, s) ==
  /\ MayAct("status")
  /\ Say(qs, s)
  /\ UNCHANGED <<text, quality, modelChecked, alive, view, setup>>

\* UpdateQuestion replaces the text and may set the status; the verdict on the
\* old text stays.
Edit(q, new, s) ==
  /\ MayAct("edit")
  /\ text' = [text EXCEPT ![q] = new]
  /\ IF s \in Status THEN Say({q}, s) ELSE UNCHANGED <<status, people>>
  /\ UNCHANGED <<quality, modelChecked, alive, view, setup>>

-----------------------------------------------------------------------------
QuestionNext ==
  \/ \E j \in Audit : \/ AuditStart(j)
                      \/ AuditLost(j)
                      \/ \E q \in Question : AuditOne(j, q)
  \/ \E r \in Recheck : \/ \E q \in alive : RecheckRead(r, q)
                        \/ \E q \in Question : RecheckWrite(r, q)
  \/ \E q \in alive : Accept(q) \/ Reject(q)
  \/ \E qs \in SUBSET alive \ {{}}, s \in Status : SetStatus(qs, s)
  \/ \E q \in alive, new \in setup.texts, s \in Status \cup {"kept"} : Edit(q, new, s)

-----------------------------------------------------------------------------
\* Properties

QuestionTypeOK ==
  /\ text \in [Question -> Text]
  /\ quality \in [Question -> Quality]
  /\ status \in [Question -> Status]
  /\ modelChecked \in [Question -> BOOLEAN]
  /\ alive \in SUBSET Question
  /\ view \in [Actor -> [Question -> Snapshot \cup {Unread}]]
  /\ vouched \in SUBSET Question
  /\ rejected \in SUBSET Question
  /\ setup \in Setups

\* audit.go: "A question that used to be approved and now fails must lose that
\* approval, or the gate is decorative."  However audits, rechecks and edits
\* overlap, an approved question has passed or owes its approval to a person
\* who gave it after the last automatic verdict.
ApprovalFollowsGate ==
  \A q \in Question : status[q] = "approved" => quality[q] = "pass" \/ q \in vouched

\* A person's rejection lasts until a person lifts it: no audit and no recheck
\* makes the question available again, whatever overlaps, but for one that had
\* read the question before it was rejected and writes back the status it read.
RejectionStands == \A q \in rejected : status[q] = "rejected"
=============================================================================
