------------------------------ MODULE ExamLinks ------------------------------
(***************************************************************************)
(* Which exams may use which questions: the links that follow from where   *)
(* questions come from and from the associations between exams             *)
(* (pipeline/links.go, handler/exam.go, and the writers of questions:      *)
(* pipeline/persist.go, handler/question.go, handler/document.go).         *)
(*                                                                         *)
(* Transactions run at the database's read committed level: a writer reads *)
(* the associations and commits later, and so does a rebuild.  A read that *)
(* can only refuse a request is taken together with the write it guards.   *)
(***************************************************************************)
EXTENDS FiniteSets

CONSTANTS
  Question, Exam, Subject, Document, Association,
  Writer,    \* ingest jobs and requests that write questions
  Request,   \* requests that change an association
  Direct,    \* the link of an exam to its own material
  None,
  Setups     \* the warehouses and clients looked at

\* What happens in a warehouse; each is looked at with some of it.
Happening == {"ingest", "write", "keep", "classify", "deleteQuestion",
              "attach", "associate", "dissociate", "deleteExam"}

Setup == [
  happens  : SUBSET Happening,
  stock    : SUBSET Question,      \* the questions there may be
  exams    : SUBSET Exam,
  subjects : SUBSET Subject,
  bonds    : SUBSET Association,   \* the associations there may be
  waits    : BOOLEAN,   \* nobody acts while a writer or a request is at work
  faults   : BOOLEAN ]  \* statements may fail

Terms == [borrower : Exam, source : Exam, subject : Subject \cup {None}]

ASSUME LinksAssumption ==
  /\ Direct # None
  /\ {Direct, None} \cap Association = {}
  /\ None \notin Exam \cup Document \cup Subject \cup Terms
  /\ Setups \subseteq Setup

Row   == {"new", "live", "deleted", "gone"}   \* deleted softly, or for good
Link  == Association \cup {Direct, None}

\* A writer has loaded its document, or read the associations in its transaction.
Writing == [
  at      : {"loaded", "linking"},
  doc     : Document \cup {None},   \* None: a person wrote the question
  exam    : Exam \cup {None},
  found   : SUBSET Question,        \* the questions reused by their hash
  kept    : SUBSET Question,        \* the document's questions some paper uses
  dropped : SUBSET Question,        \* and its others
  lenders : SUBSET Association ]    \* the associations that lend from the exam

Rebuild == [
  at      : {"pending", "rebuilding"},
  exam    : Exam,
  doomed  : SUBSET Question,        \* the questions whose borrowed link is cleared
  lenders : SUBSET Association ]    \* the associations the exam borrows by

\* A writer or a request that has ended is none.
ASSUME SlotsAssumption == None \notin Writing \cup Rebuild

VARIABLES
  exams,         \* the exams not deleted
  docExam,       \* documents.exam_id
  row,           \* [Question -> Row]
  origin,        \* questions.origin_exam_id
  subject,       \* questions.subject_id
  document,      \* questions.document_id
  terms,         \* [Association -> Terms], None before it is created
  associations,  \* the rows of exam_associations
  enabled,       \* those enabled
  link,          \* [Question -> [Exam -> Link]], unique per question and exam
  writer,        \* [Writer -> Writing or None]
  request,       \* [Request -> Rebuild or None]
  gave,          \* [Question -> the exams that ever contributed it]
  setup          \* one of Setups, and always the same

questions == <<row, origin, subject, document, gave>>
borrowing == <<terms, associations, enabled>>
vars == <<exams, docExam, questions, borrowing, link, writer, request, setup>>

-----------------------------------------------------------------------------
\* Auxiliary predicates

Happens(what) == what \in setup.happens

Idle  == (\A w \in Writer : writer[w] = None) /\ (\A h \in Request : request[h] = None)
Ready == setup.waits => Idle

\* The questions an association covers, by their subject.
Covers(a, s) == terms[a].subject \in {None, s}

\* Of the associations that lend one question to one exam, the first to be
\* inserted makes the link; they are read in no stated order.
Picks(lenders) ==
  {pick \in [(SUBSET lenders) \ {{}} -> lenders] : \A some \in DOMAIN pick : pick[some] \in some}

\* INSERT ... ON CONFLICT (question_id, exam_id) DO NOTHING.
Insert(was, new) ==
  [q \in Question |-> [e \in Exam |-> IF was[q][e] = None THEN new[q][e] ELSE was[q][e]]]

\* The direct links of some questions to an exam.
Own(some, exam) ==
  [q \in Question |-> [e \in Exam |-> IF q \in some /\ e = exam THEN Direct ELSE None]]

\* The borrowed links by offers, the associations for each question and exam.
Borrowed(offers, pick) ==
  [q \in Question |-> [e \in Exam |-> IF offers[q][e] = {} THEN None ELSE pick[offers[q][e]]]]

\* Foreign key: every new link names an association that still exists.
Referenced(now) ==
  \A q \in Question, e \in Exam :
    now[q][e] # link[q][e] => now[q][e] \in associations \cup {Direct, None}

\* What the lenders offer of some questions, which have these subjects.
Offers(lenders, some, subjects) ==
  [q \in Question |-> [e \in Exam |->
    {a \in lenders : q \in some /\ terms[a].borrower = e /\ Covers(a, subjects[q])}]]

\* An association materialised: the source's living questions it covers.
\* Mutant: also those the source only borrows.
LendsLinked(a, q) ==
  row[q] = "live" /\ link[q][terms[a].source] # None /\ Covers(a, subject[q])
Lends(a, q) ==
  row[q] = "live" /\ origin[q] = terms[a].source /\ Covers(a, subject[q])

\* The associations that lend from an exam, and those an exam borrows by.
\* Mutant: those for one subject are forgotten.
LendFromWhole(exam) == {a \in enabled : terms[a].source = exam /\ terms[a].subject = None}
LendFrom(exam)   == {a \in enabled : terms[a].source = exam}
BorrowedBy(exam) == {a \in enabled : terms[a].borrower = exam}

-----------------------------------------------------------------------------
\* Writers of questions

\* runIngest loads the document, and its exam, when the job starts.
IngestLoad(w, d) ==
  /\ Happens("ingest") /\ Ready
  /\ writer[w] = None
  /\ writer' = [writer EXCEPT ![w] =
       [at |-> "loaded", doc |-> d, exam |-> docExam[d],
        found |-> {}, kept |-> {}, dropped |-> {}, lenders |-> {}]]
  /\ UNCHANGED <<exams, docExam, questions, borrowing, link, request, setup>>

\* In the transaction of persistQuestions, up to the reading of associations:
\* the document's questions are dropped but for those used in papers, and what
\* the warehouse holds already is found.
IngestRead(w, kept, found) ==
  LET own == {q \in Question : row[q] = "live" /\ document[q] = writer[w].doc}
  IN /\ writer[w] # None /\ writer[w].at = "loaded"
     /\ kept \subseteq own
     /\ Happens("keep") \/ kept = {}
     /\ found \subseteq {q \in Question : row[q] = "live" /\ q \notin own \ kept}
     /\ writer' = [writer EXCEPT ![w].at = "linking", ![w].found = found,
                                 ![w].kept = kept, ![w].dropped = own \ kept,
                                 ![w].lenders = LendFrom(writer[w].exam)]
     /\ UNCHANGED <<exams, docExam, questions, borrowing, link, request, setup>>

\* The rest of persistQuestions with syncLinksForQuestions: what was not found
\* is created, everything is linked to the document's exam and lent onwards.
IngestCommit(w, fresh, subjects) ==
  LET job     == writer[w]
      some    == fresh \cup job.found
      offers  == Offers(job.lenders, some, subject')
      linked  == Insert(link, Own(some, job.exam))
      cleared == [q \in Question |-> IF q \in job.dropped THEN [e \in Exam |-> None]
                                     ELSE linked[q]]
  IN /\ job # None /\ job.at = "linking" /\ job.doc # None
     /\ \A q \in fresh : row[q] = "new"
     /\ job.exam # None => \A q \in job.found : row[q] # "gone"   \* foreign key
     /\ row' = [q \in Question |-> IF q \in fresh THEN "live"
                                   ELSE IF q \in job.dropped THEN "gone" ELSE row[q]]
     /\ origin'   = [q \in Question |-> IF q \in fresh THEN job.exam ELSE origin[q]]
     /\ subject'  = [q \in Question |-> IF q \in fresh THEN subjects[q] ELSE subject[q]]
     /\ document' = [q \in Question |-> IF q \in fresh THEN job.doc
                                        ELSE IF q \in job.kept THEN None ELSE document[q]]
     /\ \E pick \in Picks(job.lenders) : link' = Insert(cleared, Borrowed(offers, pick))
     /\ Referenced(link')
     /\ gave' = [q \in Question |-> IF q \in some /\ job.exam # None
                                    THEN gave[q] \cup {job.exam} ELSE gave[q]]
     /\ writer' = [writer EXCEPT ![w] = None]
     /\ UNCHANGED <<exams, docExam, borrowing, request, setup>>

\* CreateQuestion: a person writes a question for an exam; in the transaction
\* the associations are read ...
WriteRead(w, e) ==
  /\ Happens("write") /\ Ready
  /\ writer[w] = None
  /\ writer' = [writer EXCEPT ![w] =
       [at |-> "linking", doc |-> None, exam |-> e,
        found |-> {}, kept |-> {}, dropped |-> {}, lenders |-> LendFrom(e)]]
  /\ UNCHANGED <<exams, docExam, questions, borrowing, link, request, setup>>

\* ... and RebuildLinksFromSource lends everything the exam has onwards.
WriteCommit(w, q, s) ==
  LET job    == writer[w]
      some   == {p \in Question : row'[p] = "live" /\ origin'[p] = job.exam}
      offers == Offers(job.lenders, some, subject')
      linked == Insert(link, Own({q}, job.exam))
  IN /\ job # None /\ job.at = "linking" /\ job.doc = None
     /\ row[q] = "new"
     /\ row'     = [row EXCEPT ![q] = "live"]
     /\ origin'  = [origin EXCEPT ![q] = job.exam]
     /\ subject' = [subject EXCEPT ![q] = s]
     /\ \E pick \in Picks(job.lenders) : link' = Insert(linked, Borrowed(offers, pick))
     /\ Referenced(link')
     /\ gave' = [gave EXCEPT ![q] = @ \cup {job.exam}]
     /\ writer' = [writer EXCEPT ![w] = None]
     /\ UNCHANGED <<exams, docExam, document, borrowing, request, setup>>

\* UpdateQuestion and BulkUpdateQuestions give a question another subject; its
\* links stay.
Classify(q, s) ==
  /\ Happens("classify") /\ Ready
  /\ row[q] = "live"
  /\ subject' = [subject EXCEPT ![q] = s]
  /\ UNCHANGED <<exams, docExam, row, origin, document, gave, borrowing, link, writer,
                 request, setup>>

\* DeleteQuestion.
DeleteQuestion(q) ==
  /\ Happens("deleteQuestion") /\ Ready
  /\ row[q] = "live"
  /\ row'  = [row EXCEPT ![q] = "deleted"]
  /\ link' = [link EXCEPT ![q] = [e \in Exam |-> None]]
  /\ UNCHANGED <<exams, docExam, origin, subject, document, gave, borrowing, writer,
                 request, setup>>

\* UpdateDocument attaches a document to an exam or detaches it.  Updates also
\* writes the new exam into doc, so that the comparison after it finds the exam
\* unchanged: the questions keep their origin and nothing is linked.
UpdateDocument(d, e) ==
  /\ Happens("attach") /\ Ready
  /\ e \in exams \cup {None}
  /\ docExam' = [docExam EXCEPT ![d] = e]
  /\ UNCHANGED <<exams, questions, borrowing, link, writer, request, setup>>

-----------------------------------------------------------------------------
\* Associations, and the rebuild each request ends with

Pending(e) == [at |-> "pending", exam |-> e, doomed |-> {}, lenders |-> {}]

\* CreateAssociation, up to the rebuild; unique indexes forbid a second
\* association of the same terms.
CreateAssociation(h, a, t, on) ==
  /\ Happens("associate") /\ Ready
  /\ request[h] = None
  /\ t.source \in exams /\ t.source # t.borrower
  /\ terms[a] = None
  /\ \A b \in associations : terms[b] # t
  /\ terms' = [terms EXCEPT ![a] = t]
  /\ associations' = associations \cup {a}
  /\ enabled' = IF on THEN enabled \cup {a} ELSE enabled
  /\ request' = [request EXCEPT ![h] = Pending(t.borrower)]
  /\ UNCHANGED <<exams, docExam, questions, link, writer, setup>>

\* UpdateAssociation, up to the rebuild.
UpdateAssociation(h, a, on) ==
  /\ Happens("associate") /\ Ready
  /\ request[h] = None
  /\ a \in associations
  /\ enabled' = IF on THEN enabled \cup {a} ELSE enabled \ {a}
  /\ request' = [request EXCEPT ![h] = Pending(terms[a].borrower)]
  /\ UNCHANGED <<exams, docExam, questions, terms, associations, link, writer, setup>>

\* RebuildExamLinks deletes the borrowed links and reads the associations.
\* Rows another rebuild has deleted are locked until it ends.
\* Mutant: it deletes every link of the exam.
DoomedAll(e) == {q \in Question : link[q][e] # None}
Doomed(e)    == {q \in Question : link[q][e] \in Association}
RebuildStart(h) ==
  LET e == request[h].exam
  IN /\ request[h] # None /\ request[h].at = "pending"
     /\ \A g \in Request : request[g] # None /\ request[g].exam = e => request[g].doomed = {}
     /\ request' = [request EXCEPT ![h] = [at |-> "rebuilding", exam |-> e,
                                           doomed |-> Doomed(e), lenders |-> BorrowedBy(e)]]
     /\ UNCHANGED <<exams, docExam, questions, borrowing, link, writer, setup>>

\* It inserts what the associations lend, and commits.
RebuildCommit(h) ==
  LET job    == request[h]
      offers == [q \in Question |-> [e \in Exam |->
                  {a \in job.lenders : e = job.exam /\ Lends(a, q)}]]
      cleared == [q \in Question |-> IF q \in job.doomed
                                     THEN [link[q] EXCEPT ![job.exam] = None] ELSE link[q]]
  IN /\ job # None /\ job.at = "rebuilding"
     /\ \E pick \in Picks(job.lenders) : link' = Insert(cleared, Borrowed(offers, pick))
     /\ Referenced(link')
     /\ request' = [request EXCEPT ![h] = None]
     /\ UNCHANGED <<exams, docExam, questions, borrowing, writer, setup>>

\* DeleteAssociation.  The association's row goes first, which the foreign key
\* of its links refuses: only an association without links goes, and the
\* deletion of its links, which follows, finds none.
DeleteAssociation(a) ==
  /\ Happens("dissociate") /\ Ready
  /\ a \in associations
  /\ \A q \in Question, e \in Exam : link[q][e] # a
  /\ associations' = associations \ {a}
  /\ enabled' = enabled \ {a}
  /\ UNCHANGED <<exams, docExam, questions, terms, link, writer, request, setup>>

\* DeleteExam: its links go, then the associations it takes part in, which the
\* links of those who borrow from it refuse.
DeleteExam(e) ==
  LET bonds == {a \in associations : e \in {terms[a].borrower, terms[a].source}}
      left  == [q \in Question |-> [link[q] EXCEPT ![e] = None]]
  IN /\ Happens("deleteExam") /\ Ready
     /\ \A q \in Question, x \in Exam : left[q][x] \notin bonds
     /\ link' = left
     /\ associations' = associations \ bonds
     /\ enabled' = enabled \ bonds
     /\ docExam' = [d \in Document |-> IF docExam[d] = e THEN None ELSE docExam[d]]
     /\ origin'  = [q \in Question |-> IF origin[q] = e THEN None ELSE origin[q]]
     /\ exams' = exams \ {e}
     /\ UNCHANGED <<row, subject, document, gave, terms, writer, request, setup>>

\* A transaction is rolled back: a statement fails, a connection is lost, the
\* process stops, or a foreign key refuses what it would insert.
WriterFails(w) ==
  /\ setup.faults
  /\ writer[w] # None
  /\ writer' = [writer EXCEPT ![w] = None]
  /\ UNCHANGED <<exams, docExam, questions, borrowing, link, request, setup>>
RebuildFails(h) ==
  /\ setup.faults
  /\ request[h] # None
  /\ request' = [request EXCEPT ![h] = None]
  /\ UNCHANGED <<exams, docExam, questions, borrowing, link, writer, setup>>

-----------------------------------------------------------------------------
Init ==
  /\ setup \in Setups
  /\ exams = setup.exams
  /\ docExam \in [Document -> setup.exams \cup {None}]
  /\ row      = [q \in Question |-> "new"]
  /\ origin   = [q \in Question |-> None]
  /\ subject  = [q \in Question |-> None]
  /\ document = [q \in Question |-> None]
  /\ gave     = [q \in Question |-> {}]
  /\ terms    = [a \in Association |-> None]
  /\ associations = {}
  /\ enabled = {}
  /\ link    = [q \in Question |-> [e \in Exam |-> None]]
  /\ writer  = [w \in Writer |-> None]
  /\ request = [h \in Request |-> None]

Write(w) ==
  \/ \E d \in Document : IngestLoad(w, d)
  \/ \E kept, found \in SUBSET Question : IngestRead(w, kept, found)
  \/ \E fresh \in SUBSET setup.stock :
       \E subjects \in [fresh -> setup.subjects] : IngestCommit(w, fresh, subjects)
  \/ \E e \in setup.exams : WriteRead(w, e)
  \/ \E q \in setup.stock, s \in setup.subjects : WriteCommit(w, q, s)
  \/ WriterFails(w)

Associate(h) ==
  \/ \E a \in setup.bonds, on \in BOOLEAN, e, x \in setup.exams,
        s \in setup.subjects \cup {None} :
       CreateAssociation(h, a, [borrower |-> e, source |-> x, subject |-> s], on)
  \/ \E a \in Association, on \in BOOLEAN : UpdateAssociation(h, a, on)
  \/ RebuildStart(h)
  \/ RebuildCommit(h)
  \/ RebuildFails(h)

Edit ==
  \/ \E q \in Question, s \in setup.subjects : Classify(q, s)
  \/ \E q \in Question : DeleteQuestion(q)
  \/ \E d \in Document, e \in setup.exams \cup {None} : UpdateDocument(d, e)
  \/ \E a \in Association : DeleteAssociation(a)
  \/ \E e \in setup.exams : DeleteExam(e)

Next ==
  \/ \E w \in Writer : Write(w)
  \/ \E h \in Request : Associate(h)
  \/ Edit

Spec == Init /\ [][Next]_vars

-----------------------------------------------------------------------------
TypeOK ==
  /\ exams \subseteq Exam
  /\ docExam \in [Document -> Exam \cup {None}]
  /\ row \in [Question -> Row]
  /\ origin \in [Question -> Exam \cup {None}]
  /\ subject \in [Question -> Subject \cup {None}]
  /\ document \in [Question -> Document \cup {None}]
  /\ terms \in [Association -> Terms \cup {None}]
  /\ enabled \subseteq associations
  /\ associations \subseteq {a \in Association : terms[a] # None}
  /\ link \in [Question -> [Exam -> Link]]
  /\ writer \in [Writer -> Writing \cup {None}]
  /\ request \in [Request -> Rebuild \cup {None}]
  /\ gave \in [Question -> SUBSET Exam]
  /\ setup \in Setups
  /\ \A q \in Question : row[q] = "new" <=> subject[q] = None

\* pattern.go: "The link is directed. [...] Associating A -> B does not let B use
\* A's questions."  Nor does borrowing pass on what was borrowed: an exam has a
\* question as its own only where its own documents or authors gave it, and
\* borrows it only by an association, still on record, of its own with an exam
\* that gave it.  This holds however ingests, rebuilds and deletions overlap.
LinksExplained ==
  \A q \in Question, e \in Exam :
    /\ link[q][e] = Direct => e \in gave[q]
    /\ link[q][e] \in Association =>
         LET a == link[q][e]
         IN a \in associations /\ terms[a].borrower = e /\ terms[a].source \in gave[q]

\* links.go: "an exam always keeps access to its own material", whatever is
\* rebuilt, deleted or ingested again meanwhile.
OwnMaterial ==
  \A q \in Question :
    row[q] = "live" /\ origin[q] # None => link[q][origin[q]] = Direct

\* An exam can use all that its enabled associations lend, once every request
\* and every writer is done.
BorrowersKeepUp ==
  Idle => \A a \in enabled, q \in Question :
            row[q] = "live" /\ origin[q] = terms[a].source /\ Covers(a, subject[q])
              => link[q][terms[a].borrower] # None

\* It is so where requests and ingests come one at a time, nothing fails and
\* questions keep their subject.
BorrowersKeepUpWhenWaiting ==
  setup.waits /\ ~setup.faults /\ ~Happens("classify") => BorrowersKeepUp

=============================================================================
