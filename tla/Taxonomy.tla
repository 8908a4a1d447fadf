------------------------------ MODULE Taxonomy ------------------------------
(***************************************************************************)
(* The catalogue of subjects and topics (handler/taxonomy.go), the         *)
(* subjects of exams (handler/exam.go, pipeline/pattern.go) and the        *)
(* questions filed under them (handler/question.go, pipeline/persist.go).  *)
(* What checks first and writes later takes two steps, with others         *)
(* between.  Rows are deleted softly: a foreign key to one still holds.    *)
(***************************************************************************)
EXTENDS FiniteSets, Integers

CONSTANTS Subject, Topic, Question,   \* rows, used or not yet
          Exam, Code,
          Unsorted,   \* the code of the catch-all subject
          None,
          MaxOpen     \* bound on the requests that have checked and not yet written

ASSUME TaxonomyAssumption ==
  /\ Unsorted \in Code /\ None \notin Subject \union Topic
  /\ Subject \intersect Topic = {} /\ Topic \intersect Question = {} /\ Question \intersect (Exam \X Subject) = {}
  /\ Topic \intersect (Exam \X Subject) = {} /\ MaxOpen \in Nat

VARIABLES subject, code,   \* the rows: "new", "living" or "deleted"
          topic, under,    \* and the subject of each topic
          question, filed, tag,
          listed,          \* the subjects of exams: pairs
          open,            \* what has checked and not yet written
          late,            \* put under a subject after its questions were counted
          stranded,        \* questions of a subject deleted though the count of them failed
          mistagged        \* questions given a topic that was deleted
catalogueVars == <<subject, code, topic, under, question, filed, tag, listed, open, late, stranded, mistagged>>

Row == {"new", "living", "deleted"}
Living(rows) == {r \in DOMAIN rows : rows[r] = "living"}
Kept(rows) == {r \in DOMAIN rows : rows[r] # "new"}
New(rows) == {r \in DOMAIN rows : rows[r] = "new"}
QuestionsOf(s) == {q \in Living(question) : filed[q] = s}
TopicsOf(s) == {t \in Living(topic) : under[t] = s}
Free(c) == \A s \in Living(subject) : code[s] # c
\* Something is put under a subject, which may be deleted by now.
PutUnder(thing, s) ==
  /\ late' = IF subject[s] = "deleted" THEN late \union {thing} ELSE late \ {thing}
  /\ stranded' = stranded \ {thing}

\* A request or a job, the subjects it looked at, and what it read of them: the
\* questions counted, or the topics with their subjects.  A "blind" deletion is one
\* whose count failed.
Open == [op : {"delete", "blind", "topic", "list", "write", "parse", "persist", "analysis"}, subjects : SUBSET Subject,
         exam : Exam \union {None}, counted : SUBSET Question, topics : SUBSET (Topic \X (Subject \union {None}))]
Check(op, subjects, exam) ==
  /\ Cardinality(open) < MaxOpen
  /\ open' = open \union {[op |-> op, subjects |-> subjects, exam |-> exam, counted |-> {}, topics |-> {}]}

InitCatalogue ==
  /\ subject = [s \in Subject |-> "new"] /\ code = [s \in Subject |-> Unsorted]
  /\ topic = [t \in Topic |-> "new"] /\ under = [t \in Topic |-> None]
  /\ question = [q \in Question |-> "new"] /\ filed = [q \in Question |-> None] /\ tag = [q \in Question |-> None]
  /\ listed = {} /\ open = {} /\ late = {} /\ stranded = {} /\ mistagged = {}

(***************************************************************************)
(* Subjects.                                                               *)
(***************************************************************************)
\* The unique index on the codes of living subjects refuses a second one.
CreateSubject(s, c) ==
  /\ s \in New(subject) /\ Free(c)
  /\ subject' = [subject EXCEPT ![s] = "living"] /\ code' = [code EXCEPT ![s] = c]
  /\ UNCHANGED <<topic, under, question, filed, tag, listed, open, late, stranded, mistagged>>
UpdateSubject(s, c) ==
  /\ s \in Living(subject) /\ Free(c) /\ code' = [code EXCEPT ![s] = c]
  /\ UNCHANGED <<subject, topic, under, question, filed, tag, listed, open, late, stranded, mistagged>>
\* Mutant: questions that are not tagged with a topic are not counted.
CountTagged(s) == {q \in QuestionsOf(s) : tag[q] # None}
CountQuestions(s) == QuestionsOf(s)
StartDelete(s) ==
  /\ s \in Kept(subject) /\ CountQuestions(s) = {} /\ Cardinality(open) < MaxOpen
  /\ open' = open \union {[op |-> "delete", subjects |-> {s}, exam |-> None, counted |-> QuestionsOf(s), topics |-> {}]}
  /\ UNCHANGED <<subject, code, topic, under, question, filed, tag, listed, late, stranded, mistagged>>
\* The count's error is not looked at: a count that fails is a count of none.
StartDeleteBlind(s) ==
  /\ s \in Kept(subject) /\ Check("blind", {s}, None)
  /\ UNCHANGED <<subject, code, topic, under, question, filed, tag, listed, late, stranded, mistagged>>
\* The transaction: topics, rows of exams, the subject.
DeleteSubject(r) ==
  /\ r \in open /\ r.op \in {"delete", "blind"} /\ open' = open \ {r}
  /\ \E s \in r.subjects :
       /\ subject' = [subject EXCEPT ![s] = "deleted"]
       /\ topic' = [t \in Topic |-> IF t \in TopicsOf(s) THEN "deleted" ELSE topic[t]]
       /\ listed' = {pair \in listed : pair[2] # s}
       /\ IF r.op = "delete"
          THEN late' = late \union (QuestionsOf(s) \ r.counted) /\ UNCHANGED stranded
          ELSE stranded' = stranded \union QuestionsOf(s) /\ UNCHANGED late
  /\ UNCHANGED <<code, under, question, filed, tag, mistagged>>

(***************************************************************************)
(* Topics.                                                                 *)
(***************************************************************************)
StartTopic(s) ==
  /\ s \in Living(subject) /\ Check("topic", {s}, None)
  /\ UNCHANGED <<subject, code, topic, under, question, filed, tag, listed, late, stranded, mistagged>>
CreateTopic(r, t) ==
  /\ r \in open /\ r.op = "topic" /\ t \in New(topic) /\ open' = open \ {r}
  /\ \E s \in r.subjects : under' = [under EXCEPT ![t] = s] /\ PutUnder(t, s)
  /\ topic' = [topic EXCEPT ![t] = "living"]
  /\ UNCHANGED <<subject, code, question, filed, tag, listed, mistagged>>
\* A topic is moved to any subject there is a row of.
UpdateTopic(t, s) ==
  /\ t \in Living(topic) /\ s \in Kept(subject)
  /\ under' = [under EXCEPT ![t] = s] /\ PutUnder(t, s)
  /\ UNCHANGED <<subject, code, topic, question, filed, tag, listed, open, mistagged>>
\* Mutant: the questions keep their tag.
DeleteTopicOnly(t) ==
  /\ t \in Kept(topic) /\ topic' = [topic EXCEPT ![t] = "deleted"]
  /\ UNCHANGED <<subject, code, under, question, filed, tag, listed, open, late, stranded, mistagged>>
DeleteTopic(t) ==
  /\ t \in Kept(topic) /\ topic' = [topic EXCEPT ![t] = "deleted"]
  /\ tag' = [q \in Question |-> IF q \in Living(question) /\ tag[q] = t THEN None ELSE tag[q]]
  /\ UNCHANGED <<subject, code, under, question, filed, listed, open, late, stranded, mistagged>>

(***************************************************************************)
(* The subjects of an exam.                                                *)
(***************************************************************************)
StartList(e, s) ==
  /\ s \in Living(subject) /\ Check("list", {s}, e)
  /\ UNCHANGED <<subject, code, topic, under, question, filed, tag, listed, late, stranded, mistagged>>
\* A pattern's sections name subjects of the catalogue its papers were read with.
StartAnalysis(e) ==
  /\ Living(subject) # {} /\ Check("analysis", Living(subject), e)
  /\ UNCHANGED <<subject, code, topic, under, question, filed, tag, listed, late, stranded, mistagged>>
ListSubject(r) ==
  /\ r \in open /\ r.op \in {"list", "analysis"} /\ open' = open \ {r}
  /\ \E chosen \in SUBSET r.subjects :
       LET new == ({r.exam} \X chosen) \ listed IN
         /\ chosen # {} /\ listed' = listed \union new
         /\ late' = (late \ new) \union {pair \in new : subject[pair[2]] = "deleted"}
  /\ UNCHANGED <<subject, code, topic, under, question, filed, tag, stranded, mistagged>>
RemoveExamSubject(e, s) ==
  /\ <<e, s>> \in listed /\ listed' = listed \ {<<e, s>>}
  /\ UNCHANGED <<subject, code, topic, under, question, filed, tag, open, late, stranded, mistagged>>

(***************************************************************************)
(* Questions.                                                              *)
(***************************************************************************)
Tagging(q, t) ==
  /\ tag' = [tag EXCEPT ![q] = t]
  /\ mistagged' = IF t # None /\ topic[t] = "deleted" THEN mistagged \union {q} ELSE mistagged \ {q}
StartWrite(s) ==
  /\ s \in Living(subject) /\ Check("write", {s}, None)
  /\ UNCHANGED <<subject, code, topic, under, question, filed, tag, listed, late, stranded, mistagged>>
CreateQuestion(r, q, t) ==
  /\ r \in open /\ r.op = "write" /\ q \in New(question) /\ t \in Kept(topic) \union {None}
  /\ \E s \in r.subjects : filed' = [filed EXCEPT ![q] = s] /\ PutUnder(q, s)
  /\ question' = [question EXCEPT ![q] = "living"] /\ Tagging(q, t) /\ open' = open \ {r}
  /\ UNCHANGED <<subject, code, topic, under, listed>>
\* Extraction reads the catalogue, later the topics, and files a question under a
\* subject of it with a topic of that subject, or under the catch-all, which it
\* makes if it is missing.
StartIngest ==
  /\ Check("parse", Living(subject), None)
  /\ UNCHANGED <<subject, code, topic, under, question, filed, tag, listed, late, stranded, mistagged>>
LoadTopics(r) ==
  /\ r \in open /\ r.op = "parse"
  /\ LET pairs == {<<t, under[t]>> : t \in Living(topic)} IN
       open' = (open \ {r}) \union {[op |-> "persist", subjects |-> r.subjects, exam |-> None, counted |-> {}, topics |-> pairs]}
  /\ UNCHANGED <<subject, code, topic, under, question, filed, tag, listed, late, stranded, mistagged>>
Persist(r, q, s, t) ==
  /\ r \in open /\ r.op = "persist" /\ q \in New(question) /\ open' = open \ {r}
  /\ filed' = [filed EXCEPT ![q] = s] /\ PutUnder(q, s) /\ question' = [question EXCEPT ![q] = "living"] /\ Tagging(q, t)
  /\ UNCHANGED <<topic, under, listed>>
PersistMatched(r, q, s, t) ==
  /\ s \in r.subjects /\ (t = None \/ <<t, s>> \in r.topics) /\ Persist(r, q, s, t)
  /\ UNCHANGED <<subject, code>>
EnsureUnsorted(s) ==
  \/ s \in Living(subject) /\ code[s] = Unsorted /\ UNCHANGED <<subject, code>>
  \/ s \in New(subject) /\ Free(Unsorted)
     /\ subject' = [subject EXCEPT ![s] = "living"] /\ code' = [code EXCEPT ![s] = Unsorted]
PersistUnsorted(r, q, s) == EnsureUnsorted(s) /\ Persist(r, q, s, None)
\* A write fails, or its transaction is rolled back.
Fail(r) ==
  /\ r \in open /\ open' = open \ {r}
  /\ UNCHANGED <<subject, code, topic, under, question, filed, tag, listed, late, stranded, mistagged>>
\* An edit or a bulk edit files a question under any subject, and tags it with
\* any topic, there is a row of.
UpdateQuestion(q, s, t) ==
  /\ q \in Living(question) /\ s \in Kept(subject) \union {None} /\ t \in Kept(topic) \union {None}
  /\ IF s = None THEN UNCHANGED <<filed, late, stranded>> ELSE filed' = [filed EXCEPT ![q] = s] /\ PutUnder(q, s)
  /\ IF t = None THEN UNCHANGED <<tag, mistagged>> ELSE Tagging(q, t)
  /\ UNCHANGED <<subject, code, topic, under, question, listed, open>>
DeleteQuestion(q) ==
  /\ q \in Living(question) /\ question' = [question EXCEPT ![q] = "deleted"]
  /\ UNCHANGED <<subject, code, topic, under, filed, tag, listed, open, late, stranded, mistagged>>

NextCatalogue ==
  \/ \E s \in Subject, c \in Code : CreateSubject(s, c) \/ UpdateSubject(s, c)
  \/ \E s \in Subject : StartDelete(s) \/ StartDeleteBlind(s) \/ StartTopic(s) \/ StartWrite(s)
  \/ \E r \in open : DeleteSubject(r) \/ ListSubject(r) \/ LoadTopics(r) \/ Fail(r)
  \/ \E r \in open, t \in Topic : CreateTopic(r, t)
  \/ \E t \in Topic, s \in Subject : UpdateTopic(t, s)
  \/ \E t \in Topic : DeleteTopic(t)
  \/ \E e \in Exam : StartAnalysis(e) \/ \E s \in Subject : StartList(e, s) \/ RemoveExamSubject(e, s)
  \/ StartIngest
  \/ \E r \in open, q \in Question, t \in Topic \union {None} :
       CreateQuestion(r, q, t) \/ \E s \in Subject : PersistMatched(r, q, s, t)
  \/ \E r \in open, q \in Question, s \in Subject : PersistUnsorted(r, q, s)
  \/ \E q \in Question, s \in Subject \union {None}, t \in Topic \union {None} : UpdateQuestion(q, s, t)
  \/ \E q \in Question : DeleteQuestion(q)
CatalogueSpec == InitCatalogue /\ [][NextCatalogue]_catalogueVars

(***************************************************************************)
(* Properties.                                                             *)
(***************************************************************************)
\* What stands under a deleted subject was put there after its questions were
\* counted, by a request whose check was stale or by an edit, which checks none; or
\* it is a question that stood there when a count failed.  A failing count is no
\* excuse for a topic or an exam's row: the deletion takes them along either way.
DeletedSubjectsKeepNothing ==
  /\ \A q \in Living(question) : subject[filed[q]] = "deleted" => q \in late \union stranded
  /\ \A t \in Living(topic) : subject[under[t]] = "deleted" => t \in late
  /\ \A pair \in listed : subject[pair[2]] = "deleted" => pair \in late
\* A deleted topic is the tag of no question that stays in its subject, unless it
\* was put there late, stood there when a count failed, or was tagged after the
\* deletion.
DeletedTopicsTagNothing ==
  \A q \in Living(question) : tag[q] # None /\ topic[tag[q]] = "deleted" =>
    q \in late \union stranded \union mistagged \/ under[tag[q]] # filed[q]
=============================================================================
