--------------------------- MODULE ExamLinksProofs ---------------------------
(***************************************************************************)
(* Proofs about ExamLinks, for any warehouse and any number of writers and *)
(* requests: every variable keeps its type, every link is explained by     *)
(* what an exam contributed or an association lends, an exam never loses   *)
(* its own material, and where clients wait for each other a borrower can  *)
(* use all that it is lent.                                                *)
(*                                                                         *)
(* What makes these inductive is what writers and rebuilds remember across *)
(* their transactions: lenders keep their terms, a link that a rebuild is  *)
(* about to clear is never one of the exam's own, and where clients wait   *)
(* the associations read are still all there are at the commit.            *)
(***************************************************************************)
EXTENDS ExamLinks, TLAPS

Links == [Question -> [Exam -> Link]]

\* What a writer remembers is still so.
WriterRight(w) ==
  writer[w] # None =>
    /\ \A q \in writer[w].found \cup writer[w].dropped : row[q] # "new"
    /\ writer[w].doc = None => writer[w].exam # None
    /\ \A a \in writer[w].lenders :
         terms[a] # None /\ terms[a].source = writer[w].exam

\* What a rebuild remembers is still so.
RebuildRight(h) ==
  request[h] # None =>
    /\ \A q \in request[h].doomed :
         row[q] # "new" /\ (row[q] = "live" => origin[q] # request[h].exam)
    /\ \A a \in request[h].lenders :
         terms[a] # None /\ terms[a].borrower = request[h].exam

\* A question that does not exist has no links.
NewUnlinked == \A q \in Question : row[q] = "new" => \A e \in Exam : link[q][e] = None

\* An origin is an exam that contributed the question.
OriginGave == \A q \in Question : origin[q] # None => origin[q] \in gave[q]

LinksInv ==
  /\ LinksExplained
  /\ OwnMaterial
  /\ NewUnlinked
  /\ OriginGave
  /\ \A w \in Writer : WriterRight(w)
  /\ \A h \in Request : RebuildRight(h)

\* Clients wait, nothing fails and questions keep their subject.
Calm == setup.waits /\ ~setup.faults /\ ~Happens("classify")

\* One at a time: one writer, or one request, is at work.
Alone ==
  /\ \A w, x \in Writer : writer[w] # None /\ writer[x] # None => w = x
  /\ \A h, g \in Request : request[h] # None /\ request[g] # None => h = g
  /\ \A w \in Writer, h \in Request : writer[w] = None \/ request[h] = None

\* The associations a writer or a rebuild has read are still those there are.
LendersNow ==
  /\ \A w \in Writer : writer[w] # None /\ writer[w].at = "linking" =>
       writer[w].lenders = LendFrom(writer[w].exam)
  /\ \A h \in Request : request[h] # None /\ request[h].at = "rebuilding" =>
       request[h].lenders = BorrowedBy(request[h].exam)

\* A rebuild is due for an exam.
Due(e) == \E h \in Request : request[h] # None /\ request[h].exam = e

\* What an enabled association lends is linked, or a rebuild is due.
KeptUp ==
  \A a \in enabled, q \in Question :
    Lends(a, q) => link[q][terms[a].borrower] # None \/ Due(terms[a].borrower)

WaitingInv == Calm => Alone /\ LendersNow /\ KeptUp

-----------------------------------------------------------------------------
\* The operators on links

\* INSERT ... DO NOTHING keeps what there is.
LEMMA Inserting ==
  ASSUME NEW was \in Links, NEW new \in Links
  PROVE  /\ Insert(was, new) \in Links
         /\ \A q \in Question, e \in Exam :
              Insert(was, new)[q][e] = IF was[q][e] = None THEN new[q][e] ELSE was[q][e]
  BY DEF Insert, Links

\* Direct links go to the questions named, for the exam named.
LEMMA Owning ==
  ASSUME NEW some, NEW exam
  PROVE  /\ Own(some, exam) \in Links
         /\ \A q \in Question, e \in Exam :
              Own(some, exam)[q][e] = IF q \in some /\ e = exam THEN Direct ELSE None
  BY DEF Own, Links, Link

\* A borrowed link names one of the associations that offer it.
LEMMA BorrowingOffers ==
  ASSUME NEW lenders \in SUBSET Association,
         NEW offers \in [Question -> [Exam -> SUBSET lenders]],
         NEW pick \in Picks(lenders)
  PROVE  /\ Borrowed(offers, pick) \in Links
         /\ \A q \in Question, e \in Exam :
              IF offers[q][e] = {} THEN Borrowed(offers, pick)[q][e] = None
              ELSE Borrowed(offers, pick)[q][e] \in offers[q][e]
<1>1. ASSUME NEW q \in Question, NEW e \in Exam, offers[q][e] # {}
      PROVE  pick[offers[q][e]] \in offers[q][e]
  <2>1. offers[q][e] \in (SUBSET lenders) \ {{}}
    BY <1>1
  <2> QED
    BY <2>1 DEF Picks
<1>2. \A q \in Question, e \in Exam :
        Borrowed(offers, pick)[q][e] =
          IF offers[q][e] = {} THEN None ELSE pick[offers[q][e]]
  BY DEF Borrowed
<1>3. \A q \in Question, e \in Exam : offers[q][e] \subseteq Association
  OBVIOUS
<1>4. Borrowed(offers, pick) \in Links
  BY <1>1, <1>3 DEF Borrowed, Links, Link
<1> QED
  BY <1>1, <1>2, <1>4

\* Lenders offer only what their terms say.
LEMMA OffersLent ==
  ASSUME NEW lenders, NEW some, NEW subjects
  PROVE  /\ Offers(lenders, some, subjects) \in [Question -> [Exam -> SUBSET lenders]]
         /\ \A q \in Question, e \in Exam : \A a \in Offers(lenders, some, subjects)[q][e] :
              q \in some /\ terms[a].borrower = e
         /\ \A a \in lenders, q \in some \cap Question, e \in Exam :
              terms[a].borrower = e /\ Covers(a, subjects[q])
                => a \in Offers(lenders, some, subjects)[q][e]
  BY DEF Offers

-----------------------------------------------------------------------------
\* What each kind of commit does to the links

\* An ingest's.
LEMMA IngestLinks ==
  ASSUME TypeOK, LinksInv, NEW w \in Writer, NEW fresh \in SUBSET Question,
         NEW subjects \in [fresh -> setup.subjects], IngestCommit(w, fresh, subjects)
  PROVE  LET job  == writer[w]
             some == fresh \cup job.found
         IN /\ link' \in Links
            /\ \A q \in Question, e \in Exam :
                 /\ link'[q][e] = Direct =>
                      link[q][e] = Direct \/ (q \in some /\ e = job.exam)
                 /\ link'[q][e] \in Association =>
                      \/ link'[q][e] = link[q][e]
                      \/ /\ q \in some
                         /\ link'[q][e] \in job.lenders \cap associations
                         /\ terms[link'[q][e]].borrower = e
                 /\ q \notin job.dropped /\ link[q][e] = Direct => link'[q][e] = Direct
                 /\ q \in fresh /\ e = job.exam => link'[q][e] = Direct
                 /\ q \notin some /\ link[q][e] = None => link'[q][e] = None
                 /\ q \notin job.dropped /\ link[q][e] # None => link'[q][e] # None
                 /\ \A a \in job.lenders :
                      q \in some /\ terms[a].borrower = e /\ Covers(a, subject'[q])
                        => link'[q][e] # None
<1> DEFINE job     == writer[w]
           some    == fresh \cup job.found
           offers  == Offers(job.lenders, some, subject')
           linked  == Insert(link, Own(some, job.exam))
           cleared == [q \in Question |-> IF q \in job.dropped THEN [e \in Exam |-> None]
                                          ELSE linked[q]]
<1>1. link \in Links /\ job \in Writing
  BY DEF TypeOK, IngestCommit, Links
<1>2. PICK pick \in Picks(job.lenders) : link' = Insert(cleared, Borrowed(offers, pick))
  BY DEF IngestCommit
<1>3. /\ linked \in Links
      /\ \A q \in Question, e \in Exam :
           linked[q][e] = IF link[q][e] # None THEN link[q][e]
                          ELSE IF q \in some /\ e = job.exam THEN Direct ELSE None
  <2>1. Own(some, job.exam) \in Links
    BY Owning
  <2> QED
    BY <1>1, <2>1, Inserting, Owning
<1>4. /\ cleared \in Links
      /\ \A q \in Question, e \in Exam :
           cleared[q][e] = IF q \in job.dropped THEN None ELSE linked[q][e]
  BY <1>3 DEF Links, Link
<1>5. /\ offers \in [Question -> [Exam -> SUBSET job.lenders]]
      /\ \A q \in Question, e \in Exam : \A a \in offers[q][e] :
           q \in some /\ terms[a].borrower = e
      /\ \A a \in job.lenders, q \in some \cap Question, e \in Exam :
           terms[a].borrower = e /\ Covers(a, subject'[q]) => a \in offers[q][e]
  <2> HIDE DEF some
  <2> QED
    BY OffersLent
<1>6. job.lenders \in SUBSET Association
  BY <1>1 DEF Writing
<1> DEFINE lent == Borrowed(offers, pick)
<1>7. /\ lent \in Links
      /\ \A q \in Question, e \in Exam :
           IF offers[q][e] = {} THEN lent[q][e] = None ELSE lent[q][e] \in offers[q][e]
  <2> HIDE DEF offers
  <2> QED
    BY <1>5, <1>6, BorrowingOffers
<1> HIDE DEF cleared, lent, linked, offers
<1>8. /\ link' \in Links
      /\ \A q \in Question, e \in Exam :
           link'[q][e] = IF cleared[q][e] = None THEN lent[q][e] ELSE cleared[q][e]
  BY <1>2, <1>4, <1>7, Inserting DEF lent
<1>9. \A q \in fresh : q \in Question /\ row[q] = "new"
  BY DEF IngestCommit
<1>10. \A q \in fresh : q \notin job.dropped /\ \A e \in Exam : link[q][e] = None
  BY <1>9 DEF LinksInv, NewUnlinked, WriterRight, IngestCommit
<1>11. ASSUME NEW q \in Question, NEW e \in Exam
       PROVE  lent[q][e] # None =>
                /\ lent[q][e] \in job.lenders /\ lent[q][e] \in Association
                /\ q \in some /\ terms[lent[q][e]].borrower = e
  BY <1>5, <1>6, <1>7
<1>12. \A q \in Question, e \in Exam :
         link'[q][e] # link[q][e] => link'[q][e] \in associations \cup {Direct, None}
  BY DEF IngestCommit, Referenced
<1>13. Direct # None /\ Direct \notin Association /\ None \notin Association
  BY LinksAssumption
<1>14. ASSUME NEW q \in Question, NEW e \in Exam, q \notin job.dropped, link[q][e] # None
       PROVE  link'[q][e] # None
  BY <1>3, <1>4, <1>8, <1>14
<1>15. ASSUME NEW q \in Question, NEW e \in Exam, NEW a \in job.lenders, q \in some,
              terms[a].borrower = e, Covers(a, subject'[q])
       PROVE  link'[q][e] # None
  <2>1. a \in offers[q][e]
    BY <1>5, <1>15
  <2>2. lent[q][e] \in Association
    BY <1>5, <1>6, <1>7, <2>1
  <2> QED
    BY <1>8, <1>13, <2>2
<1>16. ASSUME NEW q \in Question, NEW e \in Exam
       PROVE  /\ link'[q][e] = Direct =>
                   link[q][e] = Direct \/ (q \in some /\ e = job.exam)
              /\ link'[q][e] \in Association =>
                   \/ link'[q][e] = link[q][e]
                   \/ /\ q \in some
                      /\ link'[q][e] \in job.lenders \cap associations
                      /\ terms[link'[q][e]].borrower = e
              /\ q \notin job.dropped /\ link[q][e] = Direct => link'[q][e] = Direct
              /\ q \in fresh /\ e = job.exam => link'[q][e] = Direct
              /\ q \notin some /\ link[q][e] = None => link'[q][e] = None
  BY <1>3, <1>4, <1>8, <1>10, <1>11, <1>12, <1>13
<1> HIDE DEF job, some
<1> QED
  BY <1>8, <1>14, <1>15, <1>16 DEF job, some

\* A person's new question's.
LEMMA WriteLinks ==
  ASSUME TypeOK, LinksInv, NEW w \in Writer, NEW p \in Question, NEW s, WriteCommit(w, p, s)
  PROVE  LET job == writer[w]
         IN /\ link' \in Links
            /\ \A q \in Question, e \in Exam :
                 /\ link'[q][e] = Direct => link[q][e] = Direct \/ (q = p /\ e = job.exam)
                 /\ link'[q][e] \in Association =>
                      \/ link'[q][e] = link[q][e]
                      \/ /\ row'[q] = "live" /\ origin'[q] = job.exam
                         /\ link'[q][e] \in job.lenders \cap associations
                         /\ terms[link'[q][e]].borrower = e
                 /\ link[q][e] = Direct => link'[q][e] = Direct
                 /\ q = p /\ e = job.exam => link'[q][e] = Direct
                 /\ row'[q] # "live" /\ link[q][e] = None => link'[q][e] = None
                 /\ link[q][e] # None => link'[q][e] # None
                 /\ \A a \in job.lenders :
                      /\ row'[q] = "live" /\ origin'[q] = job.exam
                      /\ terms[a].borrower = e /\ Covers(a, subject'[q])
                      => link'[q][e] # None
<1> DEFINE job    == writer[w]
           some   == {q \in Question : row'[q] = "live" /\ origin'[q] = job.exam}
           offers == Offers(job.lenders, some, subject')
           own    == Own({p}, job.exam)
           linked == Insert(link, own)
           lent(pick) == Borrowed(offers, pick)
<1>1. link \in Links /\ job \in Writing
  BY DEF TypeOK, WriteCommit, Links
<1>2. PICK pick \in Picks(job.lenders) : link' = Insert(linked, lent(pick))
  BY DEF WriteCommit
<1>3. /\ linked \in Links
      /\ \A q \in Question, e \in Exam :
           linked[q][e] = IF link[q][e] # None THEN link[q][e]
                          ELSE IF q = p /\ e = job.exam THEN Direct ELSE None
  <2>1. /\ own \in Links
        /\ \A q \in Question, e \in Exam :
             own[q][e] = IF q = p /\ e = job.exam THEN Direct ELSE None
    BY Owning
  <2> HIDE DEF own
  <2> QED
    BY <1>1, <2>1, Inserting
<1>4. /\ offers \in [Question -> [Exam -> SUBSET job.lenders]]
      /\ \A q \in Question, e \in Exam : \A a \in offers[q][e] :
           q \in some /\ terms[a].borrower = e
      /\ \A a \in job.lenders, q \in some \cap Question, e \in Exam :
           terms[a].borrower = e /\ Covers(a, subject'[q]) => a \in offers[q][e]
  <2> HIDE DEF some
  <2> QED
    BY OffersLent
<1>5. job.lenders \in SUBSET Association
  BY <1>1 DEF Writing
<1>6. /\ lent(pick) \in Links
      /\ \A q \in Question, e \in Exam :
           IF offers[q][e] = {} THEN lent(pick)[q][e] = None
           ELSE lent(pick)[q][e] \in offers[q][e]
  <2> HIDE DEF offers
  <2> QED
    BY <1>4, <1>5, BorrowingOffers
<1> HIDE DEF lent, linked, offers
<1>7. /\ link' \in Links
      /\ \A q \in Question, e \in Exam :
           link'[q][e] = IF linked[q][e] = None THEN lent(pick)[q][e] ELSE linked[q][e]
  BY <1>2, <1>3, <1>6, Inserting
<1>8. \A e \in Exam : link[p][e] = None
  BY DEF LinksInv, NewUnlinked, WriteCommit
<1>9. ASSUME NEW q \in Question, NEW e \in Exam
      PROVE  lent(pick)[q][e] # None =>
               /\ lent(pick)[q][e] \in job.lenders /\ lent(pick)[q][e] \in Association
               /\ q \in some /\ terms[lent(pick)[q][e]].borrower = e
  BY <1>4, <1>5, <1>6
<1>10. \A q \in Question, e \in Exam :
         link'[q][e] # link[q][e] => link'[q][e] \in associations \cup {Direct, None}
  BY DEF WriteCommit, Referenced
<1>11. Direct # None /\ Direct \notin Association /\ None \notin Association
  BY LinksAssumption
<1>12. row'[p] = "live"
  BY DEF TypeOK, WriteCommit
<1>13. \A q \in Question, e \in Exam : row'[q] # "live" => lent(pick)[q][e] = None
  BY <1>9
<1>14. \A q \in Question, e \in Exam :
         lent(pick)[q][e] # None => row'[q] = "live" /\ origin'[q] = job.exam
  BY <1>9
<1>15. ASSUME NEW q \in Question, NEW e \in Exam, NEW a \in job.lenders,
              row'[q] = "live", origin'[q] = job.exam,
              terms[a].borrower = e, Covers(a, subject'[q])
       PROVE  link'[q][e] # None
  <2>1. q \in some \cap Question
    BY <1>15
  <2>2. a \in offers[q][e]
    BY <1>4, <1>15, <2>1
  <2>3. lent(pick)[q][e] \in Association
    BY <1>4, <1>5, <1>6, <2>2
  <2> QED
    BY <1>7, <1>11, <2>3
<1> HIDE DEF some
<1>16. ASSUME NEW q \in Question, NEW e \in Exam
       PROVE  /\ link'[q][e] = Direct => link[q][e] = Direct \/ (q = p /\ e = job.exam)
              /\ link'[q][e] \in Association =>
                   \/ link'[q][e] = link[q][e]
                   \/ /\ row'[q] = "live" /\ origin'[q] = job.exam
                      /\ link'[q][e] \in job.lenders \cap associations
                      /\ terms[link'[q][e]].borrower = e
              /\ link[q][e] = Direct => link'[q][e] = Direct
              /\ q = p /\ e = job.exam => link'[q][e] = Direct
              /\ row'[q] # "live" /\ link[q][e] = None => link'[q][e] = None
              /\ link[q][e] # None => link'[q][e] # None
  BY <1>3, <1>7, <1>8, <1>9, <1>10, <1>11, <1>12, <1>13, <1>14
<1> HIDE DEF job
<1> QED
  BY <1>7, <1>15, <1>16 DEF job

\* A rebuild's.
LEMMA RebuildLinks ==
  ASSUME TypeOK, LinksInv, NEW h \in Request, RebuildCommit(h)
  PROVE  LET job == request[h]
         IN /\ link' \in Links
            /\ \A q \in Question, e \in Exam :
                 /\ link'[q][e] = Direct => link[q][e] = Direct
                 /\ link'[q][e] \in Association =>
                      \/ link'[q][e] = link[q][e]
                      \/ /\ Lends(link'[q][e], q) /\ e = job.exam
                         /\ link'[q][e] \in job.lenders \cap associations
                 /\ link[q][e] = Direct /\ ~(q \in job.doomed /\ e = job.exam)
                      => link'[q][e] = Direct
                 /\ row[q] # "live" /\ link[q][e] = None => link'[q][e] = None
                 /\ e # job.exam /\ link[q][e] # None => link'[q][e] # None
                 /\ \A a \in job.lenders : Lends(a, q) => link'[q][job.exam] # None
<1> DEFINE job     == request[h]
           offers  == [q \in Question |-> [e \in Exam |->
                        {a \in job.lenders : e = job.exam /\ Lends(a, q)}]]
           cleared == [q \in Question |-> IF q \in job.doomed
                                          THEN [link[q] EXCEPT ![job.exam] = None] ELSE link[q]]
           lent(pick) == Borrowed(offers, pick)
<1>1. link \in Links /\ job \in Rebuild
  BY DEF TypeOK, RebuildCommit, Links
<1>2. PICK pick \in Picks(job.lenders) : link' = Insert(cleared, lent(pick))
  BY DEF RebuildCommit
<1>3. /\ cleared \in Links
      /\ \A q \in Question, e \in Exam :
           cleared[q][e] = IF q \in job.doomed /\ e = job.exam THEN None ELSE link[q][e]
  BY <1>1 DEF Links, Link
<1>4. /\ offers \in [Question -> [Exam -> SUBSET job.lenders]]
      /\ \A q \in Question, e \in Exam : \A a \in offers[q][e] : e = job.exam /\ Lends(a, q)
  OBVIOUS
<1>5. job.lenders \in SUBSET Association
  BY <1>1 DEF Rebuild
<1>6. /\ lent(pick) \in Links
      /\ \A q \in Question, e \in Exam :
           IF offers[q][e] = {} THEN lent(pick)[q][e] = None
           ELSE lent(pick)[q][e] \in offers[q][e]
  <2> HIDE DEF offers
  <2> QED
    BY <1>4, <1>5, BorrowingOffers
<1> HIDE DEF lent, cleared, offers
<1>7. /\ link' \in Links
      /\ \A q \in Question, e \in Exam :
           link'[q][e] = IF cleared[q][e] = None THEN lent(pick)[q][e] ELSE cleared[q][e]
  BY <1>2, <1>3, <1>6, Inserting
<1>8. ASSUME NEW q \in Question, NEW e \in Exam
      PROVE  lent(pick)[q][e] # None =>
               /\ lent(pick)[q][e] \in job.lenders /\ lent(pick)[q][e] \in Association
               /\ e = job.exam /\ Lends(lent(pick)[q][e], q)
  BY <1>4, <1>5, <1>6
<1>9. \A q \in Question, e \in Exam :
         link'[q][e] # link[q][e] => link'[q][e] \in associations \cup {Direct, None}
  BY DEF RebuildCommit, Referenced
<1>10. Direct # None /\ Direct \notin Association /\ None \notin Association
  BY LinksAssumption
<1>11. \A q \in Question, e \in Exam : link[q][e] = None => cleared[q][e] = None
  BY <1>3
<1>12. \A q \in Question : row[q] # "live" => \A e \in Exam : lent(pick)[q][e] = None
  BY <1>8 DEF Lends
<1>13. ASSUME NEW q \in Question, NEW a \in job.lenders, Lends(a, q)
       PROVE  link'[q][job.exam] # None
  <2>1. job.exam \in Exam
    BY <1>1 DEF Rebuild
  <2>2. a \in offers[q][job.exam]
    BY <1>13, <2>1 DEF offers
  <2>3. lent(pick)[q][job.exam] \in Association
    BY <1>4, <1>5, <1>6, <2>1, <2>2
  <2> QED
    BY <1>7, <1>10, <2>1, <2>3
<1>14. ASSUME NEW q \in Question, NEW e \in Exam
       PROVE  /\ link'[q][e] = Direct => link[q][e] = Direct
              /\ link'[q][e] \in Association =>
                   \/ link'[q][e] = link[q][e]
                   \/ /\ Lends(link'[q][e], q) /\ e = job.exam
                      /\ link'[q][e] \in job.lenders \cap associations
              /\ link[q][e] = Direct /\ ~(q \in job.doomed /\ e = job.exam)
                   => link'[q][e] = Direct
              /\ row[q] # "live" /\ link[q][e] = None => link'[q][e] = None
              /\ e # job.exam /\ link[q][e] # None => link'[q][e] # None
  BY <1>3, <1>7, <1>8, <1>9, <1>10, <1>11, <1>12
<1> HIDE DEF job
<1> QED
  BY <1>7, <1>13, <1>14 DEF job

-----------------------------------------------------------------------------
\* The initial state, and the steps

LEMMA SetupTyped ==
  ASSUME TypeOK
  PROVE  /\ setup \in Setup
         /\ setup.stock \subseteq Question
         /\ setup.exams \subseteq Exam
         /\ setup.subjects \subseteq Subject
         /\ setup.bonds \subseteq Association
  BY LinksAssumption DEF TypeOK, Setup

LEMMA InitLinks == Init => TypeOK /\ LinksInv
<1> SUFFICES ASSUME Init PROVE TypeOK /\ LinksInv
  OBVIOUS
<1>1. setup.exams \subseteq Exam
  BY LinksAssumption DEF Init, Setup
<1>2. TypeOK
  BY <1>1, LinksAssumption DEF Init, TypeOK, Row, Link
<1>3. LinksInv
  BY LinksAssumption DEF Init, LinksInv, LinksExplained, OwnMaterial, NewUnlinked,
                         OriginGave, WriterRight, RebuildRight
<1> QED
  BY <1>2, <1>3

\* Only what the links, the questions and the associations say matters to what
\* a link explains.
LEMMA LinksAlone ==
  ASSUME LinksInv, UNCHANGED <<row, origin, gave, link, terms, associations>>
  PROVE  (LinksExplained /\ OwnMaterial /\ NewUnlinked /\ OriginGave)'
  BY DEF LinksInv, LinksExplained, OwnMaterial, NewUnlinked, OriginGave

LEMMA IngestLoadStep ==
  ASSUME TypeOK, LinksInv, NEW w \in Writer, NEW d \in Document, IngestLoad(w, d)
  PROVE  TypeOK' /\ LinksInv'
<1> DEFINE job == [at |-> "loaded", doc |-> d, exam |-> docExam[d],
                   found |-> {}, kept |-> {}, dropped |-> {}, lenders |-> {}]
<1>1. job \in Writing
  BY DEF TypeOK, Writing
<1>2. writer' = [writer EXCEPT ![w] = job]
  BY DEF IngestLoad
<1>3. d # None
  BY LinksAssumption
<1>4. TypeOK'
  BY <1>1, <1>2 DEF TypeOK, IngestLoad, questions, borrowing
<1>5. \A x \in Writer : WriterRight(x)'
  BY <1>2, <1>3 DEF LinksInv, TypeOK, WriterRight, IngestLoad, questions, borrowing
<1>6. \A h \in Request : RebuildRight(h)'
  BY DEF LinksInv, RebuildRight, IngestLoad, questions, borrowing
<1>7. (LinksExplained /\ OwnMaterial /\ NewUnlinked /\ OriginGave)'
  BY LinksAlone DEF IngestLoad, questions, borrowing
<1> QED
  BY <1>4, <1>5, <1>6, <1>7 DEF LinksInv

LEMMA IngestReadStep ==
  ASSUME TypeOK, LinksInv, NEW w \in Writer, NEW kept \in SUBSET Question,
         NEW found \in SUBSET Question, IngestRead(w, kept, found)
  PROVE  TypeOK' /\ LinksInv'
<1> DEFINE own == {q \in Question : row[q] = "live" /\ document[q] = writer[w].doc}
           job == [writer[w] EXCEPT !.at = "linking", !.found = found, !.kept = kept,
                                    !.dropped = own \ kept,
                                    !.lenders = LendFrom(writer[w].exam)]
<1>1. writer[w] \in Writing
  BY DEF TypeOK, IngestRead
<1>2. LendFrom(writer[w].exam) \in SUBSET Association
  BY DEF TypeOK, LendFrom
<1>3. job \in Writing
  BY <1>1, <1>2 DEF Writing
<1>4. writer' = [writer EXCEPT ![w] = job]
  BY <1>1 DEF TypeOK, IngestRead, Writing
<1>5. UNCHANGED <<exams, docExam, row, origin, subject, document, gave, terms,
                  associations, enabled, link, request, setup>>
  BY DEF IngestRead, questions, borrowing
<1>6. \A q \in found \cup (own \ kept) : row[q] # "new"
  BY DEF IngestRead
<1>7. \A a \in LendFrom(writer[w].exam) :
        terms[a] # None /\ terms[a].source = writer[w].exam
  BY DEF TypeOK, LendFrom
<1>8. /\ job.doc = writer[w].doc /\ job.exam = writer[w].exam
      /\ job.found = found /\ job.dropped = own \ kept
      /\ job.lenders = LendFrom(writer[w].exam)
  BY <1>1 DEF Writing
<1>9. writer[w] # None
  BY DEF IngestRead
<1> HIDE DEF own, job
<1>10. TypeOK'
  BY <1>3, <1>4, <1>5 DEF TypeOK
<1>11. writer'[w] = job /\ \A x \in Writer \ {w} : writer'[x] = writer[x]
  BY <1>4 DEF TypeOK
<1>12. WriterRight(w)'
  BY <1>5, <1>6, <1>7, <1>8, <1>9, <1>11 DEF LinksInv, WriterRight
<1>13. \A x \in Writer \ {w} : WriterRight(x)'
  BY <1>5, <1>11 DEF LinksInv, WriterRight
<1>14. \A h \in Request : RebuildRight(h)'
  BY <1>5 DEF LinksInv, RebuildRight
<1>15. (LinksExplained /\ OwnMaterial /\ NewUnlinked /\ OriginGave)'
  BY <1>5, LinksAlone
<1> QED
  BY <1>10, <1>12, <1>13, <1>14, <1>15 DEF LinksInv

LEMMA WriteReadStep ==
  ASSUME TypeOK, LinksInv, NEW w \in Writer, NEW e \in Exam, WriteRead(w, e)
  PROVE  TypeOK' /\ LinksInv'
<1> DEFINE job == [at |-> "linking", doc |-> None, exam |-> e,
                   found |-> {}, kept |-> {}, dropped |-> {}, lenders |-> LendFrom(e)]
<1>1. LendFrom(e) \in SUBSET Association
  BY DEF TypeOK, LendFrom
<1>2. job \in Writing
  BY <1>1 DEF Writing
<1>3. writer' = [writer EXCEPT ![w] = job]
  BY DEF WriteRead
<1>4. TypeOK'
  BY <1>2, <1>3 DEF TypeOK, WriteRead, questions, borrowing
<1>5. \A a \in LendFrom(e) : terms[a] # None /\ terms[a].source = e
  BY DEF TypeOK, LendFrom
<1>6. e # None
  BY LinksAssumption
<1>7. WriterRight(w)'
  BY <1>3, <1>5, <1>6 DEF TypeOK, WriterRight, WriteRead, questions, borrowing
<1>8. \A x \in Writer \ {w} : WriterRight(x)'
  BY <1>3 DEF LinksInv, TypeOK, WriterRight, WriteRead, questions, borrowing
<1>9. \A h \in Request : RebuildRight(h)'
  BY DEF LinksInv, RebuildRight, WriteRead, questions, borrowing
<1>10. (LinksExplained /\ OwnMaterial /\ NewUnlinked /\ OriginGave)'
  BY LinksAlone DEF WriteRead, questions, borrowing
<1> QED
  BY <1>4, <1>7, <1>8, <1>9, <1>10 DEF LinksInv

LEMMA IngestCommitStep ==
  ASSUME TypeOK, LinksInv, NEW w \in Writer, NEW fresh \in SUBSET Question,
         NEW subjects \in [fresh -> setup.subjects], IngestCommit(w, fresh, subjects)
  PROVE  TypeOK' /\ LinksInv'
<1> DEFINE job  == writer[w]
           some == fresh \cup job.found
<1>1. job \in Writing /\ job # None
  BY DEF TypeOK, IngestCommit
<1>2. /\ \A q \in fresh : row[q] = "new"
      /\ row' = [q \in Question |-> IF q \in fresh THEN "live"
                                    ELSE IF q \in job.dropped THEN "gone" ELSE row[q]]
      /\ origin'  = [q \in Question |-> IF q \in fresh THEN job.exam ELSE origin[q]]
      /\ subject' = [q \in Question |-> IF q \in fresh THEN subjects[q] ELSE subject[q]]
      /\ document' = [q \in Question |-> IF q \in fresh THEN job.doc
                                         ELSE IF q \in job.kept THEN None ELSE document[q]]
      /\ gave' = [q \in Question |-> IF q \in some /\ job.exam # None
                                     THEN gave[q] \cup {job.exam} ELSE gave[q]]
      /\ writer' = [writer EXCEPT ![w] = None]
      /\ UNCHANGED <<exams, docExam, terms, associations, enabled, request, setup>>
  BY DEF IngestCommit, borrowing
<1>3. /\ link' \in Links
      /\ \A q \in Question, e \in Exam :
           /\ link'[q][e] = Direct =>
                link[q][e] = Direct \/ (q \in some /\ e = job.exam)
           /\ link'[q][e] \in Association =>
                \/ link'[q][e] = link[q][e]
                \/ /\ q \in some
                   /\ link'[q][e] \in job.lenders \cap associations
                   /\ terms[link'[q][e]].borrower = e
           /\ q \notin job.dropped /\ link[q][e] = Direct => link'[q][e] = Direct
           /\ q \in fresh /\ e = job.exam => link'[q][e] = Direct
           /\ q \notin some /\ link[q][e] = None => link'[q][e] = None
  BY IngestLinks
<1>4. \A q \in job.found \cup job.dropped : row[q] # "new"
  BY <1>1 DEF LinksInv, WriterRight
<1>5. \A a \in job.lenders : terms[a] # None /\ terms[a].source = job.exam
  BY <1>1 DEF LinksInv, WriterRight
<1>6. TypeOK'
  <2>1. row' \in [Question -> Row]
    BY <1>2 DEF TypeOK, Row
  <2>2. origin' \in [Question -> Exam \cup {None}] /\ gave' \in [Question -> SUBSET Exam]
    BY <1>1, <1>2 DEF TypeOK, Writing
  <2>3. subject' \in [Question -> Subject \cup {None}]
    BY <1>2, SetupTyped DEF TypeOK
  <2>4. document' \in [Question -> Document \cup {None}]
    BY <1>1, <1>2 DEF TypeOK, Writing
  <2>5. writer' \in [Writer -> Writing \cup {None}]
    BY <1>2 DEF TypeOK
  <2>6. \A q \in fresh : subject'[q] # None
    BY <1>2, SetupTyped, LinksAssumption DEF TypeOK
  <2>7. \A q \in Question : row'[q] = "new" <=> subject'[q] = None
    BY <1>2, <1>4, <2>6 DEF TypeOK
  <2> QED
    BY <1>2, <1>3, <2>1, <2>2, <2>3, <2>4, <2>5, <2>7 DEF TypeOK, Links
<1>7. LinksExplained'
  <2>1. \A a \in job.lenders \cap associations :
          terms[a].source = job.exam /\ job.exam \in Exam /\ job.exam # None
    BY <1>5, LinksAssumption DEF TypeOK, Terms
  <2>2. \A q \in Question : gave[q] \subseteq gave'[q]
    BY <1>2 DEF TypeOK
  <2>3. \A q \in some : job.exam # None => job.exam \in gave'[q]
    BY <1>1, <1>2 DEF TypeOK, Writing
  <2>4. ASSUME NEW q \in Question, NEW e \in Exam, link'[q][e] = Direct
        PROVE  e \in gave'[q]
    BY <1>3, <2>2, <2>3, <2>4, LinksAssumption DEF LinksInv, LinksExplained
  <2>5. ASSUME NEW q \in Question, NEW e \in Exam, link'[q][e] \in Association
        PROVE  /\ link'[q][e] \in associations /\ terms[link'[q][e]].borrower = e
               /\ terms[link'[q][e]].source \in gave'[q]
    <3>1. CASE link'[q][e] = link[q][e]
      BY <2>2, <2>5, <3>1 DEF LinksInv, LinksExplained
    <3>2. CASE link'[q][e] # link[q][e]
      BY <1>3, <2>1, <2>3, <2>5, <3>2
    <3> QED
      BY <3>1, <3>2
  <2> QED
    BY <1>2, <2>4, <2>5 DEF LinksExplained
<1>8. OwnMaterial'
  <2> SUFFICES ASSUME NEW q \in Question, row'[q] = "live", origin'[q] # None
               PROVE  link'[q][origin'[q]] = Direct
    BY DEF OwnMaterial
  <2>1. origin'[q] \in Exam
    BY <1>6 DEF TypeOK
  <2>2. CASE q \in fresh
    BY <1>2, <1>3, <2>1, <2>2
  <2>3. CASE q \notin fresh
    BY <1>2, <1>3, <2>1, <2>3 DEF LinksInv, OwnMaterial
  <2> QED
    BY <2>2, <2>3
<1>9. NewUnlinked'
  BY <1>2, <1>3, <1>4 DEF LinksInv, NewUnlinked
<1>10. OriginGave'
  BY <1>1, <1>2 DEF LinksInv, OriginGave, TypeOK, Writing
<1>11. \A x \in Writer : WriterRight(x)'
  <2>1. \A q \in Question : row[q] # "new" => row'[q] # "new"
    BY <1>2
  <2>2. \A x \in Writer : writer'[x] # None =>
          writer'[x] = writer[x] /\ writer[x] \in Writing
    BY <1>2 DEF TypeOK
  <2> QED
    BY <1>2, <2>1, <2>2 DEF LinksInv, WriterRight, Writing
<1>12. \A h \in Request : RebuildRight(h)'
  <2> SUFFICES ASSUME NEW h \in Request, request[h] # None
               PROVE  RebuildRight(h)'
    BY <1>2 DEF RebuildRight
  <2>1. \A q \in request[h].doomed : q \in Question /\ q \notin fresh
    BY <1>2 DEF TypeOK, Rebuild, LinksInv, RebuildRight
  <2> QED
    BY <1>2, <2>1 DEF LinksInv, RebuildRight
<1> QED
  BY <1>6, <1>7, <1>8, <1>9, <1>10, <1>11, <1>12 DEF LinksInv

LEMMA WriteCommitStep ==
  ASSUME TypeOK, LinksInv, NEW w \in Writer, NEW p \in Question,
         NEW s \in setup.subjects, WriteCommit(w, p, s)
  PROVE  TypeOK' /\ LinksInv'
<1> DEFINE job == writer[w]
<1>1. job \in Writing /\ job # None
  BY DEF TypeOK, WriteCommit
<1>2. /\ row[p] = "new"
      /\ row'     = [row EXCEPT ![p] = "live"]
      /\ origin'  = [origin EXCEPT ![p] = job.exam]
      /\ subject' = [subject EXCEPT ![p] = s]
      /\ gave'    = [gave EXCEPT ![p] = @ \cup {job.exam}]
      /\ writer'  = [writer EXCEPT ![w] = None]
      /\ UNCHANGED <<exams, docExam, document, terms, associations, enabled, request, setup>>
  BY DEF WriteCommit, borrowing
<1>3. /\ link' \in Links
      /\ \A q \in Question, e \in Exam :
           /\ link'[q][e] = Direct => link[q][e] = Direct \/ (q = p /\ e = job.exam)
           /\ link'[q][e] \in Association =>
                \/ link'[q][e] = link[q][e]
                \/ /\ row'[q] = "live" /\ origin'[q] = job.exam
                   /\ link'[q][e] \in job.lenders \cap associations
                   /\ terms[link'[q][e]].borrower = e
           /\ link[q][e] = Direct => link'[q][e] = Direct
           /\ q = p /\ e = job.exam => link'[q][e] = Direct
           /\ row'[q] # "live" /\ link[q][e] = None => link'[q][e] = None
  BY WriteLinks
<1>4. job.exam \in Exam /\ job.exam # None
  BY <1>1, LinksAssumption DEF LinksInv, WriterRight, Writing, WriteCommit
<1>5. \A a \in job.lenders : terms[a] # None /\ terms[a].source = job.exam
  BY <1>1 DEF LinksInv, WriterRight
<1>6. TypeOK'
  <2>1. s \in Subject /\ s # None
    BY SetupTyped, LinksAssumption
  <2>2. row' \in [Question -> Row]
    BY <1>2 DEF TypeOK, Row
  <2>3. \A q \in Question : row'[q] = "new" <=> subject'[q] = None
    BY <1>2, <2>1 DEF TypeOK
  <2> QED
    BY <1>2, <1>3, <1>4, <2>1, <2>2, <2>3 DEF TypeOK, Links
<1>7. OriginGave'
  BY <1>2, <1>4 DEF LinksInv, OriginGave, TypeOK
<1>8. LinksExplained'
  <2>1. \A q \in Question : gave[q] \subseteq gave'[q]
    BY <1>2 DEF TypeOK
  <2>2. job.exam \in gave'[p]
    BY <1>2 DEF TypeOK
  <2>3. ASSUME NEW q \in Question, NEW e \in Exam, link'[q][e] = Direct
        PROVE  e \in gave'[q]
    BY <1>3, <2>1, <2>2, <2>3 DEF LinksInv, LinksExplained
  <2>4. ASSUME NEW q \in Question, NEW e \in Exam, link'[q][e] \in Association
        PROVE  /\ link'[q][e] \in associations /\ terms[link'[q][e]].borrower = e
               /\ terms[link'[q][e]].source \in gave'[q]
    <3>1. CASE link'[q][e] = link[q][e]
      BY <2>1, <2>4, <3>1 DEF LinksInv, LinksExplained
    <3>2. CASE link'[q][e] # link[q][e]
      BY <1>3, <1>4, <1>5, <1>7, <2>4, <3>2 DEF OriginGave
    <3> QED
      BY <3>1, <3>2
  <2> QED
    BY <1>2, <2>3, <2>4 DEF LinksExplained
<1>9. OwnMaterial'
  <2> SUFFICES ASSUME NEW q \in Question, row'[q] = "live", origin'[q] # None
               PROVE  link'[q][origin'[q]] = Direct
    BY DEF OwnMaterial
  <2>1. origin'[q] \in Exam
    BY <1>6 DEF TypeOK
  <2> QED
    BY <1>2, <1>3, <2>1 DEF LinksInv, OwnMaterial, TypeOK
<1>10. NewUnlinked'
  BY <1>2, <1>3 DEF LinksInv, NewUnlinked, TypeOK
<1>11. \A x \in Writer : WriterRight(x)'
  <2>1. \A q \in Question : row[q] # "new" => row'[q] # "new"
    BY <1>2 DEF TypeOK
  <2>2. \A x \in Writer : writer'[x] # None =>
          writer'[x] = writer[x] /\ writer[x] \in Writing
    BY <1>2 DEF TypeOK
  <2> QED
    BY <1>2, <2>1, <2>2 DEF LinksInv, WriterRight, Writing
<1>12. \A h \in Request : RebuildRight(h)'
  <2> SUFFICES ASSUME NEW h \in Request, request[h] # None
               PROVE  RebuildRight(h)'
    BY <1>2 DEF RebuildRight
  <2>1. \A q \in request[h].doomed : q \in Question /\ q # p
    BY <1>2 DEF TypeOK, Rebuild, LinksInv, RebuildRight
  <2> QED
    BY <1>2, <2>1 DEF LinksInv, RebuildRight, TypeOK
<1> QED
  BY <1>6, <1>7, <1>8, <1>9, <1>10, <1>11, <1>12 DEF LinksInv

\* A step of a request that leaves the questions and the links alone.
LEMMA RequestStep ==
  ASSUME TypeOK, LinksInv, NEW h \in Request, NEW job \in Rebuild \cup {None},
         request' = [request EXCEPT ![h] = job],
         UNCHANGED <<row, origin, gave, link, writer>>,
         \A a \in Association : terms[a] # None => terms'[a] = terms[a],
         associations \subseteq associations',
         job # None =>
           /\ \A q \in job.doomed :
                row[q] # "new" /\ (row[q] = "live" => origin[q] # job.exam)
           /\ \A a \in job.lenders : terms[a] # None /\ terms[a].borrower = job.exam
  PROVE  LinksInv' /\ request' \in [Request -> Rebuild \cup {None}]
<1>1. request' \in [Request -> Rebuild \cup {None}]
  BY DEF TypeOK
<1>2. \A x \in Request : request'[x] = IF x = h THEN job ELSE request[x]
  BY DEF TypeOK
<1>3. (OwnMaterial /\ NewUnlinked /\ OriginGave)'
  BY DEF LinksInv, OwnMaterial, NewUnlinked, OriginGave
<1>4. LinksExplained'
  BY DEF LinksInv, LinksExplained, TypeOK
<1>5. \A w \in Writer : WriterRight(w)'
  BY DEF LinksInv, WriterRight, TypeOK, Writing
<1>6. \A x \in Request : RebuildRight(x)'
  <2>1. \A x \in Request : request'[x] # None => request'[x].lenders \subseteq Association
    BY <1>1 DEF Rebuild
  <2> QED
    BY <1>2, <2>1 DEF LinksInv, RebuildRight
<1> QED
  BY <1>1, <1>3, <1>4, <1>5, <1>6 DEF LinksInv

LEMMA CreateAssociationStep ==
  ASSUME TypeOK, LinksInv, NEW h \in Request, NEW a \in Association, NEW t \in Terms,
         NEW on \in BOOLEAN, CreateAssociation(h, a, t, on)
  PROVE  TypeOK' /\ LinksInv'
<1>1. Pending(t.borrower) \in Rebuild /\ Pending(t.borrower).doomed = {}
      /\ Pending(t.borrower).lenders = {}
  BY DEF Pending, Rebuild, Terms
<1>2. /\ terms[a] = None /\ terms' = [terms EXCEPT ![a] = t]
      /\ associations' = associations \cup {a}
      /\ enabled' = IF on THEN enabled \cup {a} ELSE enabled
      /\ request' = [request EXCEPT ![h] = Pending(t.borrower)]
      /\ UNCHANGED <<exams, docExam, row, origin, subject, document, gave, link, writer, setup>>
  BY DEF CreateAssociation, questions
<1>3. LinksInv' /\ request' \in [Request -> Rebuild \cup {None}]
  <2> DEFINE job == Pending(t.borrower)
  <2> HIDE DEF job
  <2>1. \A x \in Association : terms[x] # None => terms'[x] = terms[x]
    BY <1>2 DEF TypeOK
  <2>2. job \in Rebuild /\ job.doomed = {} /\ job.lenders = {}
    BY <1>1 DEF job
  <2>3. request' = [request EXCEPT ![h] = job]
    BY <1>2 DEF job
  <2> QED
    BY <1>2, <2>1, <2>2, <2>3, RequestStep
<1>4. t # None
  BY LinksAssumption
<1> QED
  BY <1>2, <1>3, <1>4 DEF TypeOK

LEMMA UpdateAssociationStep ==
  ASSUME TypeOK, LinksInv, NEW h \in Request, NEW a \in Association,
         NEW on \in BOOLEAN, UpdateAssociation(h, a, on)
  PROVE  TypeOK' /\ LinksInv'
<1> DEFINE job == Pending(terms[a].borrower)
<1>1. a \in associations /\ terms[a] \in Terms
  BY DEF TypeOK, UpdateAssociation
<1>2. job \in Rebuild /\ job.doomed = {} /\ job.lenders = {}
  BY <1>1 DEF Pending, Rebuild, Terms
<1>3. /\ enabled' = IF on THEN enabled \cup {a} ELSE enabled \ {a}
      /\ request' = [request EXCEPT ![h] = job]
      /\ UNCHANGED <<exams, docExam, row, origin, subject, document, gave, terms,
                     associations, link, writer, setup>>
  BY DEF UpdateAssociation, questions
<1> HIDE DEF job
<1>4. LinksInv' /\ request' \in [Request -> Rebuild \cup {None}]
  BY <1>2, <1>3, RequestStep
<1> QED
  BY <1>1, <1>3, <1>4 DEF TypeOK

LEMMA RebuildStartStep ==
  ASSUME TypeOK, LinksInv, NEW h \in Request, RebuildStart(h)
  PROVE  TypeOK' /\ LinksInv'
<1> DEFINE e   == request[h].exam
           job == [at |-> "rebuilding", exam |-> e, doomed |-> Doomed(e),
                   lenders |-> BorrowedBy(e)]
<1>1. request[h] \in Rebuild /\ e \in Exam
  BY DEF TypeOK, RebuildStart, Rebuild
<1>2. job \in Rebuild
  BY <1>1 DEF Rebuild, Doomed, BorrowedBy, TypeOK
<1>3. \A q \in Doomed(e) : row[q] # "new" /\ (row[q] = "live" => origin[q] # e)
  <2> SUFFICES ASSUME NEW q \in Question, link[q][e] \in Association
               PROVE  row[q] # "new" /\ (row[q] = "live" => origin[q] # e)
    BY DEF Doomed
  <2>1. link[q][e] # None /\ link[q][e] # Direct
    BY LinksAssumption
  <2> QED
    BY <1>1, <2>1, LinksAssumption DEF LinksInv, NewUnlinked, OwnMaterial
<1>4. \A a \in BorrowedBy(e) : terms[a] # None /\ terms[a].borrower = e
  BY DEF BorrowedBy, TypeOK
<1>5. /\ request' = [request EXCEPT ![h] = job]
      /\ UNCHANGED <<exams, docExam, row, origin, subject, document, gave, terms,
                     associations, enabled, link, writer, setup>>
  BY DEF RebuildStart, questions, borrowing
<1>6. LinksInv' /\ request' \in [Request -> Rebuild \cup {None}]
  <2>1. job.doomed = Doomed(e) /\ job.lenders = BorrowedBy(e) /\ job.exam = e
    OBVIOUS
  <2> HIDE DEF job, e
  <2> QED
    BY <1>2, <1>3, <1>4, <1>5, <2>1, RequestStep
<1> QED
  BY <1>5, <1>6 DEF TypeOK

LEMMA RebuildFailsStep ==
  ASSUME TypeOK, LinksInv, NEW h \in Request, RebuildFails(h)
  PROVE  TypeOK' /\ LinksInv'
<1>1. /\ request' = [request EXCEPT ![h] = None]
      /\ UNCHANGED <<exams, docExam, row, origin, subject, document, gave, terms,
                     associations, enabled, link, writer, setup>>
  BY DEF RebuildFails, questions, borrowing
<1>2. LinksInv' /\ request' \in [Request -> Rebuild \cup {None}]
  BY <1>1, RequestStep
<1> QED
  BY <1>1, <1>2 DEF TypeOK

LEMMA RebuildCommitStep ==
  ASSUME TypeOK, LinksInv, NEW h \in Request, RebuildCommit(h)
  PROVE  TypeOK' /\ LinksInv'
<1> DEFINE job == request[h]
<1>1. job \in Rebuild /\ job # None
  BY DEF TypeOK, RebuildCommit
<1>2. /\ request' = [request EXCEPT ![h] = None]
      /\ UNCHANGED <<exams, docExam, row, origin, subject, document, gave, terms,
                     associations, enabled, writer, setup>>
  BY DEF RebuildCommit, questions, borrowing
<1>3. /\ link' \in Links
      /\ \A q \in Question, e \in Exam :
           /\ link'[q][e] = Direct => link[q][e] = Direct
           /\ link'[q][e] \in Association =>
                \/ link'[q][e] = link[q][e]
                \/ /\ Lends(link'[q][e], q) /\ e = job.exam
                   /\ link'[q][e] \in job.lenders \cap associations
           /\ link[q][e] = Direct /\ ~(q \in job.doomed /\ e = job.exam)
                => link'[q][e] = Direct
           /\ row[q] # "live" /\ link[q][e] = None => link'[q][e] = None
  BY RebuildLinks
<1>4. TypeOK'
  BY <1>2, <1>3 DEF TypeOK, Links
<1>5. LinksExplained'
  <2>1. ASSUME NEW q \in Question, NEW e \in Exam, link'[q][e] \in Association
        PROVE  /\ link'[q][e] \in associations /\ terms[link'[q][e]].borrower = e
               /\ terms[link'[q][e]].source \in gave[q]
    <3>1. CASE link'[q][e] = link[q][e]
      BY <2>1, <3>1 DEF LinksInv, LinksExplained
    <3>2. CASE link'[q][e] # link[q][e]
      <4> DEFINE a == link'[q][e]
      <4>1. a \in associations /\ a \in job.lenders /\ Lends(a, q) /\ e = job.exam
        BY <1>3, <2>1, <3>2
      <4>2. terms[a] # None /\ terms[a].borrower = e
        BY <1>1, <4>1 DEF LinksInv, RebuildRight
      <4>3. terms[a].source # None
        BY <2>1, <4>2, LinksAssumption DEF TypeOK, Terms
      <4> QED
        BY <4>1, <4>2, <4>3 DEF Lends, LinksInv, OriginGave
    <3> QED
      BY <3>1, <3>2
  <2> QED
    BY <1>2, <1>3, <2>1 DEF LinksInv, LinksExplained
<1>6. OwnMaterial'
  <2> SUFFICES ASSUME NEW q \in Question, row[q] = "live", origin[q] # None
               PROVE  link'[q][origin[q]] = Direct
    BY <1>2 DEF OwnMaterial
  <2>1. ~(q \in job.doomed /\ origin[q] = job.exam)
    BY <1>1 DEF LinksInv, RebuildRight
  <2> QED
    BY <1>3, <2>1 DEF LinksInv, OwnMaterial, TypeOK
<1>7. NewUnlinked' /\ OriginGave'
  BY <1>2, <1>3 DEF LinksInv, NewUnlinked, OriginGave
<1>8. \A w \in Writer : WriterRight(w)'
  BY <1>2 DEF LinksInv, WriterRight
<1>9. \A x \in Request : RebuildRight(x)'
  <2>1. \A x \in Request : request'[x] # None => request'[x] = request[x]
    BY <1>2 DEF TypeOK
  <2> QED
    BY <1>2, <2>1 DEF LinksInv, RebuildRight
<1> QED
  BY <1>4, <1>5, <1>6, <1>7, <1>8, <1>9 DEF LinksInv

LEMMA ClassifyStep ==
  ASSUME TypeOK, LinksInv, NEW q \in Question, NEW s \in setup.subjects, Classify(q, s)
  PROVE  TypeOK' /\ LinksInv'
<1>1. s \in Subject /\ s # None
  BY SetupTyped, LinksAssumption
<1>2. TypeOK'
  BY <1>1 DEF TypeOK, Classify, borrowing
<1>3. (LinksExplained /\ OwnMaterial /\ NewUnlinked /\ OriginGave)'
  BY LinksAlone DEF Classify, borrowing
<1>4. \A w \in Writer : WriterRight(w)'
  BY DEF LinksInv, WriterRight, Classify, borrowing
<1>5. \A h \in Request : RebuildRight(h)'
  BY DEF LinksInv, RebuildRight, Classify, borrowing
<1> QED
  BY <1>2, <1>3, <1>4, <1>5 DEF LinksInv

LEMMA DeleteQuestionStep ==
  ASSUME TypeOK, LinksInv, NEW p \in Question, DeleteQuestion(p)
  PROVE  TypeOK' /\ LinksInv'
<1>1. /\ row[p] = "live" /\ row' = [row EXCEPT ![p] = "deleted"]
      /\ link' = [link EXCEPT ![p] = [e \in Exam |-> None]]
      /\ UNCHANGED <<exams, docExam, origin, subject, document, gave, terms, associations,
                     enabled, writer, request, setup>>
  BY DEF DeleteQuestion, borrowing
<1>2. /\ \A q \in Question : row'[q] = IF q = p THEN "deleted" ELSE row[q]
      /\ \A q \in Question, e \in Exam : link'[q][e] = IF q = p THEN None ELSE link[q][e]
      /\ link' \in [Question -> [Exam -> Link]]
  BY <1>1 DEF TypeOK, Link
<1>3. TypeOK'
  BY <1>1, <1>2 DEF TypeOK, Row
<1>4. LinksExplained'
  BY <1>1, <1>2, LinksAssumption DEF LinksInv, LinksExplained
<1>5. OwnMaterial'
  BY <1>1, <1>2 DEF LinksInv, OwnMaterial, TypeOK
<1>6. NewUnlinked' /\ OriginGave'
  BY <1>1, <1>2 DEF LinksInv, NewUnlinked, OriginGave
<1>7. \A w \in Writer : WriterRight(w)'
  BY <1>1, <1>2 DEF LinksInv, WriterRight, TypeOK, Writing
<1>8. \A h \in Request : RebuildRight(h)'
  BY <1>1, <1>2 DEF LinksInv, RebuildRight, TypeOK, Rebuild
<1> QED
  BY <1>3, <1>4, <1>5, <1>6, <1>7, <1>8 DEF LinksInv

LEMMA UpdateDocumentStep ==
  ASSUME TypeOK, LinksInv, NEW d \in Document, NEW e, UpdateDocument(d, e)
  PROVE  TypeOK' /\ LinksInv'
<1>1. TypeOK'
  BY DEF TypeOK, UpdateDocument, questions, borrowing
<1>2. (LinksExplained /\ OwnMaterial /\ NewUnlinked /\ OriginGave)'
  BY LinksAlone DEF UpdateDocument, questions, borrowing
<1>3. \A w \in Writer : WriterRight(w)'
  BY DEF LinksInv, WriterRight, UpdateDocument, questions, borrowing
<1>4. \A h \in Request : RebuildRight(h)'
  BY DEF LinksInv, RebuildRight, UpdateDocument, questions, borrowing
<1> QED
  BY <1>1, <1>2, <1>3, <1>4 DEF LinksInv

LEMMA DeleteAssociationStep ==
  ASSUME TypeOK, LinksInv, NEW a \in Association, DeleteAssociation(a)
  PROVE  TypeOK' /\ LinksInv'
<1>1. /\ \A q \in Question, e \in Exam : link[q][e] # a
      /\ associations' = associations \ {a} /\ enabled' = enabled \ {a}
      /\ UNCHANGED <<exams, docExam, row, origin, subject, document, gave, terms, link,
                     writer, request, setup>>
  BY DEF DeleteAssociation, questions
<1>2. TypeOK'
  BY <1>1 DEF TypeOK
<1>3. LinksExplained'
  BY <1>1 DEF LinksInv, LinksExplained
<1>4. (OwnMaterial /\ NewUnlinked /\ OriginGave)'
  BY <1>1 DEF LinksInv, OwnMaterial, NewUnlinked, OriginGave
<1>5. \A w \in Writer : WriterRight(w)'
  BY <1>1 DEF LinksInv, WriterRight
<1>6. \A h \in Request : RebuildRight(h)'
  BY <1>1 DEF LinksInv, RebuildRight
<1> QED
  BY <1>2, <1>3, <1>4, <1>5, <1>6 DEF LinksInv

LEMMA DeleteExamStep ==
  ASSUME TypeOK, LinksInv, NEW x \in Exam, DeleteExam(x)
  PROVE  TypeOK' /\ LinksInv'
<1> DEFINE bonds == {a \in associations : x \in {terms[a].borrower, terms[a].source}}
<1>1. /\ link' = [q \in Question |-> [link[q] EXCEPT ![x] = None]]
      /\ associations' = associations \ bonds /\ enabled' = enabled \ bonds
      /\ docExam' = [d \in Document |-> IF docExam[d] = x THEN None ELSE docExam[d]]
      /\ origin'  = [q \in Question |-> IF origin[q] = x THEN None ELSE origin[q]]
      /\ exams' = exams \ {x}
      /\ UNCHANGED <<row, subject, document, gave, terms, writer, request, setup>>
  BY DEF DeleteExam
<1>2. /\ \A q \in Question, e \in Exam : link'[q][e] = IF e = x THEN None ELSE link[q][e]
      /\ link' \in [Question -> [Exam -> Link]]
  BY <1>1 DEF TypeOK, Link
<1>3. \A q \in Question, e \in Exam : link'[q][e] \notin bonds
  BY <1>1 DEF DeleteExam
<1>4. TypeOK'
  BY <1>1, <1>2 DEF TypeOK
<1>5. LinksExplained'
  BY <1>1, <1>2, <1>3, LinksAssumption DEF LinksInv, LinksExplained
<1>6. OwnMaterial'
  BY <1>1, <1>2 DEF LinksInv, OwnMaterial, TypeOK
<1>7. NewUnlinked' /\ OriginGave'
  BY <1>1, <1>2 DEF LinksInv, NewUnlinked, OriginGave
<1>8. \A w \in Writer : WriterRight(w)'
  BY <1>1 DEF LinksInv, WriterRight
<1>9. \A h \in Request : RebuildRight(h)'
  <2> SUFFICES ASSUME NEW h \in Request, request[h] # None
               PROVE  RebuildRight(h)'
    BY <1>1 DEF RebuildRight
  <2>1. request[h].exam # None /\ request[h].doomed \subseteq Question
    BY LinksAssumption DEF TypeOK, Rebuild
  <2> QED
    BY <1>1, <2>1 DEF LinksInv, RebuildRight
<1> QED
  BY <1>4, <1>5, <1>6, <1>7, <1>8, <1>9 DEF LinksInv

LEMMA WriterFailsStep ==
  ASSUME TypeOK, LinksInv, NEW w \in Writer, WriterFails(w)
  PROVE  TypeOK' /\ LinksInv'
<1>1. TypeOK'
  BY DEF TypeOK, WriterFails, questions, borrowing
<1>2. (LinksExplained /\ OwnMaterial /\ NewUnlinked /\ OriginGave)'
  BY LinksAlone DEF WriterFails, questions, borrowing
<1>3. \A x \in Writer : WriterRight(x)'
  BY DEF LinksInv, TypeOK, WriterRight, WriterFails, questions, borrowing
<1>4. \A h \in Request : RebuildRight(h)'
  BY DEF LinksInv, RebuildRight, WriterFails, questions, borrowing
<1> QED
  BY <1>1, <1>2, <1>3, <1>4 DEF LinksInv

-----------------------------------------------------------------------------
\* Together

LEMMA WriteStep ==
  ASSUME TypeOK, LinksInv, NEW w \in Writer, Write(w)
  PROVE  TypeOK' /\ LinksInv'
<1>1. CASE \E d \in Document : IngestLoad(w, d)
  BY <1>1, IngestLoadStep
<1>2. CASE \E kept, found \in SUBSET Question : IngestRead(w, kept, found)
  BY <1>2, IngestReadStep
<1>3. CASE \E fresh \in SUBSET setup.stock :
             \E subjects \in [fresh -> setup.subjects] : IngestCommit(w, fresh, subjects)
  BY <1>3, SetupTyped, IngestCommitStep
<1>4. CASE \E e \in setup.exams : WriteRead(w, e)
  BY <1>4, SetupTyped, WriteReadStep
<1>5. CASE \E q \in setup.stock, s \in setup.subjects : WriteCommit(w, q, s)
  BY <1>5, SetupTyped, WriteCommitStep
<1>6. CASE WriterFails(w)
  BY <1>6, WriterFailsStep
<1> QED
  BY <1>1, <1>2, <1>3, <1>4, <1>5, <1>6 DEF Write

LEMMA AssociateStep ==
  ASSUME TypeOK, LinksInv, NEW h \in Request, Associate(h)
  PROVE  TypeOK' /\ LinksInv'
<1>1. ASSUME NEW a \in setup.bonds, NEW on \in BOOLEAN, NEW e \in setup.exams,
             NEW x \in setup.exams, NEW s \in setup.subjects \cup {None},
             CreateAssociation(h, a, [borrower |-> e, source |-> x, subject |-> s], on)
      PROVE  TypeOK' /\ LinksInv'
  <2>1. [borrower |-> e, source |-> x, subject |-> s] \in Terms /\ a \in Association
    BY SetupTyped DEF Terms
  <2> QED
    BY <1>1, <2>1, CreateAssociationStep
<1>2. CASE \E a \in Association, on \in BOOLEAN : UpdateAssociation(h, a, on)
  BY <1>2, UpdateAssociationStep
<1>3. CASE RebuildStart(h)
  BY <1>3, RebuildStartStep
<1>4. CASE RebuildCommit(h)
  BY <1>4, RebuildCommitStep
<1>5. CASE RebuildFails(h)
  BY <1>5, RebuildFailsStep
<1> QED
  BY <1>1, <1>2, <1>3, <1>4, <1>5 DEF Associate

LEMMA EditStep ==
  ASSUME TypeOK, LinksInv, Edit
  PROVE  TypeOK' /\ LinksInv'
<1>1. CASE \E q \in Question, s \in setup.subjects : Classify(q, s)
  BY <1>1, ClassifyStep
<1>2. CASE \E q \in Question : DeleteQuestion(q)
  BY <1>2, DeleteQuestionStep
<1>3. CASE \E d \in Document, e \in setup.exams \cup {None} : UpdateDocument(d, e)
  BY <1>3, UpdateDocumentStep
<1>4. CASE \E a \in Association : DeleteAssociation(a)
  BY <1>4, DeleteAssociationStep
<1>5. CASE \E e \in setup.exams : DeleteExam(e)
  BY <1>5, SetupTyped, DeleteExamStep
<1> QED
  BY <1>1, <1>2, <1>3, <1>4, <1>5 DEF Edit

\* The inductive invariant: in every reachable state the variables have their
\* types, links are explained, and writers and rebuilds remember what is so.
THEOREM LinksInvariant == Spec => [](TypeOK /\ LinksInv)
<1>1. TypeOK /\ LinksInv /\ [Next]_vars => (TypeOK /\ LinksInv)'
  <2> SUFFICES ASSUME TypeOK, LinksInv, [Next]_vars PROVE TypeOK' /\ LinksInv'
    OBVIOUS
  <2>1. CASE \E w \in Writer : Write(w)
    BY <2>1, WriteStep
  <2>2. CASE \E h \in Request : Associate(h)
    BY <2>2, AssociateStep
  <2>3. CASE Edit
    BY <2>3, EditStep
  <2>4. CASE UNCHANGED vars
    BY <2>4 DEF vars, questions, borrowing, TypeOK, LinksInv, LinksExplained, OwnMaterial,
                NewUnlinked, OriginGave, WriterRight, RebuildRight
  <2> QED
    BY <2>1, <2>2, <2>3, <2>4 DEF Next
<1> QED
  BY InitLinks, <1>1, PTL DEF Spec

-----------------------------------------------------------------------------
\* Where clients wait: each step leaves one writer or request at work, with
\* lenders that are still right, and every offer linked or about to be

WaitingState == Calm /\ Alone /\ LendersNow /\ KeptUp

\* A step that leaves questions, associations and links keeps what is kept up.
LEMMA StillKeptUp ==
  ASSUME KeptUp, UNCHANGED <<row, origin, subject, terms, enabled, link>>,
         \A e \in Exam : Due(e) => Due(e)', TypeOK
  PROVE  KeptUp'
<1>1. \A a \in enabled : terms[a].borrower \in Exam
  BY LinksAssumption DEF TypeOK, Terms
<1> QED
  BY <1>1 DEF KeptUp, Lends, Covers

LEMMA WriterStartsWaiting ==
  ASSUME TypeOK, WaitingState, Idle, NEW w \in Writer, NEW job \in Writing,
         job.at = "linking" => job.lenders = LendFrom(job.exam),
         writer' = [writer EXCEPT ![w] = job],
         UNCHANGED <<row, origin, subject, terms, enabled, link, request, setup>>
  PROVE  WaitingState'
<1>1. \A x \in Writer : writer'[x] = IF x = w THEN job ELSE None
  BY DEF TypeOK, Idle
<1>2. \A h \in Request : request'[h] = None
  BY DEF Idle
<1>3. Alone'
  BY <1>1, <1>2 DEF Alone
<1>4. LendersNow'
  BY <1>1, <1>2 DEF LendersNow, LendFrom
<1>5. KeptUp'
  BY StillKeptUp DEF WaitingState, Due
<1> QED
  BY <1>3, <1>4, <1>5 DEF WaitingState, Calm, Happens

LEMMA IngestLoadWaiting ==
  ASSUME TypeOK, WaitingState, NEW w \in Writer, NEW d \in Document, IngestLoad(w, d)
  PROVE  WaitingState'
<1> DEFINE job == [at |-> "loaded", doc |-> d, exam |-> docExam[d],
                   found |-> {}, kept |-> {}, dropped |-> {}, lenders |-> {}]
<1>1. job \in Writing /\ job.at # "linking"
  BY DEF TypeOK, Writing
<1>2. Idle
  BY DEF IngestLoad, Ready, WaitingState, Calm
<1>3. /\ writer' = [writer EXCEPT ![w] = job]
      /\ UNCHANGED <<row, origin, subject, terms, enabled, link, request, setup>>
  BY DEF IngestLoad, questions, borrowing
<1> HIDE DEF job
<1> QED
  BY <1>1, <1>2, <1>3, WriterStartsWaiting

LEMMA WriteReadWaiting ==
  ASSUME TypeOK, WaitingState, NEW w \in Writer, NEW e \in Exam, WriteRead(w, e)
  PROVE  WaitingState'
<1> DEFINE job == [at |-> "linking", doc |-> None, exam |-> e,
                   found |-> {}, kept |-> {}, dropped |-> {}, lenders |-> LendFrom(e)]
<1>1. job \in Writing /\ job.lenders = LendFrom(job.exam)
  BY DEF TypeOK, Writing, LendFrom
<1>2. Idle
  BY DEF WriteRead, Ready, WaitingState, Calm
<1>3. /\ writer' = [writer EXCEPT ![w] = job]
      /\ UNCHANGED <<row, origin, subject, terms, enabled, link, request, setup>>
  BY DEF WriteRead, questions, borrowing
<1> HIDE DEF job
<1> QED
  BY <1>1, <1>2, <1>3, WriterStartsWaiting

LEMMA IngestReadWaiting ==
  ASSUME TypeOK, WaitingState, NEW w \in Writer, NEW kept \in SUBSET Question,
         NEW found \in SUBSET Question, IngestRead(w, kept, found)
  PROVE  WaitingState'
<1>1. writer[w] \in Writing /\ writer[w] # None
  BY DEF TypeOK, IngestRead
<1>2. /\ \A x \in Writer : x # w => writer'[x] = writer[x]
      /\ writer'[w].lenders = LendFrom(writer[w].exam)
      /\ writer'[w].exam = writer[w].exam
      /\ UNCHANGED <<row, origin, subject, terms, enabled, link, request, setup>>
  BY <1>1 DEF TypeOK, IngestRead, questions, borrowing, Writing
<1>3. Alone'
  BY <1>1, <1>2 DEF WaitingState, Alone
<1>4. LendersNow'
  BY <1>2 DEF WaitingState, LendersNow, LendFrom, BorrowedBy
<1>5. KeptUp'
  BY <1>2, StillKeptUp DEF WaitingState, Due
<1> QED
  BY <1>2, <1>3, <1>4, <1>5 DEF WaitingState, Calm, Happens

\* Of an ingest's questions, the fresh ones come from its document's exam, so
\* its lenders are all who lend them.
LEMMA IngestCommitWaiting ==
  ASSUME TypeOK, LinksInv, WaitingState, NEW w \in Writer, NEW fresh \in SUBSET Question,
         NEW subjects \in [fresh -> setup.subjects], IngestCommit(w, fresh, subjects)
  PROVE  WaitingState'
<1> DEFINE job  == writer[w]
           some == fresh \cup job.found
<1>1. job \in Writing /\ job # None /\ job.at = "linking"
  BY DEF TypeOK, IngestCommit
<1>2. /\ \A q \in Question : row'[q] = IF q \in fresh THEN "live"
                                     ELSE IF q \in job.dropped THEN "gone" ELSE row[q]
      /\ \A q \in Question : origin'[q] = IF q \in fresh THEN job.exam ELSE origin[q]
      /\ \A q \in Question \ fresh : subject'[q] = subject[q]
      /\ writer' = [writer EXCEPT ![w] = None]
      /\ UNCHANGED <<terms, enabled, request, setup>>
  BY DEF IngestCommit, borrowing
<1>3. \A q \in Question, e \in Exam :
        /\ q \notin job.dropped /\ link[q][e] # None => link'[q][e] # None
        /\ \A a \in job.lenders :
             q \in some /\ terms[a].borrower = e /\ Covers(a, subject'[q])
               => link'[q][e] # None
  BY IngestLinks
<1>4. job.lenders = LendFrom(job.exam) /\ \A h \in Request : request[h] = None
  BY <1>1 DEF WaitingState, LendersNow, Alone
<1>5. \A x \in Writer : writer'[x] = IF x = w THEN None ELSE writer[x]
  BY <1>2 DEF TypeOK
<1>6. Alone'
  BY <1>2, <1>5 DEF WaitingState, Alone
<1>7. LendersNow'
  BY <1>2, <1>5 DEF WaitingState, LendersNow, LendFrom, BorrowedBy
<1>8. KeptUp'
  <2> SUFFICES ASSUME NEW a \in enabled, NEW q \in Question, Lends(a, q)'
               PROVE  link'[q][terms[a].borrower] # None
    BY <1>2 DEF KeptUp
  <2>1. terms[a].borrower \in Exam
    BY LinksAssumption DEF TypeOK, Terms
  <2>2. /\ row'[q] = "live" /\ origin'[q] = terms[a].source
        /\ Covers(a, subject'[q])
    BY <1>2 DEF Lends, Covers
  <2>3. CASE q \in fresh
    <3>1. a \in job.lenders
      BY <1>2, <1>4, <2>2, <2>3 DEF LendFrom
    <3> QED
      BY <1>3, <2>1, <2>2, <2>3, <3>1
  <2>4. CASE q \notin fresh
    <3>1. q \notin job.dropped /\ Lends(a, q)
      BY <1>2, <2>2, <2>4 DEF Lends
    <3>2. link[q][terms[a].borrower] # None
      BY <1>4, <3>1 DEF WaitingState, KeptUp, Due
    <3> QED
      BY <1>3, <2>1, <3>1, <3>2
  <2> QED
    BY <2>3, <2>4
<1> QED
  BY <1>2, <1>6, <1>7, <1>8 DEF WaitingState, Calm, Happens

LEMMA WriteCommitWaiting ==
  ASSUME TypeOK, LinksInv, WaitingState, NEW w \in Writer, NEW p \in Question, NEW s,
         WriteCommit(w, p, s)
  PROVE  WaitingState'
<1> DEFINE job == writer[w]
<1>1. job \in Writing /\ job # None /\ job.at = "linking"
  BY DEF TypeOK, WriteCommit
<1>2. /\ \A q \in Question \ {p} : /\ row'[q] = row[q] /\ origin'[q] = origin[q]
                                    /\ subject'[q] = subject[q]
      /\ origin'[p] = job.exam
      /\ writer' = [writer EXCEPT ![w] = None]
      /\ UNCHANGED <<terms, enabled, request, setup>>
  BY DEF TypeOK, WriteCommit, borrowing
<1>3. \A q \in Question, e \in Exam :
        /\ link[q][e] # None => link'[q][e] # None
        /\ \A a \in job.lenders :
             /\ row'[q] = "live" /\ origin'[q] = job.exam
             /\ terms[a].borrower = e /\ Covers(a, subject'[q])
             => link'[q][e] # None
  BY WriteLinks
<1>4. job.lenders = LendFrom(job.exam) /\ \A h \in Request : request[h] = None
  BY <1>1 DEF WaitingState, LendersNow, Alone
<1>5. \A x \in Writer : writer'[x] = IF x = w THEN None ELSE writer[x]
  BY <1>2 DEF TypeOK
<1>6. Alone'
  BY <1>2, <1>5 DEF WaitingState, Alone
<1>7. LendersNow'
  BY <1>2, <1>5 DEF WaitingState, LendersNow, LendFrom, BorrowedBy
<1>8. KeptUp'
  <2> SUFFICES ASSUME NEW a \in enabled, NEW q \in Question, Lends(a, q)'
               PROVE  link'[q][terms[a].borrower] # None
    BY <1>2 DEF KeptUp
  <2>1. terms[a].borrower \in Exam
    BY LinksAssumption DEF TypeOK, Terms
  <2>2. /\ row'[q] = "live" /\ origin'[q] = terms[a].source
        /\ Covers(a, subject'[q])
    BY <1>2 DEF Lends, Covers
  <2>3. CASE q = p
    <3>1. a \in job.lenders
      BY <1>2, <1>4, <2>2, <2>3 DEF LendFrom
    <3> QED
      BY <1>2, <1>3, <2>1, <2>2, <2>3, <3>1
  <2>4. CASE q # p
    <3>1. Lends(a, q)
      BY <1>2, <2>2, <2>4 DEF Lends
    <3>2. link[q][terms[a].borrower] # None
      BY <1>4, <3>1 DEF WaitingState, KeptUp, Due
    <3> QED
      BY <1>3, <2>1, <3>2
  <2> QED
    BY <2>3, <2>4
<1> QED
  BY <1>2, <1>6, <1>7, <1>8 DEF WaitingState, Calm, Happens

\* An association's request makes its borrower due, and nothing else is lent.
LEMMA RequestStartsWaiting ==
  ASSUME TypeOK, WaitingState, Idle, NEW h \in Request, NEW a \in Association, NEW t \in Terms,
         terms' = [terms EXCEPT ![a] = t],
         enabled' \subseteq enabled \cup {a},
         request' = [request EXCEPT ![h] = Pending(t.borrower)],
         UNCHANGED <<row, origin, subject, link, writer, setup>>
  PROVE  WaitingState'
<1>1. \A g \in Request : request'[g] = IF g = h THEN Pending(t.borrower) ELSE None
  BY DEF TypeOK, Idle
<1>2. \A w \in Writer : writer'[w] = None
  BY DEF Idle
<1>3. Pending(t.borrower).at # "rebuilding" /\ Pending(t.borrower).exam = t.borrower
  BY DEF Pending
<1>4. Pending(t.borrower) # None
  <2>1. Pending(t.borrower) \in Rebuild
    BY DEF Pending, Rebuild, Terms
  <2> QED
    BY <2>1, SlotsAssumption
<1>5. Alone'
  BY <1>1, <1>2 DEF Alone
<1>6. LendersNow'
  BY <1>1, <1>2, <1>3 DEF LendersNow
<1>7. KeptUp'
  <2> SUFFICES ASSUME NEW b \in enabled', NEW q \in Question, Lends(b, q)'
               PROVE  (link[q][terms[b].borrower] # None \/ Due(terms[b].borrower))'
    BY DEF KeptUp
  <2>1. CASE b = a
    <3>1. terms'[b] = t
      BY <2>1 DEF TypeOK
    <3>2. request'[h] # None /\ request'[h].exam = t.borrower
      BY <1>1, <1>3, <1>4
    <3> QED
      BY <3>1, <3>2 DEF Due
  <2>2. CASE b # a
    <3>1. b \in enabled /\ terms'[b] = terms[b]
      BY <2>2 DEF TypeOK
    <3>2. Lends(b, q)
      BY <3>1 DEF Lends, Covers
    <3> QED
      BY <3>1, <3>2 DEF WaitingState, KeptUp, Due, Idle
  <2> QED
    BY <2>1, <2>2
<1> QED
  BY <1>5, <1>6, <1>7 DEF WaitingState, Calm, Happens

LEMMA CreateAssociationWaiting ==
  ASSUME TypeOK, WaitingState, NEW h \in Request, NEW a \in Association, NEW t \in Terms,
         NEW on \in BOOLEAN, CreateAssociation(h, a, t, on)
  PROVE  WaitingState'
<1>1. Idle
  BY DEF CreateAssociation, Ready, WaitingState, Calm
<1>2. /\ terms' = [terms EXCEPT ![a] = t]
      /\ enabled' \subseteq enabled \cup {a}
      /\ request' = [request EXCEPT ![h] = Pending(t.borrower)]
      /\ UNCHANGED <<row, origin, subject, link, writer, setup>>
  BY DEF CreateAssociation, questions
<1> QED
  BY <1>1, <1>2, RequestStartsWaiting

LEMMA UpdateAssociationWaiting ==
  ASSUME TypeOK, WaitingState, NEW h \in Request, NEW a \in Association,
         NEW on \in BOOLEAN, UpdateAssociation(h, a, on)
  PROVE  WaitingState'
<1>1. Idle
  BY DEF UpdateAssociation, Ready, WaitingState, Calm
<1>2. terms[a] \in Terms
  BY DEF UpdateAssociation, TypeOK
<1>3. /\ terms' = [terms EXCEPT ![a] = terms[a]]
      /\ enabled' \subseteq enabled \cup {a}
      /\ request' = [request EXCEPT ![h] = Pending(terms[a].borrower)]
      /\ UNCHANGED <<row, origin, subject, link, writer, setup>>
  BY DEF UpdateAssociation, questions, TypeOK
<1> QED
  BY <1>1, <1>2, <1>3, RequestStartsWaiting

LEMMA RebuildStartWaiting ==
  ASSUME TypeOK, WaitingState, NEW h \in Request, RebuildStart(h)
  PROVE  WaitingState'
<1> DEFINE e   == request[h].exam
           job == [at |-> "rebuilding", exam |-> e, doomed |-> Doomed(e),
                   lenders |-> BorrowedBy(e)]
<1>1. request[h] # None /\ e \in Exam
  BY DEF TypeOK, RebuildStart, Rebuild
<1>2. job \in Rebuild
  BY <1>1 DEF Rebuild, Doomed, BorrowedBy, TypeOK
<1>3. job # None
  BY <1>2, SlotsAssumption
<1>4. /\ \A g \in Request : request'[g] = IF g = h THEN job ELSE request[g]
      /\ UNCHANGED <<row, origin, subject, terms, enabled, link, writer, setup>>
  BY DEF RebuildStart, questions, borrowing, TypeOK
<1>5. job.exam = e /\ job.lenders = BorrowedBy(e)
  OBVIOUS
<1> HIDE DEF job
<1>6. Alone'
  BY <1>1, <1>3, <1>4 DEF WaitingState, Alone
<1>7. LendersNow'
  BY <1>4, <1>5 DEF WaitingState, LendersNow, LendFrom, BorrowedBy
<1>8. \A x \in Exam : Due(x) => Due(x)'
  BY <1>1, <1>3, <1>4, <1>5 DEF Due
<1>9. KeptUp'
  BY <1>4, <1>8, StillKeptUp DEF WaitingState
<1> QED
  BY <1>4, <1>6, <1>7, <1>9 DEF WaitingState, Calm, Happens

\* A rebuild inserts for its exam all that its associations, still the same
\* ones, lend; the exam is no longer due.
LEMMA RebuildCommitWaiting ==
  ASSUME TypeOK, LinksInv, WaitingState, NEW h \in Request, RebuildCommit(h)
  PROVE  WaitingState'
<1> DEFINE job == request[h]
<1>1. job # None /\ job.at = "rebuilding"
  BY DEF RebuildCommit
<1>2. /\ \A g \in Request : request'[g] = IF g = h THEN None ELSE request[g]
      /\ UNCHANGED <<row, origin, subject, terms, enabled, writer, setup>>
  BY DEF RebuildCommit, questions, borrowing, TypeOK
<1>3. \A q \in Question, e \in Exam :
        /\ e # job.exam /\ link[q][e] # None => link'[q][e] # None
        /\ \A a \in job.lenders : Lends(a, q) => link'[q][job.exam] # None
  BY RebuildLinks
<1>4. job.lenders = BorrowedBy(job.exam) /\ \A g \in Request \ {h} : request[g] = None
  BY <1>1 DEF WaitingState, LendersNow, Alone
<1>5. Alone'
  BY <1>2 DEF WaitingState, Alone
<1>6. LendersNow'
  BY <1>2 DEF WaitingState, LendersNow, LendFrom, BorrowedBy
<1>7. KeptUp'
  <2> SUFFICES ASSUME NEW a \in enabled, NEW q \in Question, Lends(a, q)
               PROVE  link'[q][terms[a].borrower] # None
    BY <1>2 DEF KeptUp, Lends, Covers
  <2>1. terms[a].borrower \in Exam
    BY LinksAssumption DEF TypeOK, Terms
  <2>2. CASE terms[a].borrower = job.exam
    <3>1. a \in job.lenders
      BY <1>4, <2>2 DEF BorrowedBy
    <3> QED
      BY <1>3, <2>1, <2>2, <3>1
  <2>3. CASE terms[a].borrower # job.exam
    <3>1. link[q][terms[a].borrower] # None
      BY <1>4, <2>3 DEF WaitingState, KeptUp, Due
    <3> QED
      BY <1>3, <2>1, <2>3, <3>1
  <2> QED
    BY <2>2, <2>3
<1> QED
  BY <1>2, <1>5, <1>6, <1>7 DEF WaitingState, Calm, Happens

LEMMA DeleteQuestionWaiting ==
  ASSUME TypeOK, WaitingState, NEW p \in Question, DeleteQuestion(p)
  PROVE  WaitingState'
<1>1. /\ \A q \in Question : row'[q] = IF q = p THEN "deleted" ELSE row[q]
      /\ \A q \in Question \ {p} : link'[q] = link[q]
      /\ UNCHANGED <<origin, subject, terms, enabled, writer, request, setup>>
  BY DEF DeleteQuestion, borrowing, TypeOK
<1>2. Alone'
  BY <1>1 DEF WaitingState, Alone
<1>3. LendersNow'
  BY <1>1 DEF WaitingState, LendersNow, LendFrom, BorrowedBy
<1>4. KeptUp'
  <2> SUFFICES ASSUME NEW a \in enabled, NEW q \in Question, Lends(a, q)'
               PROVE  link[q][terms[a].borrower] # None \/ Due(terms[a].borrower)
    BY <1>1 DEF KeptUp, Due, Lends
  <2> QED
    BY <1>1 DEF WaitingState, KeptUp, Lends, Covers
<1> QED
  BY <1>1, <1>2, <1>3, <1>4 DEF WaitingState, Calm, Happens

LEMMA UpdateDocumentWaiting ==
  ASSUME TypeOK, WaitingState, NEW d \in Document, NEW e, UpdateDocument(d, e)
  PROVE  WaitingState'
<1>1. UNCHANGED <<row, origin, subject, terms, enabled, link, writer, request, setup>>
  BY DEF UpdateDocument, questions, borrowing
<1>2. Alone' /\ LendersNow'
  BY <1>1 DEF WaitingState, Alone, LendersNow, LendFrom, BorrowedBy
<1>3. KeptUp'
  BY <1>1, StillKeptUp DEF WaitingState, Due
<1> QED
  BY <1>1, <1>2, <1>3 DEF WaitingState, Calm, Happens

\* Fewer associations lend no more.
LEMMA DeleteAssociationWaiting ==
  ASSUME TypeOK, WaitingState, NEW a \in Association, DeleteAssociation(a)
  PROVE  WaitingState'
<1>1. /\ enabled' \subseteq enabled
      /\ UNCHANGED <<row, origin, subject, terms, link, writer, request, setup>>
  BY DEF DeleteAssociation, questions
<1>2. Idle
  BY DEF DeleteAssociation, Ready, WaitingState, Calm
<1>3. Alone' /\ LendersNow'
  BY <1>1, <1>2 DEF Alone, LendersNow, Idle
<1>4. KeptUp'
  BY <1>1 DEF WaitingState, KeptUp, Due, Lends, Covers
<1> QED
  BY <1>1, <1>3, <1>4 DEF WaitingState, Calm, Happens

LEMMA DeleteExamWaiting ==
  ASSUME TypeOK, WaitingState, NEW x \in Exam, DeleteExam(x)
  PROVE  WaitingState'
<1>1. /\ \A q \in Question, e \in Exam : link'[q][e] = IF e = x THEN None ELSE link[q][e]
      /\ \A a \in enabled' : a \in enabled /\ x # terms[a].borrower /\ x # terms[a].source
      /\ \A q \in Question : origin'[q] = IF origin[q] = x THEN None ELSE origin[q]
      /\ UNCHANGED <<row, subject, terms, writer, request, setup>>
  BY DEF DeleteExam, TypeOK
<1>2. Idle
  BY DEF DeleteExam, Ready, WaitingState, Calm
<1>3. Alone' /\ LendersNow'
  BY <1>1, <1>2 DEF Alone, LendersNow, Idle
<1>4. KeptUp'
  <2> SUFFICES ASSUME NEW a \in enabled', NEW q \in Question, Lends(a, q)'
               PROVE  link'[q][terms[a].borrower] # None
    BY <1>1 DEF KeptUp
  <2>1. a \in enabled /\ terms[a].borrower \in Exam \ {x} /\ terms[a].source # None
    BY <1>1, LinksAssumption DEF TypeOK, Terms
  <2>2. Lends(a, q)
    BY <1>1, <2>1 DEF Lends, Covers
  <2>3. link[q][terms[a].borrower] # None
    BY <1>2, <2>1, <2>2 DEF WaitingState, KeptUp, Due, Idle
  <2> QED
    BY <1>1, <2>1, <2>3
<1> QED
  BY <1>1, <1>3, <1>4 DEF WaitingState, Calm, Happens

LEMMA WaitingStep ==
  ASSUME TypeOK, LinksInv, WaitingState, Next
  PROVE  WaitingState'
<1>1. ASSUME NEW w \in Writer, Write(w)
      PROVE  WaitingState'
  <2>1. CASE \E d \in Document : IngestLoad(w, d)
    BY <2>1, IngestLoadWaiting
  <2>2. CASE \E kept, found \in SUBSET Question : IngestRead(w, kept, found)
    BY <2>2, IngestReadWaiting
  <2>3. CASE \E fresh \in SUBSET setup.stock :
               \E subjects \in [fresh -> setup.subjects] : IngestCommit(w, fresh, subjects)
    BY <2>3, SetupTyped, IngestCommitWaiting
  <2>4. CASE \E e \in setup.exams : WriteRead(w, e)
    BY <2>4, SetupTyped, WriteReadWaiting
  <2>5. CASE \E q \in setup.stock, s \in setup.subjects : WriteCommit(w, q, s)
    BY <2>5, SetupTyped, WriteCommitWaiting
  <2>6. CASE WriterFails(w)
    BY <2>6 DEF WriterFails, WaitingState, Calm
  <2> QED
    BY <1>1, <2>1, <2>2, <2>3, <2>4, <2>5, <2>6 DEF Write
<1>2. ASSUME NEW h \in Request, Associate(h)
      PROVE  WaitingState'
  <2>1. ASSUME NEW a \in setup.bonds, NEW on \in BOOLEAN, NEW e \in setup.exams,
               NEW x \in setup.exams, NEW s \in setup.subjects \cup {None},
               CreateAssociation(h, a, [borrower |-> e, source |-> x, subject |-> s], on)
        PROVE  WaitingState'
    <3>1. [borrower |-> e, source |-> x, subject |-> s] \in Terms /\ a \in Association
      BY SetupTyped DEF Terms
    <3> QED
      BY <2>1, <3>1, CreateAssociationWaiting
  <2>2. CASE \E a \in Association, on \in BOOLEAN : UpdateAssociation(h, a, on)
    BY <2>2, UpdateAssociationWaiting
  <2>3. CASE RebuildStart(h)
    BY <2>3, RebuildStartWaiting
  <2>4. CASE RebuildCommit(h)
    BY <2>4, RebuildCommitWaiting
  <2>5. CASE RebuildFails(h)
    BY <2>5 DEF RebuildFails, WaitingState, Calm
  <2> QED
    BY <1>2, <2>1, <2>2, <2>3, <2>4, <2>5 DEF Associate
<1>3. ASSUME Edit
      PROVE  WaitingState'
  <2>1. CASE \E q \in Question, s \in setup.subjects : Classify(q, s)
    BY <2>1 DEF Classify, WaitingState, Calm
  <2>2. CASE \E q \in Question : DeleteQuestion(q)
    BY <2>2, DeleteQuestionWaiting
  <2>3. CASE \E d \in Document, e \in setup.exams \cup {None} : UpdateDocument(d, e)
    BY <2>3, UpdateDocumentWaiting
  <2>4. CASE \E a \in Association : DeleteAssociation(a)
    BY <2>4, DeleteAssociationWaiting
  <2>5. CASE \E e \in setup.exams : DeleteExam(e)
    BY <2>5, SetupTyped, DeleteExamWaiting
  <2> QED
    BY <1>3, <2>1, <2>2, <2>3, <2>4, <2>5 DEF Edit
<1> QED
  BY <1>1, <1>2, <1>3 DEF Next

\* Where clients wait there is one writer or one request at work at a time, the
\* associations it has read are still the ones there are, and whatever an enabled
\* association lends is linked unless its borrower's rebuild is due.
THEOREM WaitingInvariant == Spec => []WaitingInv
<1>1. Init => WaitingInv
  BY DEF Init, WaitingInv, Alone, LendersNow, KeptUp
<1>2. TypeOK /\ LinksInv /\ WaitingInv /\ [Next]_vars => WaitingInv'
  <2> SUFFICES ASSUME TypeOK, LinksInv, WaitingInv, [Next]_vars PROVE WaitingInv'
    OBVIOUS
  <2>1. CASE Next
    <3>1. setup' = setup
      <4>1. ASSUME NEW w \in Writer, Write(w) PROVE setup' = setup
        BY <4>1 DEF Write, IngestLoad, IngestRead, IngestCommit, WriteRead, WriteCommit,
                    WriterFails
      <4>2. ASSUME NEW h \in Request, Associate(h) PROVE setup' = setup
        BY <4>2 DEF Associate, CreateAssociation, UpdateAssociation, RebuildStart,
                    RebuildCommit, RebuildFails
      <4>3. Edit => setup' = setup
        BY DEF Edit, Classify, DeleteQuestion, UpdateDocument, DeleteAssociation, DeleteExam
      <4> QED
        BY <2>1, <4>1, <4>2, <4>3 DEF Next
    <3>2. CASE Calm
      BY <2>1, <3>2, WaitingStep DEF WaitingInv, WaitingState
    <3> QED
      BY <3>1, <3>2 DEF WaitingInv, Calm, Happens
  <2>2. CASE UNCHANGED vars
    BY <2>2 DEF vars, questions, borrowing, WaitingInv, Calm, Happens, Alone, LendersNow,
                LendFrom, BorrowedBy, KeptUp, Due, Lends, Covers
  <2> QED
    BY <2>1, <2>2
<1> QED
  BY <1>1, <1>2, LinksInvariant, PTL DEF Spec

\* Where requests and ingests come one at a time, nothing fails and questions
\* keep their subject, an exam can use all that its enabled associations lend
\* whenever nothing is at work.
THEOREM BorrowersKeepUpHolds == Spec => []BorrowersKeepUpWhenWaiting
<1>1. WaitingInv => BorrowersKeepUpWhenWaiting
  BY DEF WaitingInv, Calm, KeptUp, Due, Lends, Idle, BorrowersKeepUpWhenWaiting,
         BorrowersKeepUp
<1> QED
  BY <1>1, WaitingInvariant, PTL

-----------------------------------------------------------------------------
\* What follows for any clients

\* Every variable keeps its type, for any warehouse, writers and requests.
THEOREM TypeCorrect == Spec => []TypeOK
  BY LinksInvariant, PTL

\* However ingests, rebuilds and deletions overlap, an exam borrows a question
\* only by an association on record, with an exam that contributed it.
THEOREM ExplainedHolds == Spec => []LinksExplained
<1>1. LinksInv => LinksExplained
  BY DEF LinksInv
<1> QED
  BY <1>1, LinksInvariant, PTL

\* An exam keeps access to its own material whatever is rebuilt or read again.
THEOREM OwnMaterialHolds == Spec => []OwnMaterial
<1>1. LinksInv => OwnMaterial
  BY DEF LinksInv
<1> QED
  BY <1>1, LinksInvariant, PTL
=============================================================================
