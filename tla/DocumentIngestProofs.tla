------------------------- MODULE DocumentIngestProofs -------------------------
(***************************************************************************)
(* Theorems about DocumentIngest, for any number of jobs, retries and      *)
(* restarts and for every deployment.                                      *)
(*                                                                         *)
(* What clients that wait for each other may rely on is not inductive: the *)
(* file goes in "flagging", long after the text was last looked at.        *)
(* CarefulInv therefore says what each stage of a job has established      *)
(* (WorkInHand), that nobody else is under way meanwhile (Alone), and that *)
(* a document is marked completed only when it is whole.  A status left    *)
(* standing by a write that failed (outdated) vouches for nothing.         *)
(***************************************************************************)
EXTENDS DocumentIngest, TLAPS

\* Stages in which the document is still marked as the job's.
Marking == {"looking", "probing", "fetching", "saving", "read", "rereading",
            "resaving", "persisting", "completing"}

\* Stages that no submitted job is in.
Unsubmitted == {"absent", "admitted", "patterning"}

\* ProcessingMeansJob, without the stages that have written a verdict.
MarkedByJob ==
  status = "processing" /\ ~outdated =>
    \E j \in Job : stage[j] \in Marking \cup {"queued", "orphan"}

\* Nothing of a deleted document is left, and nobody can bring it back.
DeletedInv ==
  /\ \A j \in announcing : stage[j] \notin Unsubmitted
  /\ status = "deleted" =>
       /\ \A j \in Job : stage[j] \in Unsubmitted
       /\ announcing = {}
       /\ ~hasOriginal /\ ~blob /\ text = NoText

\* A document that never had a file keeps the text it came with.
PlainInv == setup.plain =>
  /\ ~blob /\ ~restoring
  /\ \A j \in Job : stage[j] \notin {"saving", "rereading", "resaving", "patterning"}
  /\ status # "deleted" => Readable(text) /\ text.engine = "plain-text"
  /\ \A j \in Job : stage[j] \in {"probing", "read"} => reading[j] # NoText
  /\ \A j \in Job : reading[j] # NoText => reading[j].engine = "plain-text"

-----------------------------------------------------------------------------
\* The invariant of careful clients

Idle == {"absent", "done"}

Alone ==
  /\ \A a, b \in Actor : a # b => stage[a] \in Idle \/ stage[b] \in Idle
  /\ restoring => \A a \in Actor : stage[a] \in Idle

\* The text can be read and a question paper's questions are the text's.
Whole ==
  /\ Readable(text)
  /\ setup.kind = "question_paper" => questions = text \/ text.found = "none"

\* What the stage of a job, and of whoever is about to drop the file, has
\* established.
JobWork(j) ==
  /\ stage[j] \in {"probing", "rereading", "persisting"} =>
       reading[j] = text /\ Readable(text)
  /\ stage[j] = "saving" => blob /\ reading[j] # NoText
  /\ stage[j] = "read" => reading[j] = text /\ text # NoText
  /\ stage[j] = "resaving" => Readable(reading[j]) /\ Readable(text)
  /\ stage[j] = "patterning" => blob
  /\ stage[j] \in Marking \cup {"patterning"} => status # "completed" \/ outdated
  /\ stage[j] \in {"completing", "counting"} => Whole

DropWork(a) ==
  /\ stage[a] \in {"dropping", "flagging"} => Whole \/ misled
  /\ stage[a] = "flagging" => held[a] = blob

WorkInHand ==
  /\ \A j \in Job : JobWork(j)
  /\ \A a \in Actor : DropWork(a)

CarefulInv == setup.serial =>
  /\ Alone
  /\ WorkInHand
  /\ status = "completed" /\ ~outdated => Whole
  /\ hasOriginal <=> blob
  /\ misled \/ HasMaterial

-----------------------------------------------------------------------------
LEMMA SetupFacts ==
  TypeOK => /\ setup.kind \in {"question_paper", "answer_key", "syllabus"}
            /\ setup.yield \in SUBSET Found
            /\ setup.maxTries \in Nat /\ setup.maxRestarts \in Nat
            /\ setup.plain \in BOOLEAN /\ setup.serial \in BOOLEAN
            /\ setup.keepOriginals \in BOOLEAN
BY DocumentAssumption DEF TypeOK, Setup

\* Whatever an engine makes of the file is a reading.
LEMMA ConversionsAreReadings ==
  ASSUME TypeOK, NEW e \in SUBSET Engine, NEW r \in Conversions(e)
  PROVE  r \in Reading /\ r # NoText /\ r.engine \in e
BY SetupFacts, DocumentAssumption DEF Conversions, Reading

-----------------------------------------------------------------------------
\* Every step keeps the types.
LEMMA TypeStep == TypeOK /\ [Next]_vars => TypeOK'
<1> SUFFICES ASSUME TypeOK, [Next]_vars PROVE TypeOK'
  OBVIOUS
<1> USE DEF TypeOK, Move, Forget, Mark, statusVars, docVars, jobVars, apiVars, envVars, Actor,
            Running, Stage, DocStatus
<1>1. ASSUME NEW j \in Job, NEW p \in Requests, Admit(j, p) PROVE TypeOK'
  BY <1>1 DEF Admit, Requests
<1>2. ASSUME NEW j \in Job, Submit(j) PROVE TypeOK'
  BY <1>2 DEF Submit
<1>3. ASSUME NEW j \in Job, SubmitFails(j) PROVE TypeOK'
  BY <1>3 DEF SubmitFails
<1>4. ASSUME NEW j \in Job, Reparse(j) PROVE TypeOK'
  BY <1>4 DEF Reparse, Param
<1>5. ASSUME NEW j \in Job, Announce(j) PROVE TypeOK'
  BY <1>5 DEF Announce
<1>6. ASSUME NEW j \in Job, NEW p \in Requests, Requeue(j, p) PROVE TypeOK'
  BY <1>6 DEF Requeue, Requests
<1>7. ASSUME NEW j \in Job, PatternConvert(j) PROVE TypeOK'
  BY <1>7, ConversionsAreReadings DEF PatternConvert
<1>8. ASSUME NEW j \in Job, PatternSave(j) PROVE TypeOK'
  BY <1>8 DEF PatternSave
<1>9. ASSUME FindDuplicate PROVE TypeOK'
  BY <1>9 DEF FindDuplicate
<1>10. ASSUME RestoreOriginal PROVE TypeOK'
  BY <1>10 DEF RestoreOriginal
<1>11. ASSUME DeleteDocument PROVE TypeOK'
  BY <1>11 DEF DeleteDocument
<1>12. ASSUME NEW j \in Job, Start(j) PROVE TypeOK'
  <2>1. tries' \in [Job -> Nat] /\ stage' \in [Actor -> Stage]
    BY <1>12 DEF Start
  <2>2. status' \in DocStatus /\ outdated' \in BOOLEAN
    BY <1>12 DEF Start
  <2> QED
    BY <1>12, <2>1, <2>2 DEF Start
<1>37. ASSUME NEW j \in Job, StartFails(j) PROVE TypeOK'
  <2>1. tries' \in [Job -> Nat]
    BY <1>37 DEF StartFails
  <2>2. stage' \in [Actor -> Stage]
    BY <1>37 DEF StartFails
  <2> QED
    BY <1>37, <2>1, <2>2 DEF StartFails
<1>13. ASSUME NEW j \in Job, LookUpText(j) PROVE TypeOK'
  BY <1>13 DEF LookUpText
<1>14. ASSUME NEW j \in Job, LookUpFails(j) PROVE TypeOK'
  BY <1>14 DEF LookUpFails, Fail, Error
<1>15. ASSUME NEW j \in Job, ProbeOriginal(j) PROVE TypeOK'
  BY <1>15 DEF ProbeOriginal
<1>16. ASSUME NEW j \in Job, Convert(j) PROVE TypeOK'
  BY <1>16, ConversionsAreReadings DEF Convert
<1>17. ASSUME NEW j \in Job, ConvertFails(j) PROVE TypeOK'
  BY <1>17 DEF ConvertFails, Fail, Error
<1>18. ASSUME NEW j \in Job, SaveConversion(j) PROVE TypeOK'
  BY <1>18 DEF SaveConversion
<1>19. ASSUME NEW j \in Job, SaveConversionFails(j) PROVE TypeOK'
  BY <1>19 DEF SaveConversionFails, Fail, Error
<1>20. ASSUME NEW j \in Job, RejectBlank(j) PROVE TypeOK'
  BY <1>20 DEF RejectBlank
<1>21. ASSUME NEW j \in Job, FinishUnmined(j) PROVE TypeOK'
  BY <1>21 DEF FinishUnmined
<1>22. ASSUME NEW j \in Job, Parse(j) PROVE TypeOK'
  BY <1>22 DEF Parse
<1>23. ASSUME NEW j \in Job, ReadFails(j) PROVE TypeOK'
  BY <1>23 DEF ReadFails, Fail, Error
<1>24. ASSUME NEW j \in Job, Reread(j) PROVE TypeOK'
  BY <1>24, ConversionsAreReadings DEF Reread, KeepBetter
<1>25. ASSUME NEW j \in Job, PersistQuestions(j) PROVE TypeOK'
  BY <1>25 DEF PersistQuestions
<1>26. ASSUME NEW j \in Job, PersistFails(j) PROVE TypeOK'
  BY <1>26 DEF PersistFails, Fail, Error
<1>27. ASSUME NEW j \in Job, Complete(j) PROVE TypeOK'
  BY <1>27 DEF Complete
<1>28. ASSUME NEW j \in Job, UpdateCounters(j) PROVE TypeOK'
  BY <1>28 DEF UpdateCounters
<1>29. ASSUME NEW j \in Job, CountersFail(j) PROVE TypeOK'
  BY <1>29 DEF CountersFail, Error
<1>30. ASSUME NEW j \in Job, KeepOriginal(j) PROVE TypeOK'
  BY <1>30 DEF KeepOriginal
<1>31. ASSUME SelectForDiscard PROVE TypeOK'
  BY <1>31 DEF SelectForDiscard
<1>32. ASSUME NEW a \in Actor, DropBlob(a) PROVE TypeOK'
  BY <1>32 DEF DropBlob
<1>33. ASSUME NEW a \in Actor, DropOriginal(a) PROVE TypeOK'
  BY <1>33 DEF DropOriginal, DropCommit
<1>34. ASSUME NEW a \in Actor, DropFails(a) PROVE TypeOK'
  BY <1>34 DEF DropFails
<1>35. ASSUME Restart PROVE TypeOK'
  <2>1. PICK requeued \in SUBSET Job : stage' = [a \in Actor |->
         IF a = Command \/ stage[a] \in {"absent", "queued", "done"} THEN stage[a]
         ELSE IF stage[a] \in {"admitted", "patterning"} THEN "absent"
         ELSE IF a \in requeued THEN "queued" ELSE "orphan"]
    BY <1>35 DEF Restart
  <2>2. stage' \in [Actor -> Stage]
    BY <2>1
  <2>3. held' \in [Actor -> BOOLEAN]
    BY <1>35 DEF Restart
  <2>4. restarts' \in Nat /\ reading' \in [Job -> Reading \cup {NoText}]
    BY <1>35 DEF Restart
  <2> QED
    BY <1>35, <2>2, <2>3, <2>4 DEF Restart
<1>36. CASE UNCHANGED vars
  BY <1>36 DEF vars
<1>a. Command \in Actor /\ Job \subseteq Actor
  BY DEF Actor
<1> QED
  BY <1>1, <1>2, <1>3, <1>4, <1>5, <1>6, <1>7, <1>8, <1>9, <1>10, <1>11,
     <1>12, <1>13, <1>14, <1>15, <1>16, <1>17, <1>18, <1>19, <1>20, <1>21,
     <1>22, <1>23, <1>24, <1>25, <1>26, <1>27, <1>28, <1>29, <1>30, <1>31,
     <1>32, <1>33, <1>34, <1>35, <1>36, <1>37, <1>a
  DEF Next, Request, Work, Discard

\* The statuses, the texts and the stages are what the schema and the code say,
\* whatever overlaps.
THEOREM TypeCorrect == Spec => []TypeOK
<1>1. Init => TypeOK
  <2> SUFFICES ASSUME Init PROVE TypeOK
    OBVIOUS
  <2>1. setup.yield \in SUBSET Found /\ setup.plain \in BOOLEAN
    BY DocumentAssumption DEF Init, Setup
  <2>2. text \in Reading \cup {NoText}
    BY <2>1 DEF Init, Reading
  <2> QED
    BY <2>1, <2>2 DEF Init, TypeOK, DocStatus, Stage, Actor
<1> QED
  BY <1>1, TypeStep, PTL DEF Spec

\* A job that ends with an error is queued again or over; nothing else moves.
LEMMA ErrorMoves ==
  ASSUME TypeOK, NEW j \in Job, Error(j)
  PROVE  /\ stage'[j] \in {"queued", "done"}
         /\ \A a \in Actor \ {j} : stage'[a] = stage[a]
         /\ UNCHANGED <<announcing, restoring, hasOriginal, blob, text, questions, held,
                       setup, misled>>
         /\ \A i \in Job : reading'[i] \in {NoText, reading[i]}
<1>1. j \in Actor
  BY DEF Actor
<1>2. stage'[j] \in {"queued", "done"} /\ \A a \in Actor \ {j} : stage'[a] = stage[a]
  BY <1>1 DEF TypeOK, Error, Move
<1>3. \A i \in Job : reading'[i] \in {NoText, reading[i]}
  BY DEF TypeOK, Error, Forget
<1> QED
  BY <1>2, <1>3 DEF Error, apiVars, envVars

\* A job that fails before it marked the document leaves the document as it is.
LEMMA StartFailsMoves ==
  ASSUME TypeOK, NEW j \in Job, StartFails(j)
  PROVE  /\ stage[j] = "queued" /\ stage'[j] \in {"queued", "done"}
         /\ \A a \in Actor \ {j} : stage'[a] = stage[a]
         /\ UNCHANGED <<announcing, restoring, status, hasOriginal, blob, text, questions,
                       held, reading, setup, misled>>
         /\ outdated' = (outdated \/ status = "processing")
<1>1. j \in Actor
  BY DEF Actor
<1>2. UNCHANGED stage \/ Move(j, "done")
  BY DEF StartFails
<1>3. stage'[j] \in {"queued", "done"} /\ \A a \in Actor \ {j} : stage'[a] = stage[a]
  BY <1>1, <1>2 DEF TypeOK, StartFails, Move
<1> QED
  BY <1>3 DEF StartFails, apiVars, envVars

\* A restart leaves alone what was idle or queued, drops what was not submitted,
\* and puts a submitted job back or leaves it behind.
LEMMA RestartMoves ==
  ASSUME TypeOK, Restart
  PROVE  /\ \A j \in Job :
              /\ stage'[j] \in {"absent", "queued", "done", "orphan"}
              /\ stage[j] \in {"absent", "queued", "done"} => stage'[j] = stage[j]
              /\ stage[j] \in {"admitted", "patterning"} => stage'[j] = "absent"
              /\ stage[j] \in (Running \cup {"orphan"}) \ {"patterning"}
                   => stage'[j] \in {"queued", "orphan"}
              /\ reading'[j] = NoText
         /\ stage'[Command] = stage[Command] /\ held'[Command] = held[Command]
         /\ announcing' = {} /\ restoring' = FALSE
         /\ UNCHANGED <<docVars, setup, misled>>
<1>1. PICK requeued \in SUBSET Job : stage' = [a \in Actor |->
       IF a = Command \/ stage[a] \in {"absent", "queued", "done"} THEN stage[a]
       ELSE IF stage[a] \in {"admitted", "patterning"} THEN "absent"
       ELSE IF a \in requeued THEN "queued" ELSE "orphan"]
  BY DEF Restart
<1>2. \A j \in Job : j \in Actor /\ j # Command
  BY DocumentAssumption DEF Actor
<1>3. stage'[Command] = stage[Command]
  BY <1>1 DEF Actor
<1>4. held'[Command] = held[Command]
  BY DEF Restart, Actor, TypeOK
<1>5. \A j \in Job : reading'[j] = NoText
  BY DEF Restart
<1>6. ASSUME NEW j \in Job
      PROVE  /\ stage'[j] \in {"absent", "queued", "done", "orphan"}
             /\ stage[j] \in {"absent", "queued", "done"} => stage'[j] = stage[j]
             /\ stage[j] \in {"admitted", "patterning"} => stage'[j] = "absent"
             /\ stage[j] \in (Running \cup {"orphan"}) \ {"patterning"}
                  => stage'[j] \in {"queued", "orphan"}
  BY <1>1, <1>2 DEF Running
<1> QED
  BY <1>3, <1>4, <1>5, <1>6 DEF Restart

-----------------------------------------------------------------------------
\* OriginalFlagIsTrue is inductive: the flag and the file are only ever raised
\* together, and the flag never stays up when the file goes.
LEMMA FlagStep == TypeOK /\ OriginalFlagIsTrue /\ [Next]_vars => OriginalFlagIsTrue'
<1> SUFFICES ASSUME TypeOK, OriginalFlagIsTrue, [Next]_vars PROVE OriginalFlagIsTrue'
  OBVIOUS
<1> USE DEF Move, Forget, Mark, statusVars, docVars, jobVars, apiVars, envVars, OriginalFlagIsTrue
<1>1. ASSUME NEW j \in Job, NEW p \in Requests, Admit(j, p) PROVE OriginalFlagIsTrue'
  BY <1>1 DEF Admit
<1>2. ASSUME NEW j \in Job, Submit(j) PROVE OriginalFlagIsTrue'
  BY <1>2 DEF Submit
<1>3. ASSUME NEW j \in Job, SubmitFails(j) PROVE OriginalFlagIsTrue'
  BY <1>3 DEF SubmitFails
<1>4. ASSUME NEW j \in Job, Reparse(j) PROVE OriginalFlagIsTrue'
  BY <1>4 DEF Reparse
<1>5. ASSUME NEW j \in Job, Announce(j) PROVE OriginalFlagIsTrue'
  BY <1>5 DEF Announce
<1>6. ASSUME NEW j \in Job, NEW p \in Requests, Requeue(j, p) PROVE OriginalFlagIsTrue'
  BY <1>6 DEF Requeue
<1>7. ASSUME NEW j \in Job, PatternConvert(j) PROVE OriginalFlagIsTrue'
  BY <1>7 DEF PatternConvert
<1>8. ASSUME NEW j \in Job, PatternSave(j) PROVE OriginalFlagIsTrue'
  BY <1>8 DEF PatternSave
<1>9. ASSUME FindDuplicate PROVE OriginalFlagIsTrue'
  BY <1>9 DEF FindDuplicate
<1>10. ASSUME RestoreOriginal PROVE OriginalFlagIsTrue'
  BY <1>10 DEF RestoreOriginal
<1>11. ASSUME DeleteDocument PROVE OriginalFlagIsTrue'
  BY <1>11 DEF DeleteDocument
<1>12. ASSUME NEW j \in Job, Start(j) PROVE OriginalFlagIsTrue'
  BY <1>12 DEF Start
<1>37. ASSUME NEW j \in Job, StartFails(j) PROVE OriginalFlagIsTrue'
  BY <1>37 DEF StartFails
<1>13. ASSUME NEW j \in Job, LookUpText(j) PROVE OriginalFlagIsTrue'
  BY <1>13 DEF LookUpText
<1>14. ASSUME NEW j \in Job, LookUpFails(j) PROVE OriginalFlagIsTrue'
  BY <1>14 DEF LookUpFails, Fail, Error
<1>15. ASSUME NEW j \in Job, ProbeOriginal(j) PROVE OriginalFlagIsTrue'
  BY <1>15 DEF ProbeOriginal
<1>16. ASSUME NEW j \in Job, Convert(j) PROVE OriginalFlagIsTrue'
  BY <1>16 DEF Convert
<1>17. ASSUME NEW j \in Job, ConvertFails(j) PROVE OriginalFlagIsTrue'
  BY <1>17 DEF ConvertFails, Fail, Error
<1>18. ASSUME NEW j \in Job, SaveConversion(j) PROVE OriginalFlagIsTrue'
  BY <1>18 DEF SaveConversion
<1>19. ASSUME NEW j \in Job, SaveConversionFails(j) PROVE OriginalFlagIsTrue'
  BY <1>19 DEF SaveConversionFails, Fail, Error
<1>20. ASSUME NEW j \in Job, RejectBlank(j) PROVE OriginalFlagIsTrue'
  BY <1>20 DEF RejectBlank
<1>21. ASSUME NEW j \in Job, FinishUnmined(j) PROVE OriginalFlagIsTrue'
  BY <1>21 DEF FinishUnmined
<1>22. ASSUME NEW j \in Job, Parse(j) PROVE OriginalFlagIsTrue'
  BY <1>22 DEF Parse
<1>23. ASSUME NEW j \in Job, ReadFails(j) PROVE OriginalFlagIsTrue'
  BY <1>23 DEF ReadFails, Fail, Error
<1>24. ASSUME NEW j \in Job, Reread(j) PROVE OriginalFlagIsTrue'
  BY <1>24 DEF Reread, KeepBetter
<1>25. ASSUME NEW j \in Job, PersistQuestions(j) PROVE OriginalFlagIsTrue'
  BY <1>25 DEF PersistQuestions
<1>26. ASSUME NEW j \in Job, PersistFails(j) PROVE OriginalFlagIsTrue'
  BY <1>26 DEF PersistFails, Fail, Error
<1>27. ASSUME NEW j \in Job, Complete(j) PROVE OriginalFlagIsTrue'
  BY <1>27 DEF Complete
<1>28. ASSUME NEW j \in Job, UpdateCounters(j) PROVE OriginalFlagIsTrue'
  BY <1>28 DEF UpdateCounters
<1>29. ASSUME NEW j \in Job, CountersFail(j) PROVE OriginalFlagIsTrue'
  BY <1>29 DEF CountersFail, Error
<1>30. ASSUME NEW j \in Job, KeepOriginal(j) PROVE OriginalFlagIsTrue'
  BY <1>30 DEF KeepOriginal
<1>31. ASSUME SelectForDiscard PROVE OriginalFlagIsTrue'
  BY <1>31 DEF SelectForDiscard
<1>32. ASSUME NEW a \in Actor, DropBlob(a) PROVE OriginalFlagIsTrue'
  BY <1>32 DEF DropBlob
<1>33. ASSUME NEW a \in Actor, DropOriginal(a) PROVE OriginalFlagIsTrue'
  BY <1>33 DEF DropOriginal, DropCommit
<1>34. ASSUME NEW a \in Actor, DropFails(a) PROVE OriginalFlagIsTrue'
  BY <1>34 DEF DropFails
<1>35. ASSUME Restart PROVE OriginalFlagIsTrue'
  BY <1>35 DEF Restart
<1>36. CASE UNCHANGED vars
  BY <1>36 DEF vars
<1>a. Command \in Actor /\ Job \subseteq Actor
  BY DEF Actor
<1> QED
  BY <1>1, <1>2, <1>3, <1>4, <1>5, <1>6, <1>7, <1>8, <1>9, <1>10, <1>11,
     <1>12, <1>13, <1>14, <1>15, <1>16, <1>17, <1>18, <1>19, <1>20, <1>21,
     <1>22, <1>23, <1>24, <1>25, <1>26, <1>27, <1>28, <1>29, <1>30, <1>31,
     <1>32, <1>33, <1>34, <1>35, <1>36, <1>37, <1>a
  DEF Next, Request, Work, Discard

\* The API never offers a fresh reading of a file that is gone, whatever restores,
\* discards, failures and restarts overlap (has_original, handler/document.go).
THEOREM OriginalFlagHolds == Spec => []OriginalFlagIsTrue
<1>1. Init => OriginalFlagIsTrue
  BY DEF Init, OriginalFlagIsTrue
<1> QED
  BY <1>1, TypeCorrect, FlagStep, PTL DEF Spec

-----------------------------------------------------------------------------
\* Whoever leaves the stages that mark the document writes another status first,
\* or goes back to the queue, or is left behind by a restart.
LEMMA MarkStep == TypeOK /\ MarkedByJob /\ [Next]_vars => MarkedByJob'
<1> SUFFICES ASSUME TypeOK, MarkedByJob, [Next]_vars PROVE MarkedByJob'
  OBVIOUS
<1> USE DEF Move, Forget, Mark, statusVars, docVars, jobVars, apiVars, envVars, TypeOK, MarkedByJob, Marking
<1>1. ASSUME NEW j \in Job, NEW p \in Requests, Admit(j, p) PROVE MarkedByJob'
  BY <1>1 DEF Admit
<1>2. ASSUME NEW j \in Job, Submit(j) PROVE MarkedByJob'
  BY <1>2 DEF Submit
<1>3. ASSUME NEW j \in Job, SubmitFails(j) PROVE MarkedByJob'
  BY <1>3 DEF SubmitFails
<1>4. ASSUME NEW j \in Job, Reparse(j) PROVE MarkedByJob'
  BY <1>4 DEF Reparse
<1>5. ASSUME NEW j \in Job, Announce(j) PROVE MarkedByJob'
  BY <1>5 DEF Announce
<1>6. ASSUME NEW j \in Job, NEW p \in Requests, Requeue(j, p) PROVE MarkedByJob'
  BY <1>6 DEF Requeue
<1>7. ASSUME NEW j \in Job, PatternConvert(j) PROVE MarkedByJob'
  BY <1>7 DEF PatternConvert
<1>8. ASSUME NEW j \in Job, PatternSave(j) PROVE MarkedByJob'
  BY <1>8 DEF PatternSave
<1>9. ASSUME FindDuplicate PROVE MarkedByJob'
  BY <1>9 DEF FindDuplicate
<1>10. ASSUME RestoreOriginal PROVE MarkedByJob'
  BY <1>10 DEF RestoreOriginal
<1>11. ASSUME DeleteDocument PROVE MarkedByJob'
  BY <1>11 DEF DeleteDocument
<1>12. ASSUME NEW j \in Job, Start(j) PROVE MarkedByJob'
  BY <1>12 DEF Start
<1>37. ASSUME NEW j \in Job, StartFails(j) PROVE MarkedByJob'
  BY <1>37 DEF StartFails
<1>13. ASSUME NEW j \in Job, LookUpText(j) PROVE MarkedByJob'
  BY <1>13 DEF LookUpText
<1>14. ASSUME NEW j \in Job, LookUpFails(j) PROVE MarkedByJob'
  BY <1>14 DEF LookUpFails, Fail, Error
<1>15. ASSUME NEW j \in Job, ProbeOriginal(j) PROVE MarkedByJob'
  BY <1>15 DEF ProbeOriginal
<1>16. ASSUME NEW j \in Job, Convert(j) PROVE MarkedByJob'
  BY <1>16 DEF Convert
<1>17. ASSUME NEW j \in Job, ConvertFails(j) PROVE MarkedByJob'
  BY <1>17 DEF ConvertFails, Fail, Error
<1>18. ASSUME NEW j \in Job, SaveConversion(j) PROVE MarkedByJob'
  BY <1>18 DEF SaveConversion
<1>19. ASSUME NEW j \in Job, SaveConversionFails(j) PROVE MarkedByJob'
  BY <1>19 DEF SaveConversionFails, Fail, Error
<1>20. ASSUME NEW j \in Job, RejectBlank(j) PROVE MarkedByJob'
  BY <1>20 DEF RejectBlank
<1>21. ASSUME NEW j \in Job, FinishUnmined(j) PROVE MarkedByJob'
  BY <1>21 DEF FinishUnmined
<1>22. ASSUME NEW j \in Job, Parse(j) PROVE MarkedByJob'
  BY <1>22 DEF Parse
<1>23. ASSUME NEW j \in Job, ReadFails(j) PROVE MarkedByJob'
  BY <1>23 DEF ReadFails, Fail, Error
<1>24. ASSUME NEW j \in Job, Reread(j) PROVE MarkedByJob'
  BY <1>24 DEF Reread, KeepBetter
<1>25. ASSUME NEW j \in Job, PersistQuestions(j) PROVE MarkedByJob'
  BY <1>25 DEF PersistQuestions
<1>26. ASSUME NEW j \in Job, PersistFails(j) PROVE MarkedByJob'
  BY <1>26 DEF PersistFails, Fail, Error
<1>27. ASSUME NEW j \in Job, Complete(j) PROVE MarkedByJob'
  BY <1>27 DEF Complete
<1>28. ASSUME NEW j \in Job, UpdateCounters(j) PROVE MarkedByJob'
  BY <1>28 DEF UpdateCounters
<1>29. ASSUME NEW j \in Job, CountersFail(j) PROVE MarkedByJob'
  <2>1. stage[j] = "counting" /\ UNCHANGED <<status, outdated>> /\ j \in Actor
    BY <1>29 DEF CountersFail, Actor
  <2>2. \A i \in Job \ {j} : stage'[i] = stage[i]
    BY <1>29, ErrorMoves DEF CountersFail, Actor
  <2> QED
    BY <2>1, <2>2
<1>30. ASSUME NEW j \in Job, KeepOriginal(j) PROVE MarkedByJob'
  BY <1>30 DEF KeepOriginal
<1>31. ASSUME SelectForDiscard PROVE MarkedByJob'
  BY <1>31 DEF SelectForDiscard
<1>32. ASSUME NEW a \in Actor, DropBlob(a) PROVE MarkedByJob'
  BY <1>32 DEF DropBlob
<1>33. ASSUME NEW a \in Actor, DropOriginal(a) PROVE MarkedByJob'
  BY <1>33 DEF DropOriginal, DropCommit
<1>34. ASSUME NEW a \in Actor, DropFails(a) PROVE MarkedByJob'
  BY <1>34 DEF DropFails
<1>35. ASSUME Restart PROVE MarkedByJob'
  BY <1>35, RestartMoves DEF Running
<1>36. CASE UNCHANGED vars
  BY <1>36 DEF vars
<1>a. Command \in Actor /\ Job \subseteq Actor
  BY DEF Actor
<1> QED
  BY <1>1, <1>2, <1>3, <1>4, <1>5, <1>6, <1>7, <1>8, <1>9, <1>10, <1>11,
     <1>12, <1>13, <1>14, <1>15, <1>16, <1>17, <1>18, <1>19, <1>20, <1>21,
     <1>22, <1>23, <1>24, <1>25, <1>26, <1>27, <1>28, <1>29, <1>30, <1>31,
     <1>32, <1>33, <1>34, <1>35, <1>36, <1>37, <1>a
  DEF Next, Request, Work, Discard

\* A document never shows "processing" with no job to show for it
\* (pipeline/ingest.go, handler/document.go).
THEOREM ProcessingHolds == Spec => []ProcessingMeansJob
<1>1. Init => MarkedByJob
  BY DEF Init, MarkedByJob
<1>2. MarkedByJob => ProcessingMeansJob
  BY DEF MarkedByJob, ProcessingMeansJob, Marking, Running
<1> QED
  BY <1>1, <1>2, TypeCorrect, MarkStep, PTL DEF Spec

-----------------------------------------------------------------------------
\* Jobs keep their document in the database, so it is deleted only before there
\* are any, and none can be added afterwards.
LEMMA DeletedStep == TypeOK /\ DeletedInv /\ [Next]_vars => DeletedInv'
<1> SUFFICES ASSUME TypeOK, DeletedInv, [Next]_vars PROVE DeletedInv'
  OBVIOUS
<1> USE DEF Move, Forget, Mark, statusVars, docVars, jobVars, apiVars, envVars, TypeOK, DeletedInv, Unsubmitted
<1>1. ASSUME NEW j \in Job, NEW p \in Requests, Admit(j, p) PROVE DeletedInv'
  BY <1>1 DEF Admit
<1>2. ASSUME NEW j \in Job, Submit(j) PROVE DeletedInv'
  <2>1. status # "deleted" /\ status' = status
    BY <1>2 DEF Submit
  <2>2. j \in Actor /\ Job \subseteq Actor
    BY DEF Actor
  <2>3. stage'[j] = "queued" /\ \A i \in Job \ {j} : stage'[i] = stage[i]
    BY <1>2, <2>2 DEF Submit
  <2>4. announcing' = announcing \cup {j}
    BY <1>2 DEF Submit
  <2> QED
    BY <2>1, <2>3, <2>4
<1>3. ASSUME NEW j \in Job, SubmitFails(j) PROVE DeletedInv'
  BY <1>3 DEF SubmitFails
<1>4. ASSUME NEW j \in Job, Reparse(j) PROVE DeletedInv'
  <2>1. status # "deleted" /\ status' = status
    BY <1>4 DEF Reparse
  <2>2. j \in Actor /\ Job \subseteq Actor
    BY DEF Actor
  <2>3. stage'[j] = "queued" /\ \A i \in Job \ {j} : stage'[i] = stage[i]
    BY <1>4, <2>2 DEF Reparse
  <2>4. announcing' = announcing \cup {j}
    BY <1>4 DEF Reparse
  <2> QED
    BY <2>1, <2>3, <2>4
<1>5. ASSUME NEW j \in Job, Announce(j) PROVE DeletedInv'
  BY <1>5 DEF Announce
<1>6. ASSUME NEW j \in Job, NEW p \in Requests, Requeue(j, p) PROVE DeletedInv'
  BY <1>6 DEF Requeue
<1>7. ASSUME NEW j \in Job, PatternConvert(j) PROVE DeletedInv'
  BY <1>7 DEF PatternConvert
<1>8. ASSUME NEW j \in Job, PatternSave(j) PROVE DeletedInv'
  BY <1>8 DEF PatternSave
<1>9. ASSUME FindDuplicate PROVE DeletedInv'
  BY <1>9 DEF FindDuplicate
<1>10. ASSUME RestoreOriginal PROVE DeletedInv'
  BY <1>10 DEF RestoreOriginal
<1>11. ASSUME DeleteDocument PROVE DeletedInv'
  BY <1>11 DEF DeleteDocument
<1>12. ASSUME NEW j \in Job, Start(j) PROVE DeletedInv'
  BY <1>12 DEF Start
<1>37. ASSUME NEW j \in Job, StartFails(j) PROVE DeletedInv'
  BY <1>37, StartFailsMoves DEF Actor
<1>13. ASSUME NEW j \in Job, LookUpText(j) PROVE DeletedInv'
  BY <1>13 DEF LookUpText
<1>14. ASSUME NEW j \in Job, LookUpFails(j) PROVE DeletedInv'
  <2>1. Error(j) /\ stage[j] \notin Unsubmitted
    BY <1>14 DEF LookUpFails, Fail
  <2> QED
    BY <2>1, ErrorMoves, <1>14 DEF LookUpFails, Fail, Actor
<1>15. ASSUME NEW j \in Job, ProbeOriginal(j) PROVE DeletedInv'
  BY <1>15 DEF ProbeOriginal
<1>16. ASSUME NEW j \in Job, Convert(j) PROVE DeletedInv'
  BY <1>16 DEF Convert
<1>17. ASSUME NEW j \in Job, ConvertFails(j) PROVE DeletedInv'
  <2>1. Error(j) /\ stage[j] \notin Unsubmitted
    BY <1>17 DEF ConvertFails, Fail
  <2> QED
    BY <2>1, ErrorMoves, <1>17 DEF ConvertFails, Fail, Actor
<1>18. ASSUME NEW j \in Job, SaveConversion(j) PROVE DeletedInv'
  BY <1>18 DEF SaveConversion
<1>19. ASSUME NEW j \in Job, SaveConversionFails(j) PROVE DeletedInv'
  <2>1. Error(j) /\ stage[j] \notin Unsubmitted
    BY <1>19 DEF SaveConversionFails, Fail
  <2> QED
    BY <2>1, ErrorMoves, <1>19 DEF SaveConversionFails, Fail, Actor
<1>20. ASSUME NEW j \in Job, RejectBlank(j) PROVE DeletedInv'
  BY <1>20 DEF RejectBlank
<1>21. ASSUME NEW j \in Job, FinishUnmined(j) PROVE DeletedInv'
  BY <1>21 DEF FinishUnmined
<1>22. ASSUME NEW j \in Job, Parse(j) PROVE DeletedInv'
  BY <1>22 DEF Parse
<1>23. ASSUME NEW j \in Job, ReadFails(j) PROVE DeletedInv'
  <2>1. Error(j) /\ stage[j] \notin Unsubmitted
    BY <1>23 DEF ReadFails, Fail
  <2> QED
    BY <2>1, ErrorMoves, <1>23 DEF ReadFails, Fail, Actor
<1>24. ASSUME NEW j \in Job, Reread(j) PROVE DeletedInv'
  <2>1. status # "deleted" /\ status' = status /\ announcing' = announcing
    BY <1>24 DEF Reread
  <2>2. j \in Actor /\ Job \subseteq Actor
    BY DEF Actor
  <2>3. stage'[j] \in {"persisting", "resaving"} /\ \A i \in Job \ {j} : stage'[i] = stage[i]
    BY <1>24, <2>2 DEF Reread, KeepBetter
  <2> QED
    BY <2>1, <2>3
<1>25. ASSUME NEW j \in Job, PersistQuestions(j) PROVE DeletedInv'
  BY <1>25 DEF PersistQuestions
<1>26. ASSUME NEW j \in Job, PersistFails(j) PROVE DeletedInv'
  <2>1. Error(j) /\ stage[j] \notin Unsubmitted
    BY <1>26 DEF PersistFails, Fail
  <2> QED
    BY <2>1, ErrorMoves, <1>26 DEF PersistFails, Fail, Actor
<1>27. ASSUME NEW j \in Job, Complete(j) PROVE DeletedInv'
  BY <1>27 DEF Complete
<1>28. ASSUME NEW j \in Job, UpdateCounters(j) PROVE DeletedInv'
  BY <1>28 DEF UpdateCounters
<1>29. ASSUME NEW j \in Job, CountersFail(j) PROVE DeletedInv'
  <2>1. Error(j) /\ stage[j] \notin Unsubmitted
    BY <1>29 DEF CountersFail
  <2> QED
    BY <2>1, ErrorMoves, <1>29 DEF CountersFail, Actor
<1>30. ASSUME NEW j \in Job, KeepOriginal(j) PROVE DeletedInv'
  BY <1>30 DEF KeepOriginal
<1>31. ASSUME SelectForDiscard PROVE DeletedInv'
  BY <1>31 DEF SelectForDiscard
<1>32. ASSUME NEW a \in Actor, DropBlob(a) PROVE DeletedInv'
  BY <1>32 DEF DropBlob
<1>33. ASSUME NEW a \in Actor, DropOriginal(a) PROVE DeletedInv'
  BY <1>33 DEF DropOriginal, DropCommit
<1>34. ASSUME NEW a \in Actor, DropFails(a) PROVE DeletedInv'
  BY <1>34 DEF DropFails
<1>35. ASSUME Restart PROVE DeletedInv'
  <2>1. announcing' = {} /\ UNCHANGED docVars
    BY <1>35, RestartMoves
  <2>2. \A j \in Job : stage[j] \in Unsubmitted => stage'[j] \in Unsubmitted
    BY <1>35, RestartMoves
  <2> QED
    BY <2>1, <2>2
<1>36. CASE UNCHANGED vars
  BY <1>36 DEF vars
<1>a. Command \in Actor /\ Job \subseteq Actor
  BY DEF Actor
<1> QED
  BY <1>1, <1>2, <1>3, <1>4, <1>5, <1>6, <1>7, <1>8, <1>9, <1>10, <1>11,
     <1>12, <1>13, <1>14, <1>15, <1>16, <1>17, <1>18, <1>19, <1>20, <1>21,
     <1>22, <1>23, <1>24, <1>25, <1>26, <1>27, <1>28, <1>29, <1>30, <1>31,
     <1>32, <1>33, <1>34, <1>35, <1>36, <1>37, <1>a
  DEF Next, Request, Work, Discard

\* A document once deleted stays deleted: no status written late by a request or
\* a job brings its row back (DeleteDocument, handler/document.go).
THEOREM DeletedForGood == Spec => [][status = "deleted" => status' = "deleted"]_vars
<1>1. Init => DeletedInv
  BY DEF Init, DeletedInv
<1>2. TypeOK /\ DeletedInv /\ [Next]_vars => (status = "deleted" => status' = "deleted")
  <2> SUFFICES ASSUME TypeOK, DeletedInv, [Next]_vars, status = "deleted"
               PROVE  status' = "deleted"
    OBVIOUS
  <2>1. announcing = {} /\ \A j \in Job : stage[j] \in Unsubmitted
    BY DEF DeletedInv
  <2>2. ASSUME NEW j \in Job, Request(j) PROVE status' = "deleted"
    BY <2>1, <2>2 DEF Request, Admit, Submit, SubmitFails, Reparse, Announce,
       Requeue, PatternConvert, PatternSave, docVars, statusVars
  <2>3. ASSUME NEW j \in Job PROVE ~Work(j)
    BY <2>1 DEF Work, Unsubmitted, Start, StartFails, LookUpText, LookUpFails,
       ProbeOriginal, Convert, ConvertFails, SaveConversion, SaveConversionFails,
       RejectBlank, FinishUnmined, Parse, ReadFails, Reread, PersistQuestions,
       PersistFails, Complete, UpdateCounters, CountersFail, KeepOriginal,
       DropBlob, DropOriginal, DropFails
  <2>4. ASSUME Discard PROVE status' = "deleted"
    BY <2>4 DEF Discard, SelectForDiscard, DropBlob, DropOriginal, DropFails, docVars, statusVars
  <2> QED
    BY <2>2, <2>3, <2>4 DEF Next, FindDuplicate, RestoreOriginal, DeleteDocument,
       Restart, docVars, statusVars, vars
<1> QED
  BY <1>1, <1>2, TypeCorrect, DeletedStep, PTL DEF Spec

-----------------------------------------------------------------------------
\* Nobody holds, reads or restores a file that never was.
LEMMA PlainStep == TypeOK /\ DeletedInv /\ PlainInv /\ [Next]_vars => PlainInv'
<1> SUFFICES ASSUME TypeOK, DeletedInv, PlainInv, [Next]_vars, setup'.plain PROVE PlainInv'
  BY DEF PlainInv
<1> USE DEF Move, Forget, Mark, statusVars, docVars, jobVars, apiVars, envVars, TypeOK, PlainInv,
            DeletedInv, Unsubmitted, Readable
<1>a. Command \in Actor /\ Job \subseteq Actor
  BY DEF Actor
<1>1. ASSUME NEW j \in Job, NEW p \in Requests, Admit(j, p) PROVE PlainInv'
  BY <1>1 DEF Admit
<1>2. ASSUME NEW j \in Job, Submit(j) PROVE PlainInv'
  BY <1>2 DEF Submit
<1>3. ASSUME NEW j \in Job, SubmitFails(j) PROVE PlainInv'
  BY <1>3 DEF SubmitFails
<1>4. ASSUME NEW j \in Job, Reparse(j) PROVE PlainInv'
  BY <1>4 DEF Reparse
<1>5. ASSUME NEW j \in Job, Announce(j) PROVE PlainInv'
  BY <1>5 DEF Announce
<1>6. ASSUME NEW j \in Job, NEW p \in Requests, Requeue(j, p) PROVE PlainInv'
  BY <1>6 DEF Requeue
<1>7. ASSUME NEW j \in Job, PatternConvert(j) PROVE PlainInv'
  BY <1>7, ConversionsAreReadings DEF PatternConvert
<1>8. ASSUME NEW j \in Job, PatternSave(j) PROVE PlainInv'
  BY <1>8 DEF PatternSave
<1>9. ASSUME FindDuplicate PROVE PlainInv'
  BY <1>9 DEF FindDuplicate
<1>10. ASSUME RestoreOriginal PROVE PlainInv'
  BY <1>10 DEF RestoreOriginal
<1>11. ASSUME DeleteDocument PROVE PlainInv'
  BY <1>11 DEF DeleteDocument
<1>12. ASSUME NEW j \in Job, Start(j) PROVE PlainInv'
  BY <1>12 DEF Start
<1>37. ASSUME NEW j \in Job, StartFails(j) PROVE PlainInv'
  BY <1>37, StartFailsMoves, <1>a DEF Actor
<1>13. ASSUME NEW j \in Job, LookUpText(j) PROVE PlainInv'
  BY <1>13 DEF LookUpText
<1>14. ASSUME NEW j \in Job, LookUpFails(j) PROVE PlainInv'
  <2>1. Error(j) /\ UNCHANGED <<text, blob, restoring, setup>>
    BY <1>14, ErrorMoves DEF LookUpFails, Fail
  <2>2. stage'[j] \in {"queued", "done"} /\ \A i \in Job \ {j} : stage'[i] = stage[i]
    BY <2>1, ErrorMoves DEF Actor
  <2>3. reading'[j] = NoText /\ \A i \in Job \ {j} : reading'[i] = reading[i]
    BY <2>1 DEF Error
  <2>4. status' # "deleted" => status # "deleted"
    BY <1>14 DEF LookUpFails, Fail
  <2> QED
    BY <2>1, <2>2, <2>3, <2>4
<1>15. ASSUME NEW j \in Job, ProbeOriginal(j) PROVE PlainInv'
  BY <1>15 DEF ProbeOriginal
<1>16. ASSUME NEW j \in Job, Convert(j) PROVE PlainInv'
  BY <1>16, ConversionsAreReadings DEF Convert
<1>17. ASSUME NEW j \in Job, ConvertFails(j) PROVE PlainInv'
  <2>1. Error(j) /\ UNCHANGED <<text, blob, restoring, setup>>
    BY <1>17, ErrorMoves DEF ConvertFails, Fail
  <2>2. stage'[j] \in {"queued", "done"} /\ \A i \in Job \ {j} : stage'[i] = stage[i]
    BY <2>1, ErrorMoves DEF Actor
  <2>3. reading'[j] = NoText /\ \A i \in Job \ {j} : reading'[i] = reading[i]
    BY <2>1 DEF Error
  <2>4. status' # "deleted" => status # "deleted"
    BY <1>17 DEF ConvertFails, Fail
  <2> QED
    BY <2>1, <2>2, <2>3, <2>4
<1>18. ASSUME NEW j \in Job, SaveConversion(j) PROVE PlainInv'
  BY <1>18 DEF SaveConversion
<1>19. ASSUME NEW j \in Job, SaveConversionFails(j) PROVE PlainInv'
  <2>1. Error(j) /\ UNCHANGED <<text, blob, restoring, setup>>
    BY <1>19, ErrorMoves DEF SaveConversionFails, Fail
  <2>2. stage'[j] \in {"queued", "done"} /\ \A i \in Job \ {j} : stage'[i] = stage[i]
    BY <2>1, ErrorMoves DEF Actor
  <2>3. reading'[j] = NoText /\ \A i \in Job \ {j} : reading'[i] = reading[i]
    BY <2>1 DEF Error
  <2>4. status' # "deleted" => status # "deleted"
    BY <1>19 DEF SaveConversionFails, Fail
  <2> QED
    BY <2>1, <2>2, <2>3, <2>4
<1>20. ASSUME NEW j \in Job, RejectBlank(j) PROVE PlainInv'
  <2>1. stage'[j] = "done" /\ \A i \in Job \ {j} : stage'[i] = stage[i]
    BY <1>20 DEF RejectBlank, Actor
  <2>2. reading'[j] = NoText /\ \A i \in Job \ {j} : reading'[i] = reading[i]
    BY <1>20 DEF RejectBlank
  <2>3. status # "deleted" /\ UNCHANGED <<text, blob, restoring, setup>>
    BY <1>20 DEF RejectBlank
  <2> QED
    BY <2>1, <2>2, <2>3
<1>21. ASSUME NEW j \in Job, FinishUnmined(j) PROVE PlainInv'
  <2>1. stage'[j] = "dropping" /\ \A i \in Job \ {j} : stage'[i] = stage[i]
    BY <1>21 DEF FinishUnmined, Actor
  <2>2. reading'[j] = NoText /\ \A i \in Job \ {j} : reading'[i] = reading[i]
    BY <1>21 DEF FinishUnmined
  <2>3. status # "deleted" /\ UNCHANGED <<text, blob, restoring, setup>>
    BY <1>21 DEF FinishUnmined
  <2> QED
    BY <2>1, <2>2, <2>3
<1>22. ASSUME NEW j \in Job, Parse(j) PROVE PlainInv'
  <2>1. ~WorthRereading(j)
    BY <1>22 DEF Parse, WorthRereading, Engine
  <2> QED
    BY <1>22, <2>1 DEF Parse
<1>23. ASSUME NEW j \in Job, ReadFails(j) PROVE PlainInv'
  <2>1. Error(j) /\ UNCHANGED <<text, blob, restoring, setup>>
    BY <1>23, ErrorMoves DEF ReadFails, Fail
  <2>2. stage'[j] \in {"queued", "done"} /\ \A i \in Job \ {j} : stage'[i] = stage[i]
    BY <2>1, ErrorMoves DEF Actor
  <2>3. reading'[j] = NoText /\ \A i \in Job \ {j} : reading'[i] = reading[i]
    BY <2>1 DEF Error
  <2>4. status' # "deleted" => status # "deleted"
    BY <1>23 DEF ReadFails, Fail
  <2> QED
    BY <2>1, <2>2, <2>3, <2>4
<1>24. ASSUME NEW j \in Job, Reread(j) PROVE PlainInv'
  BY <1>24, ConversionsAreReadings DEF Reread, KeepBetter
<1>25. ASSUME NEW j \in Job, PersistQuestions(j) PROVE PlainInv'
  BY <1>25 DEF PersistQuestions
<1>26. ASSUME NEW j \in Job, PersistFails(j) PROVE PlainInv'
  <2>1. Error(j) /\ UNCHANGED <<text, blob, restoring, setup>>
    BY <1>26, ErrorMoves DEF PersistFails, Fail
  <2>2. stage'[j] \in {"queued", "done"} /\ \A i \in Job \ {j} : stage'[i] = stage[i]
    BY <2>1, ErrorMoves DEF Actor
  <2>3. reading'[j] = NoText /\ \A i \in Job \ {j} : reading'[i] = reading[i]
    BY <2>1 DEF Error
  <2>4. status' # "deleted" => status # "deleted"
    BY <1>26 DEF PersistFails, Fail
  <2> QED
    BY <2>1, <2>2, <2>3, <2>4
<1>27. ASSUME NEW j \in Job, Complete(j) PROVE PlainInv'
  BY <1>27 DEF Complete
<1>28. ASSUME NEW j \in Job, UpdateCounters(j) PROVE PlainInv'
  BY <1>28 DEF UpdateCounters
<1>29. ASSUME NEW j \in Job, CountersFail(j) PROVE PlainInv'
  <2>1. Error(j) /\ UNCHANGED <<text, blob, restoring, setup>>
    BY <1>29, ErrorMoves DEF CountersFail
  <2>2. stage'[j] \in {"queued", "done"} /\ \A i \in Job \ {j} : stage'[i] = stage[i]
    BY <2>1, ErrorMoves DEF Actor
  <2>3. reading'[j] = NoText /\ \A i \in Job \ {j} : reading'[i] = reading[i]
    BY <2>1 DEF Error
  <2>4. status' # "deleted" => status # "deleted"
    BY <1>29 DEF CountersFail
  <2> QED
    BY <2>1, <2>2, <2>3, <2>4
<1>30. ASSUME NEW j \in Job, KeepOriginal(j) PROVE PlainInv'
  BY <1>30 DEF KeepOriginal
<1>31. ASSUME SelectForDiscard PROVE PlainInv'
  BY <1>31 DEF SelectForDiscard
<1>32. ASSUME NEW a \in Actor, DropBlob(a) PROVE PlainInv'
  BY <1>32 DEF DropBlob
<1>33. ASSUME NEW a \in Actor, DropOriginal(a) PROVE PlainInv'
  BY <1>33 DEF DropOriginal, DropCommit
<1>34. ASSUME NEW a \in Actor, DropFails(a) PROVE PlainInv'
  BY <1>34 DEF DropFails
<1>35. ASSUME Restart PROVE PlainInv'
  <2>1. UNCHANGED <<status, blob, text, setup>> /\ restoring' = FALSE
    BY <1>35, RestartMoves
  <2>2. \A j \in Job : stage'[j] \in {"absent", "queued", "done", "orphan"}
    BY <1>35, RestartMoves
  <2>3. \A j \in Job : reading'[j] = NoText
    BY <1>35, RestartMoves
  <2> QED
    BY <2>1, <2>2, <2>3
<1>36. CASE UNCHANGED vars
  BY <1>36 DEF vars
<1> QED
  BY <1>1, <1>2, <1>3, <1>4, <1>5, <1>6, <1>7, <1>8, <1>9, <1>10, <1>11,
     <1>12, <1>13, <1>14, <1>15, <1>16, <1>17, <1>18, <1>19, <1>20, <1>21,
     <1>22, <1>23, <1>24, <1>25, <1>26, <1>27, <1>28, <1>29, <1>30, <1>31,
     <1>32, <1>33, <1>34, <1>35, <1>36, <1>37, <1>a
  DEF Next, Request, Work, Discard

-----------------------------------------------------------------------------
\* While one actor of careful clients is under way, nothing else is.
LEMMA OthersIdle ==
  ASSUME CarefulInv, setup.serial, NEW a \in Actor, stage[a] \notin Idle
  PROVE  /\ \A b \in Actor \ {a} : stage[b] \in Idle
         /\ ~restoring
BY DEF CarefulInv, Alone

\* It is enough to look at the one that moved.
LEMMA OnlyOneMoved ==
  ASSUME NEW a \in Actor, Job \subseteq Actor,
         \A b \in Actor \ {a} : stage'[b] \in Idle,
         ~restoring',
         a \in Job => JobWork(a)',
         DropWork(a)',
         (status = "completed" /\ ~outdated => Whole)',
         (hasOriginal <=> blob)',
         (misled \/ HasMaterial)'
  PROVE  CarefulInv'
<1>1. ASSUME NEW b \in Job PROVE JobWork(b)'
  <2>1. CASE b = a
    BY <2>1
  <2>2. CASE b # a
    BY <2>2 DEF JobWork, Idle, Marking
  <2> QED
    BY <2>1, <2>2
<1>2. ASSUME NEW b \in Actor PROVE DropWork(b)'
  <2>1. CASE b = a
    BY <2>1
  <2>2. CASE b # a
    BY <2>2 DEF DropWork, Idle
  <2> QED
    BY <2>1, <2>2
<1>3. Alone'
  BY DEF Alone
<1> QED
  BY <1>1, <1>2, <1>3 DEF CarefulInv, WorkInHand

\* Clients that wait for each other never meet a half-made document.
LEMMA CarefulStep == TypeOK /\ DeletedInv /\ CarefulInv /\ [Next]_vars => CarefulInv'
<1> SUFFICES ASSUME TypeOK, DeletedInv, CarefulInv, [Next]_vars, setup'.serial PROVE CarefulInv'
  BY DEF CarefulInv
<1>b. setup.serial /\ setup' = setup
  BY DEF Next, Request, Work, Discard, Admit, Submit, SubmitFails, Reparse, Announce,
     Requeue, PatternConvert, PatternSave, Start, StartFails, LookUpText, LookUpFails,
     ProbeOriginal, Convert, ConvertFails, SaveConversion, SaveConversionFails,
     RejectBlank, FinishUnmined, Parse, ReadFails, Reread, PersistQuestions,
     PersistFails, Complete, UpdateCounters, CountersFail, KeepOriginal, DropBlob,
     DropOriginal, DropFails, SelectForDiscard, Fail, Error, FindDuplicate,
     RestoreOriginal, DeleteDocument, Restart, vars, envVars
<1> USE <1>b DEF Move, Forget, Mark, statusVars, docVars, jobVars, apiVars, envVars, TypeOK, CarefulInv,
            Alone, WorkInHand, JobWork, DropWork, Whole, Readable, HasMaterial, Idle,
            Marking, MayStart, Quiet, DeletedInv, Unsubmitted
<1>a. Command \in Actor /\ Job \subseteq Actor
  BY DEF Actor
<1>1. ASSUME NEW j \in Job, NEW p \in Requests, Admit(j, p) PROVE CarefulInv'
  BY <1>1 DEF Admit
<1>2. ASSUME NEW j \in Job, Submit(j) PROVE CarefulInv'
  BY <1>2 DEF Submit
<1>3. ASSUME NEW j \in Job, SubmitFails(j) PROVE CarefulInv'
  BY <1>3 DEF SubmitFails
<1>4. ASSUME NEW j \in Job, Reparse(j) PROVE CarefulInv'
  BY <1>4 DEF Reparse
<1>5. ASSUME NEW j \in Job, Announce(j) PROVE CarefulInv'
  BY <1>5 DEF Announce
<1>6. ASSUME NEW j \in Job, NEW p \in Requests, Requeue(j, p) PROVE CarefulInv'
  BY <1>6 DEF Requeue
<1>7. ASSUME NEW j \in Job, PatternConvert(j) PROVE CarefulInv'
  <2>1. /\ \A b \in Actor \ {j} : stage[b] \in Idle /\ stage'[b] = stage[b]
        /\ ~restoring' /\ j \in Actor /\ setup' = setup
    BY <1>7, OthersIdle DEF PatternConvert, Actor
  <2>2. JobWork(j)' /\ DropWork(j)'
    BY <1>7, <2>1, ConversionsAreReadings DEF PatternConvert
  <2>3. /\ (status = "completed" /\ ~outdated => Whole)' /\ (misled \/ HasMaterial)'
        /\ (hasOriginal <=> blob)'
    BY <1>7, <2>1, ConversionsAreReadings DEF PatternConvert
  <2> QED
    BY <2>1, <2>2, <2>3, OnlyOneMoved DEF Actor
<1>8. ASSUME NEW j \in Job, PatternSave(j) PROVE CarefulInv'
  <2>1. /\ \A b \in Actor \ {j} : stage[b] \in Idle /\ stage'[b] = stage[b]
        /\ ~restoring' /\ j \in Actor /\ setup' = setup
    BY <1>8, OthersIdle DEF PatternSave, Actor
  <2>2. JobWork(j)' /\ DropWork(j)'
    BY <1>8, <2>1 DEF PatternSave
  <2>3. /\ (status = "completed" /\ ~outdated => Whole)' /\ (misled \/ HasMaterial)'
        /\ (hasOriginal <=> blob)'
    BY <1>8, <2>1 DEF PatternSave
  <2> QED
    BY <2>1, <2>2, <2>3, OnlyOneMoved DEF Actor
<1>9. ASSUME FindDuplicate PROVE CarefulInv'
  BY <1>9 DEF FindDuplicate
<1>10. ASSUME RestoreOriginal PROVE CarefulInv'
  BY <1>10 DEF RestoreOriginal
<1>11. ASSUME DeleteDocument PROVE CarefulInv'
  <2>1. stage' = stage /\ (\A a \in Actor : stage[a] \in Idle) /\ status' = "deleted"
    BY <1>11 DEF DeleteDocument
  <2>2. Alone' /\ HasMaterial' /\ hasOriginal' = FALSE /\ blob' = FALSE
    BY <1>11, <2>1 DEF DeleteDocument
  <2>3. WorkInHand'
    BY <2>1 DEF Actor
  <2> QED
    BY <2>1, <2>2, <2>3
<1>12. ASSUME NEW j \in Job, Start(j) PROVE CarefulInv'
  BY <1>12 DEF Start
<1>37. ASSUME NEW j \in Job, StartFails(j) PROVE CarefulInv'
  <2>1. /\ \A b \in Actor \ {j} : stage[b] \in Idle /\ stage'[b] = stage[b]
        /\ ~restoring' /\ j \in Actor /\ setup' = setup
    BY <1>37, OthersIdle, StartFailsMoves DEF Actor
  <2>2. JobWork(j)' /\ DropWork(j)'
    BY <1>37, <2>1, StartFailsMoves
  <2>3. /\ (status = "completed" /\ ~outdated => Whole)' /\ (misled \/ HasMaterial)'
        /\ (hasOriginal <=> blob)'
    BY <1>37, <2>1, StartFailsMoves
  <2> QED
    BY <2>1, <2>2, <2>3, OnlyOneMoved DEF Actor
<1>13. ASSUME NEW j \in Job, LookUpText(j) PROVE CarefulInv'
  BY <1>13 DEF LookUpText
<1>14. ASSUME NEW j \in Job, LookUpFails(j) PROVE CarefulInv'
  <2>1. Error(j)
    BY <1>14 DEF LookUpFails, Fail
  <2> QED
    BY <2>1, ErrorMoves, <1>14 DEF LookUpFails, Fail, Actor
<1>15. ASSUME NEW j \in Job, ProbeOriginal(j) PROVE CarefulInv'
  BY <1>15 DEF ProbeOriginal
<1>16. ASSUME NEW j \in Job, Convert(j) PROVE CarefulInv'
  <2>1. /\ \A b \in Actor \ {j} : stage[b] \in Idle /\ stage'[b] = stage[b]
        /\ ~restoring' /\ j \in Actor /\ setup' = setup
    BY <1>16, OthersIdle DEF Convert, Actor
  <2>2. JobWork(j)' /\ DropWork(j)'
    BY <1>16, <2>1, ConversionsAreReadings DEF Convert
  <2>3. /\ (status = "completed" /\ ~outdated => Whole)' /\ (misled \/ HasMaterial)'
        /\ (hasOriginal <=> blob)'
    BY <1>16, <2>1, ConversionsAreReadings DEF Convert
  <2> QED
    BY <2>1, <2>2, <2>3, OnlyOneMoved DEF Actor
<1>17. ASSUME NEW j \in Job, ConvertFails(j) PROVE CarefulInv'
  <2>1. Error(j)
    BY <1>17 DEF ConvertFails, Fail
  <2> QED
    BY <2>1, ErrorMoves, <1>17 DEF ConvertFails, Fail, Actor
<1>18. ASSUME NEW j \in Job, SaveConversion(j) PROVE CarefulInv'
  <2>1. /\ \A b \in Actor \ {j} : stage[b] \in Idle /\ stage'[b] = stage[b]
        /\ ~restoring' /\ j \in Actor /\ setup' = setup
    BY <1>18, OthersIdle DEF SaveConversion, Actor
  <2>2. JobWork(j)' /\ DropWork(j)'
    BY <1>18, <2>1 DEF SaveConversion
  <2>3. /\ (status = "completed" /\ ~outdated => Whole)' /\ (misled \/ HasMaterial)'
        /\ (hasOriginal <=> blob)'
    BY <1>18, <2>1 DEF SaveConversion
  <2> QED
    BY <2>1, <2>2, <2>3, OnlyOneMoved DEF Actor
<1>19. ASSUME NEW j \in Job, SaveConversionFails(j) PROVE CarefulInv'
  <2>1. Error(j)
    BY <1>19 DEF SaveConversionFails, Fail
  <2> QED
    BY <2>1, ErrorMoves, <1>19 DEF SaveConversionFails, Fail, Actor
<1>20. ASSUME NEW j \in Job, RejectBlank(j) PROVE CarefulInv'
  <2>1. /\ \A b \in Actor \ {j} : stage[b] \in Idle /\ stage'[b] = stage[b]
        /\ ~restoring' /\ j \in Actor /\ setup' = setup
    BY <1>20, OthersIdle DEF RejectBlank, Actor
  <2>2. JobWork(j)' /\ DropWork(j)'
    BY <1>20, <2>1 DEF RejectBlank
  <2>3. /\ (status = "completed" /\ ~outdated => Whole)' /\ (misled \/ HasMaterial)'
        /\ (hasOriginal <=> blob)'
    BY <1>20, <2>1 DEF RejectBlank
  <2> QED
    BY <2>1, <2>2, <2>3, OnlyOneMoved DEF Actor
<1>21. ASSUME NEW j \in Job, FinishUnmined(j) PROVE CarefulInv'
  <2>1. /\ \A b \in Actor \ {j} : stage[b] \in Idle /\ stage'[b] = stage[b]
        /\ ~restoring' /\ j \in Actor /\ setup' = setup
    BY <1>21, OthersIdle DEF FinishUnmined, Actor
  <2>2. JobWork(j)' /\ DropWork(j)'
    BY <1>21, <2>1 DEF FinishUnmined
  <2>3. /\ (status = "completed" /\ ~outdated => Whole)' /\ (misled \/ HasMaterial)'
        /\ (hasOriginal <=> blob)'
    BY <1>21, <2>1 DEF FinishUnmined
  <2> QED
    BY <2>1, <2>2, <2>3, OnlyOneMoved DEF Actor
<1>22. ASSUME NEW j \in Job, Parse(j) PROVE CarefulInv'
  BY <1>22 DEF Parse
<1>23. ASSUME NEW j \in Job, ReadFails(j) PROVE CarefulInv'
  <2>1. Error(j)
    BY <1>23 DEF ReadFails, Fail
  <2> QED
    BY <2>1, ErrorMoves, <1>23 DEF ReadFails, Fail, Actor
<1>24. ASSUME NEW j \in Job, Reread(j) PROVE CarefulInv'
  <2>1. /\ \A b \in Actor \ {j} : stage[b] \in Idle /\ stage'[b] = stage[b]
        /\ ~restoring' /\ j \in Actor /\ setup' = setup
    BY <1>24, OthersIdle DEF Reread, KeepBetter, Actor
  <2>2. /\ stage[j] = "rereading" /\ UNCHANGED <<status, outdated, text>>
        /\ reading[j] = text /\ Readable(text) /\ (status # "completed" \/ outdated)
    BY <1>24 DEF Reread
  <2>3. CASE stage'[j] = "persisting" /\ reading' = reading
    BY <2>1, <2>2, <2>3, OnlyOneMoved, <1>24 DEF Reread, Actor
  <2>4. CASE \E r \in Conversions(Engine \ {reading[j].engine}) :
               TRUE \in Verdicts(r, reading[j]) /\ KeepBetter(j, r)
    <3>1. PICK r \in Conversions(Engine \ {reading[j].engine}) :
               TRUE \in Verdicts(r, reading[j]) /\ KeepBetter(j, r)
      BY <2>4
    <3>2. r.found # "blank"
      BY <3>1 DEF Verdicts
    <3>3. r # NoText
      BY <3>1, ConversionsAreReadings
    <3>4. stage'[j] = "resaving" /\ reading'[j] = r
      BY <3>1, <1>a DEF KeepBetter
    <3>5. JobWork(j)' /\ DropWork(j)'
      BY <3>2, <3>3, <3>4, <2>2
    <3> QED
      BY <2>1, <2>2, <3>5, OnlyOneMoved, <1>24 DEF Reread, Actor
  <2>5. \/ (stage'[j] = "persisting" /\ reading' = reading)
        \/ \E r \in Conversions(Engine \ {reading[j].engine}) :
               TRUE \in Verdicts(r, reading[j]) /\ KeepBetter(j, r)
    <3>1. ASSUME NEW r \in Conversions(Engine \ {reading[j].engine}),
                 NEW better \in Verdicts(r, reading[j]),
                 IF better THEN KeepBetter(j, r)
                 ELSE Move(j, "persisting") /\ UNCHANGED reading
          PROVE  \/ stage'[j] = "persisting" /\ reading' = reading
                 \/ TRUE \in Verdicts(r, reading[j]) /\ KeepBetter(j, r)
      <4>1. better \in BOOLEAN
        BY <3>1 DEF Verdicts
      <4> QED
        BY <3>1, <4>1, <1>a
    <3> QED
      BY <1>24, <3>1, <1>a DEF Reread
  <2> QED
    BY <2>3, <2>4, <2>5
<1>25. ASSUME NEW j \in Job, PersistQuestions(j) PROVE CarefulInv'
  <2>1. /\ \A b \in Actor \ {j} : stage[b] \in Idle /\ stage'[b] = stage[b]
        /\ ~restoring' /\ j \in Actor /\ setup' = setup
    BY <1>25, OthersIdle DEF PersistQuestions, Actor
  <2>2. JobWork(j)' /\ DropWork(j)'
    BY <1>25, <2>1 DEF PersistQuestions
  <2>3. /\ (status = "completed" /\ ~outdated => Whole)' /\ (misled \/ HasMaterial)'
        /\ (hasOriginal <=> blob)'
    BY <1>25, <2>1 DEF PersistQuestions
  <2> QED
    BY <2>1, <2>2, <2>3, OnlyOneMoved DEF Actor
<1>26. ASSUME NEW j \in Job, PersistFails(j) PROVE CarefulInv'
  <2>1. Error(j)
    BY <1>26 DEF PersistFails, Fail
  <2> QED
    BY <2>1, ErrorMoves, <1>26 DEF PersistFails, Fail, Actor
<1>27. ASSUME NEW j \in Job, Complete(j) PROVE CarefulInv'
  <2>1. /\ \A b \in Actor \ {j} : stage[b] \in Idle /\ stage'[b] = stage[b]
        /\ ~restoring' /\ j \in Actor /\ setup' = setup
    BY <1>27, OthersIdle DEF Complete, Actor
  <2>2. JobWork(j)' /\ DropWork(j)'
    BY <1>27, <2>1 DEF Complete
  <2>3. /\ (status = "completed" /\ ~outdated => Whole)' /\ (misled \/ HasMaterial)'
        /\ (hasOriginal <=> blob)'
    BY <1>27, <2>1 DEF Complete
  <2> QED
    BY <2>1, <2>2, <2>3, OnlyOneMoved DEF Actor
<1>28. ASSUME NEW j \in Job, UpdateCounters(j) PROVE CarefulInv'
  BY <1>28 DEF UpdateCounters
<1>29. ASSUME NEW j \in Job, CountersFail(j) PROVE CarefulInv'
  <2>1. Error(j)
    BY <1>29 DEF CountersFail
  <2> QED
    BY <2>1, ErrorMoves, <1>29 DEF CountersFail, Actor
<1>30. ASSUME NEW j \in Job, KeepOriginal(j) PROVE CarefulInv'
  BY <1>30 DEF KeepOriginal
<1>31. ASSUME SelectForDiscard PROVE CarefulInv'
  <2>1. /\ \A b \in Actor \ {Command} : stage[b] \in Idle /\ stage'[b] = stage[b]
        /\ ~restoring' /\ Command \in Actor /\ setup' = setup
    BY <1>31, OthersIdle DEF SelectForDiscard, Actor
  <2>2. DropWork(Command)'
    BY <1>31, <2>1 DEF SelectForDiscard
  <2>3. /\ (status = "completed" /\ ~outdated => Whole)' /\ (misled \/ HasMaterial)'
        /\ (hasOriginal <=> blob)'
    BY <1>31, <2>1 DEF SelectForDiscard
  <2> QED
    BY <2>1, <2>2, <2>3, OnlyOneMoved, DocumentAssumption DEF Actor
<1>32. ASSUME NEW a \in Actor, DropBlob(a) PROVE CarefulInv'
  BY <1>32 DEF DropBlob
<1>33. ASSUME NEW a \in Actor, DropOriginal(a) PROVE CarefulInv'
  <2>1. /\ \A b \in Actor \ {a} : stage[b] \in Idle /\ stage'[b] = stage[b]
        /\ ~restoring' /\ a \in Actor /\ setup' = setup
    BY <1>33, OthersIdle DEF DropOriginal, DropCommit, Actor
  <2>2. (a \in Job => JobWork(a)') /\ DropWork(a)'
    BY <1>33, <2>1 DEF DropOriginal, DropCommit
  <2>3. /\ (status = "completed" /\ ~outdated => Whole)' /\ (misled \/ HasMaterial)'
        /\ (hasOriginal <=> blob)'
    BY <1>33, <2>1 DEF DropOriginal, DropCommit
  <2> QED
    BY <2>1, <2>2, <2>3, OnlyOneMoved DEF Actor
<1>34. ASSUME NEW a \in Actor, DropFails(a) PROVE CarefulInv'
  BY <1>34 DEF DropFails
<1>35. ASSUME Restart PROVE CarefulInv'
  <2>1. /\ UNCHANGED <<status, outdated, hasOriginal, blob, text, questions, setup, misled>>
        /\ restoring' = FALSE
    BY <1>35, RestartMoves
  <2>2. \A j \in Job : stage'[j] \in {"absent", "queued", "done", "orphan"}
    BY <1>35, RestartMoves
  <2>3. \A a \in Actor : stage[a] \in Idle => stage'[a] \in Idle
    BY <1>35, RestartMoves DEF Actor
  <2>4. Alone'
    BY <2>1, <2>3
  <2>5. DropWork(Command)'
    BY <1>35, <2>1, RestartMoves, <1>a
  <2>6. WorkInHand'
    BY <2>2, <2>5 DEF Actor
  <2> QED
    BY <2>1, <2>4, <2>6
<1>36. CASE UNCHANGED vars
  BY <1>36 DEF vars
<1> QED
  BY <1>1, <1>2, <1>3, <1>4, <1>5, <1>6, <1>7, <1>8, <1>9, <1>10, <1>11,
     <1>12, <1>13, <1>14, <1>15, <1>16, <1>17, <1>18, <1>19, <1>20, <1>21,
     <1>22, <1>23, <1>24, <1>25, <1>26, <1>27, <1>28, <1>29, <1>30, <1>31,
     <1>32, <1>33, <1>34, <1>35, <1>36, <1>37, <1>a
  DEF Next, Request, Work, Discard

\* CarefulInv and what it rests on hold throughout.
LEMMA InvariantsHold == Spec => [](TypeOK /\ DeletedInv /\ PlainInv /\ CarefulInv)
<1>1. Init => DeletedInv
  BY DEF Init, DeletedInv
<1>2. Init => PlainInv
  <2> SUFFICES ASSUME Init, setup.plain PROVE PlainInv
    BY DEF PlainInv
  <2>1. blob = FALSE /\ text \in [engine : {"plain-text"}, found : setup.yield \ {"blank"}]
    BY DEF Init
  <2>2. setup.yield \in SUBSET Found
    BY DocumentAssumption DEF Init, Setup
  <2>3. text \in Reading
    BY <2>1, <2>2 DEF Reading
  <2>4. Readable(text) /\ text.engine = "plain-text"
    BY <2>1, <2>3, DocumentAssumption DEF Readable
  <2>5. \A j \in Job : stage[j] = "absent" /\ reading[j] = NoText
    BY DEF Init, Actor
  <2> QED
    BY <2>1, <2>4, <2>5 DEF Init, PlainInv
<1>3. Init => CarefulInv
  <2> SUFFICES ASSUME Init PROVE CarefulInv
    OBVIOUS
  <2>1. \A a \in Actor : stage[a] = "absent"
    BY DEF Init
  <2>2. Alone /\ WorkInHand
    BY <2>1 DEF Init, Alone, WorkInHand, JobWork, DropWork, Idle, Marking, Actor
  <2>3. HasMaterial
    <3>1. CASE setup.plain
      <4>1. PlainInv /\ status # "deleted"
        BY <1>2 DEF Init
      <4> QED
        BY <3>1, <4>1 DEF HasMaterial, PlainInv
    <3>2. CASE ~setup.plain
      BY <3>2 DEF Init, HasMaterial
    <3> QED
      BY <3>1, <3>2
  <2>4. status # "completed" /\ (hasOriginal <=> blob)
    BY DEF Init
  <2> QED
    BY <2>2, <2>3, <2>4 DEF CarefulInv
<1> QED
  BY <1>1, <1>2, <1>3, TypeCorrect, DeletedStep, PlainStep, CarefulStep, PTL DEF Spec

\* There is at every moment the file or a readable text of it to work from, for
\* clients that wait for each other and for documents that came as text
\* (discardOriginal, pipeline/text.go).
THEOREM MaterialHolds == Spec => []MaterialNeverLost
<1>1. PlainInv /\ CarefulInv => MaterialNeverLost
  BY DEF PlainInv, CarefulInv, MaterialNeverLost, HasMaterial
<1> QED
  BY <1>1, InvariantsHold, PTL

\* Between jobs a completed question paper has a readable text, and its questions
\* are that text's (runIngest, pipeline/ingest.go).
THEOREM CompletedHolds == Spec => []CompletedIsCoherent
<1>1. CarefulInv => CompletedIsCoherent
  BY DEF CarefulInv, Whole, CompletedIsCoherent
<1> QED
  BY <1>1, InvariantsHold, PTL

\* Between jobs a failed document can be read again or parsed again
\* (IngestDocument, handler/document.go).
THEOREM FailedHolds == Spec => []FailedCanBeRetried
<1>1. CarefulInv => FailedCanBeRetried
  <2> SUFFICES ASSUME CarefulInv, setup.serial, ~misled, status = "failed"
               PROVE  hasOriginal \/ Readable(text)
    BY DEF FailedCanBeRetried
  <2> QED
    BY DEF CarefulInv, HasMaterial
<1> QED
  BY <1>1, InvariantsHold, PTL

\* Between jobs has_original is exactly whether the file is there
\* (DiscardOriginal, pipeline/text.go).
THEOREM FlagReportsHolds == Spec => []FlagReportsFile
<1>1. CarefulInv => FlagReportsFile
  BY DEF CarefulInv, FlagReportsFile
<1> QED
  BY <1>1, InvariantsHold, PTL
=============================================================================
