---------------------------- MODULE DocumentIngest ----------------------------
(***************************************************************************)
(* One document from its upload on: the file held for reading, the text    *)
(* that replaces it, the questions mined from the text, and the jobs and   *)
(* requests that race over the three (pipeline/ingest.go, pipeline/text.go,*)
(* handler/document.go).                                                   *)
(*                                                                         *)
(* A step is one database statement or transaction with the local          *)
(* decisions that follow it.  A reading is what an engine made of the file;*)
(* only what later steps look at is kept of it: which engine, and what     *)
(* parsing it finds.  How jobs are claimed is JobQueue's subject: a queued *)
(* job starts at any time, and a failed one is retried or given up.        *)
(***************************************************************************)
EXTENDS Naturals, FiniteSets

CONSTANTS
  Job,       \* jobs that may ever touch the document
  Command,   \* the process run with -discard-originals
  NoText,    \* the document has no conversion row
  Setups     \* the documents, deployments and clients looked at

Engine  == {"geometry", "docling"}
Found   == {"blank", "none", "weak", "good"}
Reading == [engine : Engine \cup {"plain-text"}, found : Found]
Param   == {"reconvert", "parse_only", "fixed"}
Actor   == Job \cup {Command}
DocStatus == {"pending", "queued", "processing", "completed", "failed", "deleted"}

Setup == [
  kind          : {"question_paper", "answer_key", "syllabus"},
  plain         : BOOLEAN,        \* the extension is one of plainTextExtensions
  yield         : SUBSET Found,   \* what parsing a reading of it may find
  keepOriginals : BOOLEAN,        \* cfg.Upload.KeepOriginals
  maxTries      : Nat,            \* cfg.Worker.MaxAttempts
  maxRestarts   : Nat,            \* bound: how often the process restarts
  serial        : BOOLEAN ]       \* clients start nothing while something runs

ASSUME DocumentAssumption ==
  /\ Command \notin Job
  /\ NoText \notin Reading
  /\ Setups \subseteq Setup

VARIABLES
  status,       \* documents.status
  hasOriginal,  \* documents.has_original
  blob,         \* a document_blobs row exists
  text,         \* the document_conversions row: NoText or a Reading
  questions,    \* the reading the stored questions came from, or NoText
  stage,        \* [Actor -> where it is in its procedure]
  params,       \* [Job -> SUBSET Param]
  reading,      \* [Job -> the conversion it works on]
  tries,        \* [Job -> Nat]
  held,         \* [Actor -> BOOLEAN]: its DELETE of the blob is not committed
  announcing,   \* jobs inserted whose "queued" status write is still to come
  restoring,    \* an upload of the same bytes found has_original false
  restarts,
  outdated,     \* history: the status does not tell the last that happened to the
                \* document, because the write that would have told it failed
  misled,       \* history: the discarding command took it for completed then
  setup         \* one of Setups, and always the same

statusVars == <<status, outdated>>
docVars == <<statusVars, hasOriginal, blob, text, questions>>
jobVars == <<stage, params, reading, tries, held>>
apiVars == <<announcing, restoring>>
envVars == <<restarts, setup, misled>>
vars == <<docVars, jobVars, apiVars, envVars>>

\* What a request may ask for.  Naming an engine or refusing the fallback
\* ("fixed") makes no difference to a job that only parses.
Requests == {p \in SUBSET Param : ~({"parse_only", "fixed"} \subseteq p)}

\* Stages of a job between its claim and its last write.
Running == {"looking", "probing", "fetching", "saving", "read", "rereading",
            "resaving", "persisting", "completing", "counting", "dropping",
            "flagging", "patterning"}
Stage == {"absent", "admitted", "queued", "done", "orphan"} \cup Running

-----------------------------------------------------------------------------
\* Auxiliary predicates

\* A conversion row whose text is not blank.
Readable(t) == t # NoText /\ t.found # "blank"

\* What IngestDocument counts: ingest jobs queued or processing.
IngestRunning(j) == stage[j] \in {"queued", "orphan"} \cup (Running \ {"patterning"})

\* Nothing is under way.  A careful client starts nothing else before that.
Quiet ==
  /\ \A a \in Actor : stage[a] \in {"absent", "done"}
  /\ announcing = {}
  /\ ~restoring

MayStart == setup.serial => Quiet

\* An uncommitted DELETE of the blob's row makes every other writer of it wait.
BlobLocked == \E a \in Actor : held[a]

\* shouldRetryOtherEngine: a weak parse by an engine that has an alternative.
WorthRereading(j) ==
  /\ params[j] \cap {"parse_only", "fixed"} = {}
  /\ reading[j].engine \in Engine
  /\ reading[j].found \in {"none", "weak"}

\* betterParse: some questions beat none; otherwise counts and confidences
\* decide, which are not modelled.
Verdicts(candidate, incumbent) ==
  IF candidate.found \in {"blank", "none"} THEN {FALSE}
  ELSE IF incumbent.found = "none" THEN {TRUE}
  ELSE BOOLEAN

\* What converting the file with one of these engines may yield.
Conversions(engines) == [engine : engines, found : setup.yield]

\* setDocumentStatus, and the status write of enqueueIngest: one that fails is
\* logged or reported, and the work goes on under the status there was.
Mark(s) ==
  \/ status' = s /\ outdated' = FALSE
  \/ outdated' = TRUE /\ UNCHANGED status

Move(a, to) == stage' = [stage EXCEPT ![a] = to]

\* The conversion in the job's hands is a local variable.
Forget(j) == reading' = [reading EXCEPT ![j] = NoText]

-----------------------------------------------------------------------------
\* storeDocument: text is saved as text, anything else is held as a file.
Init ==
  /\ setup \in Setups
  /\ status = "pending" /\ outdated = FALSE
  /\ hasOriginal = ~setup.plain
  /\ blob = ~setup.plain
  /\ text \in IF setup.plain THEN [engine : {"plain-text"}, found : setup.yield \ {"blank"}]
              ELSE {NoText}
  /\ questions = NoText
  /\ stage = [a \in Actor |-> "absent"]
  /\ params = [j \in Job |-> {}]
  /\ reading = [j \in Job |-> NoText]
  /\ tries = [j \in Job |-> 0]
  /\ held = [a \in Actor |-> FALSE]
  /\ announcing = {}
  /\ restoring = FALSE
  /\ restarts = 0 /\ misled = FALSE

-----------------------------------------------------------------------------
\* Requests

\* IngestDocument, its checks: a fresh conversion needs the file, and no other
\* ingest of the document may be queued or processing, if they can be counted: a
\* count that fails is not noticed.
Admit(j, p) ==
  /\ stage[j] = "absent"
  /\ MayStart
  /\ status # "deleted"
  /\ "reconvert" \in p => hasOriginal
  /\ \E counted \in BOOLEAN : counted => \A i \in Job : ~IngestRunning(i)
  /\ Move(j, "admitted")
  /\ params' = [params EXCEPT ![j] = p]
  /\ UNCHANGED <<docVars, reading, tries, held, apiVars, envVars>>

\* enqueueIngest inserts the job; the document's row keeps it from vanishing.
Submit(j) ==
  /\ stage[j] = "admitted"
  /\ status # "deleted"
  /\ Move(j, "queued")
  /\ announcing' = announcing \cup {j}
  /\ UNCHANGED <<docVars, params, reading, tries, held, restoring, envVars>>

\* The insert fails: the document was deleted since the checks.
SubmitFails(j) ==
  /\ stage[j] = "admitted"
  /\ status = "deleted"
  /\ Move(j, "absent")
  /\ UNCHANGED <<docVars, params, reading, tries, held, apiVars, envVars>>

\* ReparseDocument and the automatic ingest of a plain-text upload: no check for
\* other ingests.
Reparse(j) ==
  /\ stage[j] = "absent"
  /\ MayStart
  /\ text # NoText
  /\ Move(j, "queued")
  /\ params' = [params EXCEPT ![j] = {"parse_only"}]
  /\ announcing' = announcing \cup {j}
  /\ UNCHANGED <<docVars, reading, tries, held, restoring, envVars>>

\* enqueueIngest's second statement, whatever has become of the job meanwhile.
Announce(j) ==
  /\ j \in announcing
  /\ Mark("queued")
  /\ announcing' = announcing \ {j}
  /\ UNCHANGED <<hasOriginal, blob, text, questions, jobVars, restoring, envVars>>

\* RetryJob and enqueueIngestForPatternDocs insert a job and write no status.
Requeue(j, p) ==
  /\ stage[j] = "absent"
  /\ MayStart
  /\ \/ \E old \in Job : stage[old] = "done" /\ params[old] = p
     \/ p = {"parse_only"} /\ text # NoText /\ questions = NoText
  /\ Move(j, "queued")
  /\ params' = [params EXCEPT ![j] = p]
  /\ UNCHANGED <<docVars, reading, tries, held, apiVars, envVars>>

\* storeDocument with the digest of this document: the file is held again.
FindDuplicate ==
  /\ MayStart
  /\ status # "deleted"
  /\ ~hasOriginal /\ ~setup.plain
  /\ ~restoring
  /\ restoring' = TRUE
  /\ UNCHANGED <<docVars, jobVars, announcing, envVars>>

RestoreOriginal ==
  /\ restoring
  /\ status # "deleted"
  /\ ~BlobLocked
  /\ blob' = TRUE
  /\ hasOriginal' = TRUE
  /\ restoring' = FALSE
  /\ UNCHANGED <<statusVars, text, questions, jobVars, announcing, envVars>>

\* DeleteDocument.  The jobs table refers to the document, so once a job was
\* inserted the transaction fails and changes nothing.
DeleteDocument ==
  /\ MayStart
  /\ status # "deleted"
  /\ ~BlobLocked
  /\ \A j \in Job : stage[j] \in {"absent", "admitted", "patterning"}
  /\ status' = "deleted" /\ outdated' = FALSE
  /\ blob' = FALSE
  /\ hasOriginal' = FALSE
  /\ text' = NoText
  /\ questions' = NoText
  /\ UNCHANGED <<jobVars, apiVars, envVars>>

-----------------------------------------------------------------------------
\* An ingest job: runIngest

\* A worker has claimed the job and marks the document.
Start(j) ==
  /\ stage[j] = "queued"
  /\ Move(j, "looking")
  /\ tries' = [tries EXCEPT ![j] = @ + 1]
  /\ Mark("processing")
  /\ UNCHANGED <<hasOriginal, blob, text, questions, params, reading, held,
                 apiVars, envVars>>

\* The job ends with an error: it is queued for another try while there are
\* some left; without, or once cancelled, it is over.
Error(j) ==
  /\ \/ tries[j] < setup.maxTries /\ Move(j, "queued")
     \/ Move(j, "done")
  /\ Forget(j)
  /\ UNCHANGED <<hasOriginal, blob, text, questions, params, tries, held, apiVars,
                 envVars>>

\* Mutation of Fail: the error path forgets the document.
FailSilently(j) == UNCHANGED statusVars /\ Error(j)

\* Most error paths mark the document first.
Fail(j) == Mark("failed") /\ Error(j)

\* The document or the parameters cannot be loaded: the job ends before it has
\* marked anything, and a "processing" from an earlier try or another job is
\* nobody's.
StartFails(j) ==
  /\ stage[j] = "queued"
  /\ tries' = [tries EXCEPT ![j] = @ + 1]
  /\ outdated' = (outdated \/ status = "processing")
  /\ UNCHANGED status
  /\ \/ tries'[j] < setup.maxTries /\ UNCHANGED stage
     \/ Move(j, "done")
  /\ UNCHANGED <<hasOriginal, blob, text, questions, params, reading, held, apiVars,
                 envVars>>

\* ensureConversion: a cached text is used unless a fresh reading is wanted.
LookUpText(j) ==
  /\ stage[j] = "looking"
  /\ Readable(text) \/ "parse_only" \notin params[j]
  /\ reading' = [reading EXCEPT ![j] = text]
  /\ Move(j, IF ~Readable(text) THEN "fetching"
             ELSE IF "reconvert" \in params[j] THEN "probing"
             ELSE "read")
  /\ UNCHANGED <<docVars, params, tries, held, apiVars, envVars>>

\* ensureConversion: there is nothing to parse, or the text cannot be loaded.
LookUpFails(j) == stage[j] = "looking" /\ Fail(j)

\* ensureConversion: without the file the cached text will do.  A count that
\* fails passes for a file that is there.
ProbeOriginal(j) ==
  /\ stage[j] = "probing"
  /\ \E present \in {blob, TRUE} : Move(j, IF present THEN "fetching" ELSE "read")
  /\ UNCHANGED <<docVars, params, reading, tries, held, apiVars, envVars>>

\* convert: load the bytes, have the converter read them.
Convert(j) ==
  /\ stage[j] = "fetching"
  /\ blob
  /\ \E r \in Conversions(Engine) : reading' = [reading EXCEPT ![j] = r]
  /\ Move(j, "saving")
  /\ UNCHANGED <<docVars, params, tries, held, apiVars, envVars>>

\* convert: the file is gone (errOriginalNotKept), or the converter fails.
ConvertFails(j) == stage[j] = "fetching" /\ Fail(j)

\* Mutation of SaveConversion: the file is given up as soon as it was converted.
SaveConversionUnflags(j) ==
  /\ stage[j] \in {"saving", "resaving"}
  /\ text' = reading[j]
  /\ hasOriginal' = FALSE
  /\ Move(j, IF stage[j] = "saving" THEN "read" ELSE "persisting")
  /\ UNCHANGED <<statusVars, blob, questions, params, reading, tries, held, apiVars, envVars>>

\* saveConversion: the new reading replaces the text, blank or not.
SaveConversion(j) ==
  /\ stage[j] \in {"saving", "resaving"}
  /\ text' = reading[j]
  /\ Move(j, IF stage[j] = "saving" THEN "read" ELSE "persisting")
  /\ UNCHANGED <<statusVars, hasOriginal, blob, questions, params, reading,
                 tries, held, apiVars, envVars>>

SaveConversionFails(j) == stage[j] \in {"saving", "resaving"} /\ Fail(j)

\* Mutation of RejectBlank: the file is dropped on every way out.
RejectBlankDiscards(j) ==
  /\ stage[j] = "read"
  /\ reading[j].found = "blank"
  /\ Mark("failed")
  /\ Move(j, "dropping")
  /\ Forget(j)
  /\ UNCHANGED <<hasOriginal, blob, text, questions, params, tries, held, apiVars,
                 envVars>>

\* A reading without text fails the document, though the job succeeds.
RejectBlank(j) ==
  /\ stage[j] = "read"
  /\ reading[j].found = "blank"
  /\ Mark("failed")
  /\ Move(j, "done")
  /\ Forget(j)
  /\ UNCHANGED <<hasOriginal, blob, text, questions, params, tries, held, apiVars,
                 envVars>>

\* An answer key is applied to other documents' questions, a syllabus is only
\* stored: both are then complete.
FinishUnmined(j) ==
  /\ stage[j] = "read"
  /\ reading[j].found # "blank"
  /\ setup.kind # "question_paper"
  /\ Mark("completed")
  /\ Move(j, "dropping")
  /\ Forget(j)
  /\ UNCHANGED <<hasOriginal, blob, text, questions, params, tries, held, apiVars,
                 envVars>>

\* parseDocument, and whether the parse deserves a second reading.
Parse(j) ==
  /\ stage[j] = "read"
  /\ reading[j].found # "blank"
  /\ setup.kind = "question_paper"
  /\ Move(j, IF WorthRereading(j) THEN "rereading" ELSE "persisting")
  /\ UNCHANGED <<docVars, params, reading, tries, held, apiVars, envVars>>

\* Parsing, or applying an answer key, fails on the database.
ReadFails(j) ==
  /\ stage[j] = "read"
  /\ reading[j].found # "blank"
  /\ setup.kind # "syllabus"
  /\ Fail(j)

\* Mutation of KeepBetter: the losing reading stays the document's text.
KeepBetterUnsaved(j, r) ==
  /\ reading' = [reading EXCEPT ![j] = r]
  /\ Move(j, "persisting")

\* The reading that is kept becomes the document's text on record.
KeepBetter(j, r) ==
  /\ reading' = [reading EXCEPT ![j] = r]
  /\ Move(j, "resaving")

\* retryOtherEngine: the other engine reads the file, if it is still there and
\* if that works out; the better reading is kept.
Reread(j) ==
  /\ stage[j] = "rereading"
  /\ \/ /\ blob
        /\ \E r \in Conversions(Engine \ {reading[j].engine}) :
             \E better \in Verdicts(r, reading[j]) :
               IF better THEN KeepBetter(j, r)
               ELSE Move(j, "persisting") /\ UNCHANGED reading
     \/ Move(j, "persisting") /\ UNCHANGED reading
  /\ UNCHANGED <<docVars, params, tries, held, apiVars, envVars>>

\* persistQuestions: what the document contributed before is replaced, unless
\* the parse found nothing at all.
PersistQuestions(j) ==
  /\ stage[j] = "persisting"
  /\ questions' = IF reading[j].found = "none" THEN questions ELSE reading[j]
  /\ Move(j, "completing")
  /\ Forget(j)
  /\ UNCHANGED <<statusVars, hasOriginal, blob, text, params, tries, held, apiVars,
                 envVars>>

PersistFails(j) == stage[j] = "persisting" /\ Fail(j)

Complete(j) ==
  /\ stage[j] = "completing"
  /\ Mark("completed")
  /\ Move(j, "counting")
  /\ UNCHANGED <<hasOriginal, blob, text, questions, params, reading, tries, held,
                 apiVars, envVars>>

UpdateCounters(j) ==
  /\ stage[j] = "counting"
  /\ Move(j, "dropping")
  /\ UNCHANGED <<docVars, params, reading, tries, held, apiVars, envVars>>

\* The counters cannot be written: the job fails, the document stays completed.
CountersFail(j) == stage[j] = "counting" /\ UNCHANGED statusVars /\ Error(j)

-----------------------------------------------------------------------------
\* discardOriginal, and the command that does it for documents of old

\* DiscardConvertedOriginals selects the document by what its status says.
SelectForDiscard ==
  /\ stage[Command] \in {"absent", "done"}
  /\ MayStart
  /\ status = "completed"
  /\ blob
  /\ text # NoText
  /\ Move(Command, "dropping")
  /\ misled' = (misled \/ outdated)
  /\ UNCHANGED <<docVars, params, reading, tries, held, apiVars, restarts, setup>>

\* This deployment keeps originals.  The command does not look at the setting.
KeepOriginal(j) ==
  /\ stage[j] = "dropping"
  /\ setup.keepOriginals
  /\ Move(j, "done")
  /\ UNCHANGED <<docVars, params, reading, tries, held, apiVars, envVars>>

\* DiscardOriginal, its DELETE: it locks the row it sees, and misses a row that
\* is inserted later.
DropBlob(a) ==
  /\ stage[a] = "dropping"
  /\ a = Command \/ ~setup.keepOriginals
  /\ ~BlobLocked
  /\ held' = [held EXCEPT ![a] = blob]
  /\ Move(a, "flagging")
  /\ UNCHANGED <<docVars, params, reading, tries, apiVars, envVars>>

\* Mutation of DropCommit: the file goes, the flag stays.
DropCommitUnflagged(a) ==
  /\ blob' = (blob /\ ~held[a])
  /\ hasOriginal' = hasOriginal

\* DiscardOriginal, its UPDATE and the commit.
DropCommit(a) ==
  /\ blob' = (blob /\ ~held[a])
  /\ hasOriginal' = FALSE

DropOriginal(a) ==
  /\ stage[a] = "flagging"
  /\ DropCommit(a)
  /\ held' = [held EXCEPT ![a] = FALSE]
  /\ Move(a, "done")
  /\ UNCHANGED <<statusVars, text, questions, params, reading, tries, apiVars, envVars>>

\* The transaction fails and rolls back: logged, the ingest is done all the same.
DropFails(a) ==
  /\ stage[a] = "flagging"
  /\ held' = [held EXCEPT ![a] = FALSE]
  /\ Move(a, "done")
  /\ UNCHANGED <<docVars, params, reading, tries, apiVars, envVars>>

-----------------------------------------------------------------------------
\* Pattern analysis reads the document too: ensureConversion without an ingest.
\* It writes a text where there was none, and neither status nor file.
PatternConvert(j) ==
  /\ stage[j] = "absent"
  /\ MayStart
  /\ ~Readable(text)
  /\ blob
  /\ \E r \in Conversions(Engine) : reading' = [reading EXCEPT ![j] = r]
  /\ Move(j, "patterning")
  /\ UNCHANGED <<docVars, params, tries, held, apiVars, envVars>>

PatternSave(j) ==
  /\ stage[j] = "patterning"
  /\ IF status = "deleted" THEN UNCHANGED text
     ELSE text' = reading[j]
  /\ Move(j, "absent")
  /\ Forget(j)
  /\ UNCHANGED <<statusVars, hasOriginal, blob, questions, params, tries, held,
                 apiVars, envVars>>

-----------------------------------------------------------------------------
\* The process ends and starts again.  Requests and transactions under way are
\* gone.  Of the jobs that were processing, now or before, the stale ones are
\* queued again; the others stay processing with nobody at work on them.
Restart ==
  /\ restarts < setup.maxRestarts
  /\ restarts' = restarts + 1
  /\ \E requeued \in SUBSET Job :
       stage' = [a \in Actor |->
         IF a = Command \/ stage[a] \in {"absent", "queued", "done"} THEN stage[a]
         ELSE IF stage[a] \in {"admitted", "patterning"} THEN "absent"
         ELSE IF a \in requeued THEN "queued" ELSE "orphan"]
  /\ held' = [a \in Actor |-> a = Command /\ held[a]]
  /\ reading' = [j \in Job |-> NoText]
  /\ announcing' = {}
  /\ restoring' = FALSE
  /\ UNCHANGED <<docVars, params, tries, setup, misled>>

-----------------------------------------------------------------------------
\* What a worker does by itself once it has taken the job.
Work(j) ==
  \/ Start(j) \/ StartFails(j)
  \/ LookUpText(j) \/ LookUpFails(j) \/ ProbeOriginal(j)
  \/ Convert(j) \/ ConvertFails(j)
  \/ SaveConversion(j) \/ SaveConversionFails(j)
  \/ RejectBlank(j) \/ FinishUnmined(j) \/ Parse(j) \/ ReadFails(j)
  \/ Reread(j)
  \/ PersistQuestions(j) \/ PersistFails(j)
  \/ Complete(j) \/ UpdateCounters(j) \/ CountersFail(j)
  \/ KeepOriginal(j) \/ DropBlob(j) \/ DropOriginal(j) \/ DropFails(j)

Discard ==
  \/ SelectForDiscard
  \/ DropBlob(Command) \/ DropOriginal(Command) \/ DropFails(Command)

Request(j) ==
  \/ \E p \in Requests : Admit(j, p)
  \/ Submit(j) \/ SubmitFails(j)
  \/ Reparse(j)
  \/ Announce(j)
  \/ \E p \in Requests : Requeue(j, p)
  \/ PatternConvert(j) \/ PatternSave(j)

Next ==
  \/ \E j \in Job : Request(j)
  \/ FindDuplicate \/ RestoreOriginal \/ DeleteDocument
  \/ \E j \in Job : Work(j)
  \/ Discard
  \/ Restart

Spec == Init /\ [][Next]_vars

-----------------------------------------------------------------------------
\* Properties

TypeOK ==
  /\ status \in DocStatus
  /\ hasOriginal \in BOOLEAN
  /\ blob \in BOOLEAN
  /\ text \in Reading \cup {NoText}
  /\ questions \in Reading \cup {NoText}
  /\ setup \in Setups
  /\ stage \in [Actor -> Stage]
  /\ params \in [Job -> SUBSET Param]
  /\ reading \in [Job -> Reading \cup {NoText}]
  /\ tries \in [Job -> Nat]
  /\ held \in [Actor -> BOOLEAN]
  /\ announcing \in SUBSET Job
  /\ restoring \in BOOLEAN
  /\ restarts \in Nat
  /\ outdated \in BOOLEAN
  /\ misled \in BOOLEAN

\* The API offers a fresh reading exactly when has_original says so: whatever
\* restores, discards and failures overlap, it never promises a file that is gone.
OriginalFlagIsTrue == hasOriginal => blob

\* A document marked processing has a job in progress, or one that a restart put
\* back or left behind, although several jobs and requests write the same status.
\* Only a status write that failed, or a job that failed before its first, leaves
\* it marked with nobody at work.
ProcessingMeansJob ==
  status = "processing" /\ ~outdated =>
    \E j \in Job : stage[j] \in Running \cup {"queued", "orphan"}

\* The file is dropped only for a text: while clients wait for each other, there
\* is at every moment the file or a readable text of it to work from, unless the
\* discarding command went by a "completed" that no longer held.
HasMaterial == status # "deleted" => blob \/ Readable(text)
MaterialNeverLost == (setup.serial /\ ~misled) \/ setup.plain => HasMaterial

\* Between jobs, a completed question paper is all of one piece: its text can be
\* read, and its questions came from that text, unless it holds none to find.  A
\* "completed" left standing by a write that failed says nothing of the kind.
CompletedIsCoherent ==
  (/\ setup.serial /\ Quiet
   /\ status = "completed" /\ ~outdated
   /\ setup.kind = "question_paper") =>
    /\ Readable(text)
    /\ questions = text \/ text.found = "none"

\* A failed reading leaves the file where it is: between jobs, a document marked
\* failed can be read again from its file or parsed again from its text.
FailedCanBeRetried ==
  (setup.serial /\ ~misled /\ Quiet /\ status = "failed") => hasOriginal \/ Readable(text)

\* Between jobs the flag and the file agree, also in a deployment that keeps its
\* originals and after a restart in the middle of a discard.
FlagReportsFile == setup.serial /\ Quiet => (hasOriginal <=> blob)

=============================================================================
