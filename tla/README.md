# Formal models of the mock-paper creator

The program turns exam papers into a bank of questions and the bank into new
papers: documents are uploaded and read, questions are extracted, judged and
linked to exams, and papers are built, checked, published and printed. A Go
server (`src/backend`) does this with a PostgreSQL database and a pool of
background workers, a Python service (`src/services/converter`) reads the files,
and a browser client (`src/frontend`) drives both through the API.

Almost everything that can go wrong here goes wrong *between* two statements:
the database runs at its default read-committed level, handlers read rows, spend
seconds or minutes and write back, several workers and any number of requests do
so at once, and the process may stop at any point. The modules below model the
parts of the program where that matters, one database statement or transaction
at a time.

    tlc  -config JobQueue.cfg MCJobQueue     check one run
    tlapm TablesProofs.tla                   check one module's proofs

The other half of the program turns text into questions and questions into
papers, without concurrency but with many conventions and much rounding. There
the models are functions, translated from the code, and what TLC enumerates is
their inputs: papers printed line by line, papers observed one after another,
banks of questions and requests.


## 1. Inventory

Paths are relative to `src/backend/internal/` unless they start with `services/`
or `cmd/`.

| Part | Its state | Its operations | Hard behaviour | What makes it correct |
|---|---|---|---|---|
| Job queue and worker pool (`pipeline/runner.go`, `models/job.go`) | rows of `jobs`: status, attempts, cancel flag, start time; per worker the job and its context | enqueue, claim (`FOR UPDATE SKIP LOCKED`), run, finish, retry, request a cancel, watch for it, recover at start, shut down | several workers; a cancel at any moment; writes that fail and are only logged; crashes and shutdowns | one worker per job, outcomes are final, attempts bounded, every job finishes, restarts lose nothing |
| Job handlers (`handler/job.go`) | - | cancel, retry as a new job, list | races with the workers | as above |
| Server process (`cmd/server`) | up, draining, down | start, signal, drain, exit; `-discard-originals` | a second process discards files while the server runs | as above and below |
| Document ingest (`pipeline/ingest.go`, `pipeline/text.go`) | document row, its file (`document_blobs`), its text (`document_conversions`), its questions | convert, save the text, re-read with the other engine, extract, persist, complete, discard the file; parse only | the file is given up for the text; retries, overlapping jobs, cancels and crashes between the statements | there is always something to read from; flags and statuses tell the truth |
| Document handlers (`handler/document.go`) | - | upload, upload again, ingest, re-parse, edit, attach to an exam, delete | check-then-act on has_original and on running jobs | as above |
| Exam links (`pipeline/links.go`), exam handlers (`handler/exam.go`) | `question_exam_links`, `exam_associations`, `questions.origin_exam_id` | link what is ingested or written, rebuild an exam's links, lend to borrowers; create, change, delete associations and exams | derived rows kept up to date by several writers without locks | an exam uses its own questions and what its associations lend, no more and no less |
| Question persistence (`pipeline/persist.go`) | `questions`, options, passages | replace a document's questions, reuse equal ones by hash, keep those some paper uses; apply an answer key | reads and writes of rows other documents and papers use | see links; nothing a paper uses is lost |
| Question audit (`pipeline/audit.go`), quality rules (`quality/`), question and review handlers | `questions.quality_status`, `.status`, `.model_checked` | audit a batch, recheck one, accept, reject, edit, set the status, delete | a batch read once and written minutes later; people meanwhile | approval and verdict agree; a person's rejection stands |
| Paper build (`pipeline/paper.go`, `blueprint/build.go`) | `test_papers`, sections, items | choose questions, save the paper | choice and save are apart | a paper holds what its check says |
| Paper check (`pipeline/paperqa.go`, `quality/paper.go`) and paper handlers | `test_papers.status`, `.quality_status` | check, publish, withdraw, delete, export | the verdict written minutes after the read | only a passing paper is published |
| Converter client (`converter/client.go`), converter tasks (`services/converter/app/tasks.py`) | calls; a registry of tasks in memory, a queue and a pool of threads | submit, poll, fetch, give up, cancel; register, evict, convert, restart | timeouts, requests that are lost, cancels against a start, two assignments read without the lock | a call returns, with a document only if one was read; the pool never stands still |
| Pattern handlers (`handler/pattern.go`), saving a pattern (`pipeline/pattern.go`) | `exam_patterns`, `pattern_sections` | create, analyse, activate, edit, delete, read for a build | version = maximum + 1, one active, without a lock on the exam | versions distinct, one active, totals match sections, used versions stay unless a count fails or the exam goes |
| Pattern analysis (`pattern/`) | none | infer sections, counts, marks and duration from parsed papers | papers that disagree; one that was read badly; order; rounding | what is inferred is what the papers agree on |
| Blueprint scaling (`blueprint/build.go`) | none | scale sections, split difficulties, choose, report the supply | rounding, shortage, series | the plan covers the request, no question twice, the mix kept |
| Extraction (`extract/`) | none | detect a document's conventions, read it line by line, fold in preambles, keys and solutions | numbers that are options, options that are headings, text that belongs to nobody | a paper is read as it is printed |
| Taxonomy (`handler/taxonomy.go`), subjects of exams | `subjects`, `topics`, `exam_subjects`, and what questions say of them | create, edit, delete, list; extraction and analysis file things by what they read earlier | check-then-act; soft deletion, so foreign keys still hold | nothing lives under what was deleted unless it came late |
| Conversion engine, language model (`llm/`), rendering (`render/`), database set-up, configuration, router, frontend, scripts | none, or a semaphore | - | - | see section 8 |

How they interact. Handlers write rows and enqueue jobs; the workers claim the
jobs and run them (ingest, pattern analysis, paper build, question audit, paper
check), each against the same tables the handlers use. An ingest calls the
converter and waits for it, replaces the document's text and questions, links
the questions to exams, and ends by giving up the file and enqueueing an audit.
The audit calls the language model. A paper build reads the questions its exam
is linked to that have passed; the check of the paper reads them again. Nothing
but rows, row locks, unique indexes and foreign keys coordinates any of this.


## 2. Modules

| Module | What it is |
|---|---|
| `JobLedger` | What the queue promises: entries taken by one holder at a time, settled for good or given back |
| `JobQueue` | The runner as it is, statement by statement; `ImplementsLedger` maps it to the ledger |
| `DocumentIngest` | One document: file, text, questions, and all jobs and requests that race over them |
| `QuestionGate` | Verdict and status of questions: audits, rechecks, people |
| `PaperGate` | Extends `QuestionGate` by one paper: build, checks, publication, deletion of questions |
| `ExamLinks` | Exams, associations, the links of questions, and their writers |
| `ConversionCall` | What a conversion promises the pipeline: it returns once, with a document only if one was read |
| `ConverterTasks` | The backend's call and the service's registry and threads; `ImplementsCall` maps it to the promise |
| `PatternVersions` | The versions of one exam's pattern: transactions under READ COMMITTED, row by row |
| `Lists` | The two loops both of the next share: what of a list is in a set, and what a list of numbers comes to |
| `PatternDraft`, `PaperPlan` | Functions: what is inferred from papers; how a paper is planned, filled and its supply reported |
| `Blueprint` | Papers read, a pattern inferred or entered, papers built and series of them: the functions at work |
| `PaperLayout` | Functions: how options are labelled, how questions are numbered, where the answers begin |
| `PrintedPaper` | A printer of papers in one convention with disturbances, for the detectors to see through |
| `PaperParser`, `PaperAnswers` | Functions: the parser's reaction to a line; preambles, keys and solutions folded in |
| `Extraction` | A printer that sets a line, and the parser that reads it, in one step |
| `Taxonomy` | Subjects, topics, subjects of exams, and the questions filed under them |
| `MC...` | The instances TLC checks |
| `ListFacts` | Lemmas: induction over a set of numbers, least and greatest, what the loops of `Lists` compute |
| `TablesProofs` | Theorems about `JobQueue` and `Taxonomy`, for every value of the constants |
| `PaperProofs` | Theorems about `ConverterTasks` and `PrintedPaper` (papers that come in) and `PaperGate` (papers that go out) |
| other `...Proofs` | Theorems about the module they are named after |

`JobQueue` and `DocumentIngest` meet in one place: a job that is queued may be
started at any time, fail, be tried again up to `maxTries`, or be left behind by
a restart. That is what `DocumentIngest` assumes of the queue, and what
`JobLedger` states of it. `PaperGate` composes with `QuestionGate` by extending
it: every step of a question is a step of the paper's module, which notes what
changed since each check read it. `ConversionCall` is what `DocumentIngest` takes
a conversion to be: a step that ends with a text or with an error. `Blueprint`
composes the two modules of functions around a bank that stands still; that it
does not is the subject of `PaperGate`, and that the pattern does not of
`PatternVersions`. `Extraction` takes the style that `PaperLayout` detects as
given, and `PrintedPaper` shows that it is detected.

Each module's actions bear the names of what they model; PROJECT.json lists the
lines. How state corresponds to code:

* `JobQueue`: `status`, `attempts`, `cancelRequested` are the columns; `stale`
  stands for `started_at` older than `StaleAfter`; `feed` is the order of
  `created_at`; `pc` and `job` are where each worker is in `loop` and `execute`;
  `tripped` is its cancelled context; `verdict` what it is about to write;
  `cancelling` the requests between the two statements of `RequestCancel`;
  `proc` the process.
* `DocumentIngest`: `status`, `hasOriginal` are columns of the document, `blob`
  says whether its file's row exists, `text` and `questions` say which reading
  they came from; `stage` is where each job is in `runIngest`, `held` that its
  deletion of the file is not yet committed (`DiscardOriginal` is one
  transaction of two statements), `announcing` a request between the insert of
  its job and the status it then writes, `restoring` an upload between its look
  at `has_original` and the restoring of the file. `Mark`
  is `setDocumentStatus`, whose failure is logged and nothing else; `outdated` and
  `misled` are history: that the status does not tell the last that happened to
  the document, because a write failed or a job failed before its first, and that
  the discarding command took such a document for completed.
* `QuestionGate`, `PaperGate`: `quality`, `status`, `modelChecked` are columns,
  `view` is what each audit and recheck has read, `check` what each check of the
  paper has read and concluded, `selection` a chosen paper not yet saved,
  `publishing` and `deleting` the requests between their read and their write.
  `vouched`, `rejected`, `withdrawn`, `overtaken`, `moved` and `drift` are history:
  what people said last when nobody at work had read otherwise, whether the last
  check failed the paper between the two steps of a publication, and which
  questions changed since a check read them. A text is known by what the rules
  find in it: sound, doubtful, broken or corrupted.
* `ExamLinks`: `row`, `origin`, `subject`, `document` are columns of questions,
  `terms`, `associations`, `enabled` the associations, `link` the unique row per
  question and exam. `writer` is an ingest or a request between its reads and
  its commit, `request` an association's request from its write to the end of
  its rebuild. `gave` is history: which exams ever contributed a question.
* `ConverterTasks`: `call` is where `Convert` stands, `ctx` and `late` its
  context and deadline, `seen` the status its last poll returned, `deletes` the
  cancel requests on their way; `tracked` the registry's dictionary, `status`,
  `flag`, `finished`, `result` a task's fields, `queue` and `work` the executor.
  Between `StoreResult` and `StoreStatus` lie the two assignments that complete a
  task, under the lock; `Poll` and `Fetch` take no lock, as the endpoints do.
* `PatternVersions`: `pattern` and `blocks` are the committed rows; `req[r].rows`,
  `made` and `struck` what an open transaction has written and locked, `todo` the
  rows its current statement still waits for, `exam` whether the exam is there.
  `raced` and `overlooked` are history: the kinds of overlap that have happened,
  and the versions deleted, or about to be, without regard to their papers: the
  count failed, it was taken before the paper was stored, or the exam went.
* `PatternDraft`: a section printed in a paper is known by its *place*, the paper
  and its position there, and a group of sightings (`collectGroups`) by the place
  of the first; the stable sort of the sections is a rank by average order, then
  by first sighting.
* `Blueprint`: `observed` are the papers parsed so far, `draft` the inferred
  pattern before it is saved, `sections` the active pattern's rows, `report` what
  `Inspect` said and the sections a count of which failed (`uncounted`), `plans` what `scaleSections` returned, `filled` per section the
  candidates that were free and those chosen, `papers` what was stored.
* `Taxonomy`: `open` holds what each request or job has looked at before it
  writes. `late` and `mistagged` are history: what was put under a subject after
  its questions were counted, and the questions given a topic that was deleted;
  `stranded` are the questions under a subject whose count failed ("blind"
  deletions).
* `Extraction`, `PrintedPaper`: `doc` (the lines as the patterns see them) and
  `sheet` (what the printer means by them) grow together; `p` is the parser's
  state with the fields of `parseBody`.

A *setup* is a state variable fixed at the start: which requests happen, which
texts or readings there are, whether statements fail, and whether clients wait.
One run then looks at several deployments and habits at once, and a property
that needs an assumption names it: `serial` and `waits` say that clients start
nothing while something is at work. They matter because the program leaves that
to its users. What happens without it is described in section 4.


## 3. Runs

| Run | Question | Bounds | Result |
|---|---|---|---|
| `JobQueue` | Is a job ever in two hands, settled twice, lost, or cancelled unasked? Does the queue implement the ledger? | two workers, two jobs, two attempts, two boots, one failing statement | holds, 624 000 states |
| `JobQueueLive` | Does every job finish? | one worker, two jobs, the same limits | holds, 219 000 |
| `JobQueueShutdown` | main.go: "Drain in-flight work on shutdown rather than losing it" | one worker, one job | violated |
| `DocumentIngest` | Is there always a file or a text? Do flags and statuses tell the truth? | two jobs, both engines, two tries, one restart, status writes that fail, four setups | holds, 5.0 million |
| `PaperGate` | Do approval, rejection, a paper's pass and its publication mean what they say? | one or two questions, one audit, one recheck, two checks, four setups | holds, 817 000 |
| `ExamLinks` | Is every link explained, does an exam keep its own, does it get what it borrows? | two questions, three exams, two subjects, two associations, two writers, two requests, five setups | holds, 818 000 |
| `ConverterTasks` | Does a call return, with a document only if one was read? Does the pool move on? | two calls, one thread, one restart of the service | holds, 391 000 |
| `PatternVersions` | What survives of versions, the active one and the totals when requests overlap? | two open requests out of four, three versions, at most one section | holds, 694 000 |
| `Blueprint` | Is what is inferred what the papers agree on, and does a built paper keep to the plan? | up to three of seven papers; three patterns by hand; two banks, five requests, two papers built | holds, 14 400 |
| `PrintedPaper` | Is the convention a paper is printed in found, and its answers? | seven conventions, up to three questions, one disturbance | holds, 318 000 |
| `Extraction` | Is a paper read as it is printed? | five lines (six where options look like numbers), three styles, a key or solutions behind four | holds, 584 000 |
| `Taxonomy` | What remains under a deleted subject or topic? | two subjects, one topic, one question, one exam, two requests open | holds, 1.08 million |

Why these bounds are enough to be worth something: two of everything that
competes is what every race here needs, and the interesting cases do occur in
them, since each property is broken by a small plausible mistake in the code
(the mutants of PROJECT.json). Two boots give one recovery, two attempts one
retry, and one failing statement hits each statement in turn. Three exams are
what a chain of borrowing needs. Two calls on one thread are what a queue and an
eviction behind it need; a second thread adds nothing but symmetric copies.
Three papers are the least for which there is a majority, two sections the
least for which the last absorbs what rounding leaves. Six lines hold a question with its options in rows, a preamble or a
heading before it and the start of the next; the parser keeps no state that
reaches further back than the open question, the open preambles, and the last
number, and the theorems of `ExtractionProofs` need no bound. `CHECK_DEADLOCK FALSE` is set where the system may stop: one document,
one paper, a stock of questions or a bounded number of requests can run out of
things to do. Symmetry is used for interchangeable workers, jobs, checks,
writers, requests and exams, in safety runs only.

Fairness of `JobQueueLive`. A goroutine that can run does; every handler
returns, since each wait in it has a time limit; the watcher's ticker fires; a
cancel request that has read goes on to write; the drain ends because
`Shutdown` waits for a bounded time; and the process is started again
(`restart: unless-stopped` in docker-compose.yml). No fairness is assumed of
requests, crashes, failures or the passing of `StaleAfter`. Hence the two
properties: a job finishes unless a restart or a failed write interferes
(`EverySubmittedJobFinishes`), and even then none waits in the queue for ever.

Fairness of `ConverterTasks`. Every request to the service has a time limit
(`http.Client`), so it ends, with an answer or an error; the ticker of `Convert`
fires and its deadline passes; an idle thread of the executor takes what is
queued. That an engine returns from a file is not assumed: nothing in the
service limits it. A call returns all the same (the liveness half of
`ImplementsCall`), while the queue moves only if engines return, which is the
premise `EngineReturns` of `QueueMoves`.


## 4. Findings

`JobQueueShutdown` is the one run that ends in a violation: a shutdown cancels
the running jobs' contexts, and `execute` records them as cancelled, a final
status (`pipeline/runner.go:210`), where `cmd/server/main.go:147` promises to
"Drain in-flight work on shutdown rather than losing it".

Five more things the repository says of itself are not so. They have no run of
their own; without the condition named, the property beside them is violated by
the model as well (each was checked so once).

* Publishing goes by the verdict it read (`handler/paper.go:233`): a check that
  fails the paper in between finds it a draft and takes nothing back, where
  `pipeline/paperqa.go:165` says "A paper that no longer passes cannot stay
  published". Hence `overtaken` in `PublishedPassedUnlessOvertaken`.
* An ingest that has read the associations (`pipeline/links.go:45`) and one
  created before it commits do not see each other, so the borrower gets none of
  these questions, where `pipeline/links.go:24` says they are linked "to every exam
  that borrows from it". Hence `waits` in `BorrowersKeepUpWhenWaiting`.
* Two saves that both activate, and overlap, leave two active versions
  (`pipeline/pattern.go:177`), where `models/pattern.go:13` says "exactly one version
  per exam is active at a time". Hence `raced` in `OneActiveUnlessRaced`.
* Sections are rounded one by one and get at least one question each, and the
  last cannot get fewer than none, so the plan can exceed what was asked for
  (`blueprint/build.go:347`), where line 352 says "the total lands exactly". Hence
  the bound in `PlanCoversRequest`.
* The count that guards the deletion of a subject is taken before its
  transaction, and its error is dropped (`handler/taxonomy.go:191`), where line 183
  says it refuses "while questions still reference it". Hence `late` and
  `stranded` in `DeletedSubjectsKeepNothing`.

Errors that are dropped. In six places an error is logged at most and the code
goes on, and the models do as well: a status write (`pipeline/ingest.go:616`), and
counts that read as 0 when they fail, of papers (`handler/pattern.go:369`), of
questions under a subject (`handler/taxonomy.go:191`), of a section's supply
(`blueprint/build.go:661`), of a question's uses (`handler/question.go:524`) and of
running ingests (`handler/document.go:720`).

Noticed while modelling, where the models say what the code does and no property
claims otherwise:

Jobs and documents

* Recovery at start requeues only jobs older than `StaleAfter` (45 minutes,
  `pipeline/runner.go:93`) and never looks again, so a job that a quick restart
  interrupts stays *processing*; the README's lines 93-94 say it is requeued.
* `MaxAttempts` is documented as retries (`config/config.go:101`) and counts
  starts (`pipeline/runner.go:216`).
* Overlapping readings can leave a document with neither its file nor a text
  (`pipeline/ingest.go:453`): a job or an analysis that read the file earlier
  saves a conversion without text over the good one after another has dropped
  the file. Hence `serial` in `MaterialNeverLost`.
* A file uploaded again to be re-read is dropped by a re-parse that never looked
  at it (`pipeline/ingest.go:291`, against `handler/document.go:209`).
* `-discard-originals` selects documents first; one that begins to be read again
  before its turn loses its file then (`pipeline/text.go:165`).
* A file restored between the two statements of `DiscardOriginal` is left
  unflagged (`pipeline/text.go:138`).
* A new reading without any question keeps the questions of the old one
  (`pipeline/persist.go:55`).
* `enqueueIngest` writes *queued* on the document after its job is visible, so
  it can overwrite what a fast worker already wrote (`handler/document.go:433`).
* The look for the same bytes at upload is apart from the insert
  (`handler/document.go:207`): two uploads at once make two documents.
* `DeleteDocument` fails once a job refers to the document.

Questions and papers

* An audit that is cancelled reports itself completed (`pipeline/audit.go:149`),
  and an audit replaces the findings of people.
* A check writes back the paper's status it read at its start, undoing a
  withdrawal; an audit or a recheck does the same to a rejection. Hence
  `withdrawn` and `rejected` leave out the requests that came while one that had
  read otherwise was at work, and only those (`Withdraw`, `Undisputed`).
* An edited question keeps the verdict on its old text. A paper build that is
  retried after its save makes a second paper.

Exams and subjects

* `Updates` writes the new exam into the very struct the handler then compares
  with, so attaching a document never links anything (`handler/document.go:853`).
* `CreateAssociation` is not one transaction with its rebuild
  (`handler/exam.go:447`): if that fails, a second attempt is refused as a
  duplicate.
* `DeleteAssociation` deletes the association before its links, which their
  foreign key refuses: only an association without links (disabled first) can be
  deleted. `DeleteExam` likewise fails while another exam's links come from it.
* A question given another subject keeps the links of associations for its old
  one until the borrower's links are rebuilt; hence `BorrowersKeepUpWhenWaiting`
  excludes reclassification. A question reused by a second exam's document is
  lent on by that exam only until the next rebuild, which goes by origin.
* `UpdateTopic`, `UpdateQuestion` and the bulk update accept a subject or topic
  that is soft-deleted, or a topic of another subject; subjects are linked to an
  exam without a look at whether they live. Hence `late` and `mistagged`.

Converter and patterns

* A cancellation that arrives while a poll is in flight makes `Convert` return
  without cancelling the remote task (`converter/client.go:370`, against the
  comment at 340): it is converted for nobody.
* Two versions can have one number after overlapping saves
  (`pipeline/pattern.go:171`). Hence `raced`.
* `DeleteExam` deletes the versions of its pattern without a look at the papers
  built from them (`handler/exam.go:252`), which `DeletePattern` refuses to; a
  version saved after it has read them loses its row but keeps its sections.
* Weightages are rounded after the shares are made to sum to 100, so they need
  not (`pattern/analyze.go:312`), and the adjustment never finds anything to do.
  A subject with two headings in one paper counts as seen in two papers.
* `Inspect` can report a paper buildable that comes out short: it counts a
  question once for each section that could use it. No handler ever sets
  `AllowUnvetted`.

Extraction. Each of these is a form of paper that `Extraction` or `PrintedPaper`
leaves out, because the parser is not written for it:

* A preamble directly before a heading carries into the new section
  (`extract/parser.go:396`, against 394), so the printer sets no heading there.
* Of two directions without a range in a row, the first reaches questions that
  were printed before it.
* A lead-in or a long foreign text right after a last option that stands alone
  on its line joins the option, or sets its text aside. Text after an answer
  line joins the stem.
* Labels beyond the options a question has are lost.
* Numbering that starts again in each section: preambles, keys and solutions go
  by number alone.
* A section of questions before the first heading is listed last.
* A heading like "Solutions" in the body, within 400 lines of the key, is taken
  as the key's start; a line that starts with "1." in the first question of a
  paper whose numbering starts later moves the start to 1.
* With options labelled by digits and numbers without a prefix, a paper that
  starts at question 3 may have a question taken for an option; a paper of two
  questions, the second numbered one beyond the option count, is given one
  option too many; a list of statements in roman numerals in every question
  outvotes the digits.
* A number that is skipped right behind options that stand alone on their lines, in
  documents where a question is complete only with all of them: the last one has
  not been counted yet. A long foreign text behind a row of fewer than four
  options, which is too short to be told from them. A range of questions from
  2000 on, which is taken for years.


## 5. Properties

What each says is in the comment above it. In short:

* Queue: `SoleOwner`, `OrphansOnlyFromFaults`, `CancelledOnlyIfAsked`,
  `ImplementsLedger` and the two liveness properties; proved beside them
  `OwnedIsProcessing`, `TerminalIsFinal`, `AttemptsBounded`.
* Document: `OriginalFlagIsTrue` and `ProcessingMeansJob` hold however clients
  behave, the second unless the status is one a failed write left behind; `MaterialNeverLost`, `CompletedIsCoherent`, `FailedCanBeRetried` and
  the proved `FlagReportsFile` where they wait for each other.
* Questions and papers: `ApprovalFollowsGate` and `PassMeansChecked` hold whatever
  overlaps; so do `RejectionStands`, `PublishedPassedUnlessOvertaken` and the
  proved `WithdrawnStays`, each but for the one overlap it names.
* Links: `LinksExplained` (nothing is lent onwards, and every borrowed link has
  its association on record) and `OwnMaterial` hold whatever overlaps;
  `BorrowersKeepUpWhenWaiting` where nothing overlaps or fails and questions
  keep their subject.
* Converter: a call that succeeds has a document although the endpoints read a
  task's fields without the lock that guards them (`NoEmptySuccess`); a task
  that is over stays over, except that one cancelled before a thread looked at
  it may still be taken (`FinalUnlessTaken`); a call behaves like the promise
  of `ConversionCall` (`ImplementsCall`); the queue moves (`QueueMoves`).
* Patterns: `OneActiveUnlessRaced` and `VersionsDistinctUnlessRaced` hold but
  for overlaps of one named kind each, in every interleaving of the others;
  `TotalsMatchSections` holds whatever overlaps; `UsedPatternsStay` names the
  three ways in which a version that papers refer to is deleted after all, and
  `ActiveLostOnlyByDelete` the two in which an exam loses its active version: it
  is deleted, or a version deleted meanwhile is activated.
* Analysis and papers: `DraftFollowsPapers` (agreement is kept, one odd paper
  does not matter, order does not matter), `PlanCoversRequest` (never less than
  asked for, more only by less than one question per section and with nothing left
  for the last one), `PaperSound`, `MixHonoured`, `SupplyNeverUnderstated` (but for
  counts that failed).
* Extraction: `ConventionDetected`, `RowsSplitAsPrinted`, `AnswersFound` of the
  detectors, `ReadAsPrinted`, `PreamblesAsPrinted`, `AnswersByPrecedence` of the
  parser. The printer knows what it means, the parser sees only the lines.
* Taxonomy: `DeletedSubjectsKeepNothing` and `DeletedTopicsTagNothing` say that
  nothing is filed under what was deleted except what the history shows to have
  been under way at that moment, sent so by a client, or there when the count
  that should have refused the deletion failed.


## 6. Proofs

TLAPS proves these for every value of the constants: any number of jobs,
workers, questions, exams, requests, any set of setups that has the right type.

* `TablesProofs`, the queue. `OwnershipInv` joins the types with where a worker's job is:
  a busy worker has a job, its row says *processing* or is locked, and no other
  worker has it. From it follow `SoleOwner`, `OwnedIsProcessing`,
  `TerminalIsFinal` (whoever writes a status owns a row that is processing, or
  recovers one while every worker is off) and the refinement of `JobLedger`: each
  step moves the ledger or leaves it. `AttemptsInv` counts the restarts that a
  row's attempts can owe. `AskedInv` follows a cancellation from the request to
  the tripped context to the verdict, and gives `CancelledOnlyIfAsked`.
  `HeldInv` says that without a restart or a failed write every processing row
  is somebody's, and gives `OrphansOnlyFromFaults`.
* `DocumentIngestProofs`. `OriginalFlagIsTrue` is inductive with the types.
  `MarkedByJob` leaves out the stages that have already written a verdict.
  `DeletedInv` says that nothing of a deleted document remains, so that the
  other arguments need not fear it. `PlainInv` covers text that never had a
  file. `CarefulInv` says, for clients that wait, that one actor at most is at
  work and what its stage has established about file, text and questions; the
  four properties of careful clients follow from it at rest.
* `PaperProofs`, the gate. `QuestionInv` adds to the question's properties that a
  rejected question was read as rejected. `PaperInv` adds what a check in
  progress has judged (`JudgedRight`), that while a publication is under way its
  paper has passed or a check has failed it since (`PublishingPassed`), and that
  a withdrawn paper was read as such (`WithdrawnRead`).
* `ExamLinksProofs`. `LinksInv` adds what writers and rebuilds remember across
  their transactions: the terms of the lenders they read never change
  (`WriterRight`, `RebuildRight`), a link a rebuild is about to clear is never
  one of the exam's own, a question that does not exist has no links, and an
  origin is an exam that gave the question. `WaitingInv` is for clients that wait
  and statements that succeed: one writer or one request at most is at work, the
  associations it has read are those there still are, and a question that an
  enabled association lends is linked to the borrower unless the one at work
  still owes that link. At rest nobody owes any, which is
  `BorrowersKeepUpWhenWaiting`.
* `PaperProofs`, the service. `NoEmptySuccess` needs to know of every place a status
  is remembered (`seen`, a reply on its way) that it was true (`Truthful`): a
  task called completed has its result. `CancelledLate` says who can still take
  a cancelled task, `Unborn`, `Queued` and `Phase` tie a call to its task and the
  task to the executor. The same invariant gives `FinalUnlessTaken`, that only a
  call that has given up cancels (`OnlyReturnedCancel`), and the safety half of
  the refinement: each step of the service is a step or a stutter of
  `ConversionCall` (`CallIsImplemented`).
* `TablesProofs`, the catalogue. `CatalogueInv` says of each request between its look and its write
  what may have changed meanwhile, and that the history has it on record.
* `PaperProofs`, the printed paper. `RowOK` says that the labels on a line are
  those of a citation, if any, and then the options printed. The runs of such a
  list are worked out for each citation (`RunsOfRow`): the options are one run,
  or the end of one that begins with the citation, and no other run starts at the
  option that is due, so `RowsSplitAsPrinted` follows for any number of options.
  `RearOK` says where headings can stand in a paper of any length: on the cover,
  and behind the questions, the first line there with a heading, the second with
  as many pairs as a key must have. The window in which `FindRegions` counts pairs
  sees that line (`PairsNearby`, by induction along the sum), the answers begin
  behind the first fifth because every question is a line at least
  (`PrintedAssumption` bounds the answers by them), and `AnswersFound` follows.
* `ExtractionProofs`, the parser. The run stops at six lines; the theorems do not:
  they hold for documents of any length, any number of options from two on, any
  threshold and any key behind the questions. While the parser reads, `ReaderOK` relates
  it to what the printer means. `FiledOK`: every question filed is the one printed.
  `NumbersOK`: printed numbers increase, and the parser knows the last. `OpenOK`: the
  open question is the one being printed once the buffer is counted where it is
  due, which is why the parser may hold back text it has not assigned. `PhaseOK`: in
  each phase of the printer, which option the parser is at, where text goes and
  whether a blank line is on record. `LengthsOK`: options stay too short for the test
  for overlong ones, and what is meant to spill is long enough. `ContextsOK`: each
  preamble has the text printed and reaches the numbers printed under it so far, the
  one that waits for its first question apart. None of these is inductive alone: a
  line is taken for what it is (`Class...`) because of where the parser
  stands, and the parser stands there because every line before was. A step of a
  document is one lemma for each form of line (`Hears...`), of two halves: how the
  line is classified, and what its handler does. `Parses` is the last step. The folds of
  `PaperAnswers` are shown to give each question, by itself, its preamble
  (`WithContexts`), the pair of the key with the greatest claim (`KeyDecides`, from
  `Pairs` and `Before`), a solution's answer only where there was none, and flags that
  change neither (`Folds`); the sections' summary lists each section once with its count
  (`Summarizes`). Together they are `ReadAsPrinted`, `PreamblesAsPrinted` and
  `AnswersByPrecedence`. `ParserAssumption` and `PrinterAssumption` are what they
  assume: at least two options, a numbering that may skip one question, and a key
  made of pairs of numbers.
* `PatternVersionsProofs`. `IInv` says what each open transaction has established
  about the committed rows and what others therefore may not undo: what it has
  written is the committed row but for what its request changes (`RowsRight`); the
  number it has read is above every living one (`VersionAbove`); an activation has
  written every living row it must clear (`Cleared`); an edit holds its row
  (`Held`) and has struck that row's sections before it adds new ones
  (`SectionsRight`); no paper refers to what a deletion has counted, unless it is
  on record as overlooked (`Uncounted`). No two transactions have written the same row
  (`Apart`), so a commit takes none of this from the others, but for the overlaps
  that `raced` records. The five properties follow.
* `BlueprintProofs`. `PaperInv` says that a plan is the request scaled over the
  pattern's sections and the report what `Inspect` gives for both, that every
  section filled so far was filled by `SelectForSection` from the candidates that
  neither the request nor an earlier section had used, that a draft is the
  analysis of the papers read, and that bank, request and sections are well
  formed; for this every draft has to be (`DraftTyped`), for papers of any shape.
  The four properties of papers follow from what the
  functions do for all arguments: `ChoiceFills` (the backfill stops at the wanted
  number or when every bucket is empty, and has met every target it could),
  `WantsCover` (what the last section is left makes up for all rounding before
  it), and that the supply is counted over a superset of the candidates.
  `DraftFollowsPapers` is about the analysis as a function, for any papers. Every
  key sighted is one group (`OneGroup`) and every group that counts is one section,
  at the place its rank says (`SectionsListed`, `ListedByKey`). Papers with the
  same sections sight each at the same place of all, so its median, its average
  order and its rank are its own (`AlikeSeen`, `AlikeListed`). One bad paper adds
  at most one sighting, and both vote counts ignore one: the median
  (`MisprintOutvoted`) and the running mode, shown to end at the value stated most
  often (`ModeMostStated`, `MisprintIgnored`). Another order of the papers moves
  every sighting to a place of its own (`PlacesMoved`), which no median, mode or
  total can tell (`MedianInAnyOrder`, `ModeInAnyOrder`, `TotalMoved`).

Assumptions on constants are the named ASSUMEs of the modules: sentinels are not
members of the sets they stand outside of, bounds are numbers, setups are
well formed. TLC evaluates them in the runs. Those of `Blueprint` say what a
parsed paper, a pattern entered by hand, a request and a bank look like: finite
banks, difficulties out of the three the code knows, totals and counts that may be
negative, and mixes whose shares are not, as `models/base.go:177` means them ("the
target share of each difficulty, in percent"; nothing enforces it, and with a
negative share of easy questions the medium ones get more than the section has).
`HeadingAssumption` only says that the labels the code itself writes are labels.

Only model-checked: liveness (fairness and ENABLED are beyond the prover), that
is `JobQueueLive`, `QueueMoves` and the liveness half of `ImplementsCall`; and
`ConventionDetected`. The detectors behind it score the lines of a whole paper and
compare the scores of all styles; the property holds because of
margins between them that depend on the particular conventions, on how
many questions a paper has and on what disturbs it, and it fails for some papers of one
or two questions (section 4). So there is nothing to state for every
convention, and the run covers the ones that exist.
No module declares a RECURSIVE operator.


## 7. Abstractions

* A step is a statement or a transaction. Inside a transaction, the reads that
  other transactions can outdate are steps of their own; a read that can only
  refuse a request is taken with the write it guards.
* Texts, readings, verdicts of the language model, hashes and subjects are
  members of small sets or nondeterministic choices. The rules' verdict on a
  text follows from its class.
* Progress, stages, counters, timings, log lines and wording are left out.
* Time is left out: a retried job may start at once, `StaleAfter` passes at any
  moment (`Age`), time limits expire when they like.
* `ExamLinks` leaves out questions written for no exam (they get no link),
  requests that name another exam's association, relevance, and the deletion of
  documents (refused once a job refers to them).
* `ConverterTasks` follows one file per call and leaves out the endpoint that
  converts synchronously, which the backend does not use. The service's store is
  lost in a restart; a call then polls a task nobody knows.
* `PatternVersions` follows the sections of a version as blocks written
  together, which is how every statement treats them. Of `DeleteExam` it has the
  versions and sections; the links, associations and origins that go with the exam
  are in `ExamLinks`, the rows of `exam_subjects` nowhere. A deletion whose count of
  papers fails goes on; elsewhere, an error that ends a request before it has
  written anything is left out, or is `Rollback`.
* `Blueprint`: one analysis and one build at a time. Marks and shares are in
  hundredths, and rounding is the code's. A shuffle is any choice among equals.
* Extraction: a line is what the regular expressions find on it (a number,
  labels, a range, a heading), never its characters; its length matters only to
  the test for overlong options; a section without a title is called "none".
  The whole-document sweep for a key
  (`extract/parser.go:141`) is left out, and so are three things no printed line
  leads to: directions whose range is implausible, options in digits where
  questions are numbered with a Q, and a label cited at the very place the first
  option would stand at. Warnings, confidence, hashing and the scoring of topics are left out.


## 8. Not modelled, and what is left

Not modelled because it has no state that could go wrong between two steps, or
only text: the conversion engine's geometry, quality heuristics, grounding,
rendering, database set-up, configuration, routing, the inspection command, the
frontend and the scripts. The renderer's semaphore guards nothing but its own
two slots.

Left for later:

1. Applying an answer key to other documents' questions, which are read outside
   the transaction that writes them.
2. A condition on conventions from which `ConventionDetected` follows for papers of any
   length.
3. The attachment of a document and a pending rebuild of an association after a
   crash, beside the writers of `ExamLinks`.
