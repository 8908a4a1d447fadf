------------------------------- MODULE JobQueue -------------------------------
(***************************************************************************)
(* The job table and the worker pool (backend/internal/pipeline/runner.go),*)
(* the handlers that add, cancel and retry jobs (handler/job.go), and the  *)
(* life of the API process that owns the pool (cmd/server/main.go).        *)
(*                                                                         *)
(* A step is one database statement or transaction, or one local decision. *)
(* What a job computes is not here: a run ends with nil, with              *)
(* context.Canceled when its context is done, or with another error.       *)
(* Stage, progress, counters, result and error texts are left out.         *)
(***************************************************************************)
EXTENDS Naturals, Sequences

CONSTANTS
  Job,          \* rows the jobs table may ever hold
  Worker,       \* goroutines of the pool: cfg.Worker.Concurrency, at least 1
  NoJob,        \* what a worker without a job has
  MaxAttempts,  \* cfg.Worker.MaxAttempts
  MaxBoots,     \* bound: how often the process starts
  MaxDBErrors   \* bound: how many statements of the runner fail

ASSUME QueueAssumption ==
  /\ NoJob \notin Job
  /\ MaxAttempts \in Nat \ {0}
  /\ MaxBoots \in Nat \ {0}
  /\ MaxDBErrors \in Nat

VARIABLES
  status,           \* [Job -> Status]; "absent" while the row does not exist
  attempts,         \* [Job -> Nat]
  cancelRequested,  \* [Job -> BOOLEAN]
  stale,            \* [Job -> BOOLEAN]: started_at is older than StaleAfter
  feed,             \* the rows in created_at order
  cancelling,       \* jobs RequestCancel has read as unfinished, flag not yet set
  pc,               \* [Worker -> Place]
  job,              \* [Worker -> Job \cup {NoJob}]
  tripped,          \* [Worker -> BOOLEAN]: watchCancel cancelled the job's context
  verdict,          \* [Worker -> Verdict]: what execute will write
  proc,             \* the process: "down", "up" or "draining" (context cancelled)
  boots,            \* how often the process has started
  dbErrors          \* how many statements have failed

tableVars  == <<status, attempts, cancelRequested, stale, feed>>
poolVars   == <<pc, job, tripped, verdict>>
boundVars  == <<boots, dbErrors>>
vars == <<tableVars, cancelling, poolVars, proc, boundVars>>

TerminalStatus == {"completed", "failed", "cancelled"}
Status  == {"absent", "queued", "processing"} \cup TerminalStatus
Place   == {"off", "idle", "polling", "claiming", "running", "recording"}
Verdict == {"none", "queued"} \cup TerminalStatus

\* models.Status.Terminal
Terminal(s) == s \in TerminalStatus

-----------------------------------------------------------------------------
\* Auxiliary predicates

\* Rows locked by the FOR UPDATE of a claim that has not committed.
Locked(j) == \E w \in Worker : pc[w] = "claiming" /\ job[w] = j

\* A worker owns the job from its claim's commit to its last write.
Owns(w, j) == pc[w] \in {"running", "recording"} /\ job[w] = j

\* The context the job runs under: the watcher's cancel or the pool's.
CtxDone(w) == tripped[w] \/ proc = "draining"

\* Mutation of Claimable: a plain SELECT, without the row lock.
ClaimableNoLock(j) == status[j] = "queued"

\* Mutation of Claimable: a claim also helps itself to stale processing rows.
ClaimableStale(j) ==
  (status[j] = "queued" \/ (status[j] = "processing" /\ stale[j])) /\ ~Locked(j)

Claimable(j) == status[j] = "queued" /\ ~Locked(j)

\* ORDER BY created_at, SKIP LOCKED: the first claimable row of the feed.
OldestClaimable(j) ==
  \E i \in 1..Len(feed) :
    /\ feed[i] = j
    /\ Claimable(j)
    /\ \A k \in 1..(i - 1) : ~Claimable(feed[k])

\* One more statement of the runner fails.
DBError ==
  /\ dbErrors < MaxDBErrors
  /\ dbErrors' = dbErrors + 1

-----------------------------------------------------------------------------
Init ==
  /\ status = [j \in Job |-> "absent"]
  /\ attempts = [j \in Job |-> 0]
  /\ cancelRequested = [j \in Job |-> FALSE]
  /\ stale = [j \in Job |-> FALSE]
  /\ feed = <<>>
  /\ cancelling = {}
  /\ pc = [w \in Worker |-> "off"]
  /\ job = [w \in Worker |-> NoJob]
  /\ tripped = [w \in Worker |-> FALSE]
  /\ verdict = [w \in Worker |-> "none"]
  /\ proc = "down"
  /\ boots = 0
  /\ dbErrors = 0

-----------------------------------------------------------------------------
\* The handlers

\* Runner.Enqueue: the row appears queued, with its cancel flag clear.
Enqueue(j) ==
  /\ proc = "up"
  /\ status[j] = "absent"
  /\ status' = [status EXCEPT ![j] = "queued"]
  /\ feed' = Append(feed, j)
  /\ UNCHANGED <<attempts, cancelRequested, stale, cancelling, poolVars,
                 proc, boundVars>>

\* RetryJob: a finished job is submitted again as a new row; the old one stays.
RetryJob(old, j) ==
  /\ Terminal(status[old])
  /\ Enqueue(j)

\* RequestCancel reads the row and gives up if the job has finished ...
CancelRead(j) ==
  /\ proc = "up"
  /\ status[j] # "absent" /\ ~Terminal(status[j])
  /\ j \notin cancelling
  /\ cancelling' = cancelling \cup {j}
  /\ UNCHANGED <<tableVars, poolVars, proc, boundVars>>

\* ... and sets the flag with a second statement, whatever the job is by then.
CancelWrite(j) ==
  /\ j \in cancelling
  /\ ~Locked(j)
  /\ cancelRequested' = [cancelRequested EXCEPT ![j] = TRUE]
  /\ cancelling' = cancelling \ {j}
  /\ UNCHANGED <<status, attempts, stale, feed, poolVars, proc, boundVars>>

-----------------------------------------------------------------------------
\* A worker

\* loop: the context is looked at once per turn, before the claim.
Poll(w) ==
  /\ pc[w] = "idle"
  /\ pc' = [pc EXCEPT ![w] = IF proc = "up" THEN "polling" ELSE "off"]
  /\ UNCHANGED <<tableVars, cancelling, job, tripped, verdict, proc, boundVars>>

ClaimNothing(w) ==
  /\ pc[w] = "polling"
  /\ \A j \in Job : ~OldestClaimable(j)
  /\ pc' = [pc EXCEPT ![w] = "idle"]
  /\ UNCHANGED <<tableVars, cancelling, job, tripped, verdict, proc, boundVars>>

\* claim: SELECT ... FOR UPDATE SKIP LOCKED.
ClaimLock(w, j) ==
  /\ pc[w] = "polling"
  /\ OldestClaimable(j)
  /\ pc' = [pc EXCEPT ![w] = "claiming"]
  /\ job' = [job EXCEPT ![w] = j]
  /\ UNCHANGED <<tableVars, cancelling, tripped, verdict, proc, boundVars>>

\* claim: the UPDATE and the commit.  The cancel flag is neither read nor cleared.
ClaimCommit(w) ==
  /\ pc[w] = "claiming"
  /\ status' = [status EXCEPT ![job[w]] = "processing"]
  /\ attempts' = [attempts EXCEPT ![job[w]] = @ + 1]
  /\ stale' = [stale EXCEPT ![job[w]] = FALSE]
  /\ pc' = [pc EXCEPT ![w] = "running"]
  /\ tripped' = [tripped EXCEPT ![w] = FALSE]
  /\ UNCHANGED <<cancelRequested, feed, cancelling, job, verdict, proc, boundVars>>

\* Mutation of ClaimFails: the worker returns instead of sleeping.
ClaimFailsStops(w) ==
  /\ pc[w] = "claiming"
  /\ DBError
  /\ pc' = [pc EXCEPT ![w] = "off"]
  /\ job' = [job EXCEPT ![w] = NoJob]
  /\ UNCHANGED <<tableVars, cancelling, tripped, verdict, proc, boots>>

\* The claim's transaction fails and rolls back; the loop sleeps.
ClaimFails(w) ==
  /\ pc[w] = "claiming"
  /\ DBError
  /\ pc' = [pc EXCEPT ![w] = "idle"]
  /\ job' = [job EXCEPT ![w] = NoJob]
  /\ UNCHANGED <<tableVars, cancelling, tripped, verdict, proc, boots>>

\* Mutation of Trip: the watcher cancels without having seen the flag.
TripUnasked(w) ==
  /\ pc[w] = "running"
  /\ ~tripped[w]
  /\ tripped' = [tripped EXCEPT ![w] = TRUE]
  /\ UNCHANGED <<tableVars, cancelling, pc, job, verdict, proc, boundVars>>

\* watchCancel sees the flag and cancels the job's context.
Trip(w) ==
  /\ pc[w] = "running"
  /\ cancelRequested[job[w]]
  /\ ~tripped[w]
  /\ tripped' = [tripped EXCEPT ![w] = TRUE]
  /\ UNCHANGED <<tableVars, cancelling, pc, job, verdict, proc, boundVars>>

\* The switch of execute, for an error and what wasCancelled answered.
Judge(w, err, flagged) ==
  IF err = "nil" THEN "completed"
  ELSE IF flagged \/ err = "canceled" THEN "cancelled"
  ELSE IF attempts[job[w]] < MaxAttempts THEN "queued"
  ELSE "failed"

\* execute: the job's handler returns and the outcome is decided.
Return(w) ==
  /\ pc[w] = "running"
  /\ \E err \in {"nil", "error"} \cup (IF CtxDone(w) THEN {"canceled"} ELSE {}) :
       verdict' = [verdict EXCEPT ![w] = Judge(w, err, cancelRequested[job[w]])]
  /\ pc' = [pc EXCEPT ![w] = "recording"]
  /\ UNCHANGED <<tableVars, cancelling, job, tripped, proc, boundVars>>

\* The same with wasCancelled failing: the flag then reads as clear.
ReturnUnread(w) ==
  /\ pc[w] = "running"
  /\ DBError
  /\ \E err \in {"error"} \cup (IF CtxDone(w) THEN {"canceled"} ELSE {}) :
       verdict' = [verdict EXCEPT ![w] = Judge(w, err, FALSE)]
  /\ pc' = [pc EXCEPT ![w] = "recording"]
  /\ UNCHANGED <<tableVars, cancelling, job, tripped, proc, boots>>

\* Mutation of Record: requeue writes the stage and forgets the status.
RecordLosesRetry(w) ==
  /\ pc[w] = "recording"
  /\ status' = IF verdict[w] = "queued" THEN status
               ELSE [status EXCEPT ![job[w]] = verdict[w]]
  /\ pc' = [pc EXCEPT ![w] = "idle"]
  /\ job' = [job EXCEPT ![w] = NoJob]
  /\ verdict' = [verdict EXCEPT ![w] = "none"]
  /\ UNCHANGED <<attempts, cancelRequested, stale, feed, cancelling, tripped,
                 proc, boundVars>>

\* complete, finish and requeue: the status is overwritten unconditionally.
Record(w) ==
  /\ pc[w] = "recording"
  /\ status' = [status EXCEPT ![job[w]] = verdict[w]]
  /\ pc' = [pc EXCEPT ![w] = "idle"]
  /\ job' = [job EXCEPT ![w] = NoJob]
  /\ verdict' = [verdict EXCEPT ![w] = "none"]
  /\ UNCHANGED <<attempts, cancelRequested, stale, feed, cancelling, tripped,
                 proc, boundVars>>

\* The same write failing: it is logged and the worker moves on.
RecordFails(w) ==
  /\ pc[w] = "recording"
  /\ DBError
  /\ pc' = [pc EXCEPT ![w] = "idle"]
  /\ job' = [job EXCEPT ![w] = NoJob]
  /\ verdict' = [verdict EXCEPT ![w] = "none"]
  /\ UNCHANGED <<tableVars, cancelling, tripped, proc, boots>>

-----------------------------------------------------------------------------
\* Time and the process

\* StaleAfter passes since the job was claimed.
Age(j) ==
  /\ status[j] = "processing"
  /\ ~stale[j]
  /\ stale' = [stale EXCEPT ![j] = TRUE]
  /\ UNCHANGED <<status, attempts, cancelRequested, feed, cancelling, poolVars,
                 proc, boundVars>>

\* Every goroutine ends with the process; only the tables remain.
Halt ==
  /\ proc' = "down"
  /\ pc' = [w \in Worker |-> "off"]
  /\ job' = [w \in Worker |-> NoJob]
  /\ tripped' = [w \in Worker |-> FALSE]
  /\ verdict' = [w \in Worker |-> "none"]
  /\ cancelling' = {}
  /\ UNCHANGED <<tableVars, boundVars>>

Crash ==
  /\ proc = "up"
  /\ boots < MaxBoots
  /\ Halt

\* main: SIGTERM cancels the pool's context ...
Signal ==
  /\ proc = "up"
  /\ boots < MaxBoots
  /\ proc' = "draining"
  /\ UNCHANGED <<tableVars, cancelling, poolVars, boundVars>>

\* ... and the process exits when the workers are done or after 30 seconds.
Exit ==
  /\ proc = "draining"
  /\ Halt

\* recoverStale: what was processing and is stale goes back to the queue.
RecoverStale ==
  status' = [j \in Job |-> IF status[j] = "processing" /\ stale[j]
                             THEN "queued" ELSE status[j]]

\* Start: recoverStale, then the workers.
Boot ==
  /\ proc = "down"
  /\ boots < MaxBoots
  /\ RecoverStale
  /\ proc' = "up"
  /\ pc' = [w \in Worker |-> "idle"]
  /\ boots' = boots + 1
  /\ UNCHANGED <<attempts, cancelRequested, stale, feed, cancelling, job,
                 tripped, verdict, dbErrors>>

\* Start with recoverStale failing: it is logged and the workers start.
BootUnrecovered ==
  /\ proc = "down"
  /\ boots < MaxBoots
  /\ DBError
  /\ proc' = "up"
  /\ pc' = [w \in Worker |-> "idle"]
  /\ boots' = boots + 1
  /\ UNCHANGED <<tableVars, cancelling, job, tripped, verdict>>

-----------------------------------------------------------------------------
\* What fairness is stated about: the steps a running worker takes by itself.
WorkerStep(w) ==
  \/ Poll(w)
  \/ ClaimNothing(w)
  \/ \E j \in Job : ClaimLock(w, j)
  \/ ClaimCommit(w)
  \/ Return(w)
  \/ Record(w)

Next ==
  \/ \E j \in Job : Enqueue(j)
  \/ \E old, j \in Job : RetryJob(old, j)
  \/ \E j \in Job : CancelRead(j)
  \/ \E j \in Job : CancelWrite(j)
  \/ \E w \in Worker : WorkerStep(w)
  \/ \E w \in Worker : ClaimFails(w)
  \/ \E w \in Worker : Trip(w)
  \/ \E w \in Worker : ReturnUnread(w)
  \/ \E w \in Worker : RecordFails(w)
  \/ \E j \in Job : Age(j)
  \/ Crash
  \/ Signal
  \/ Exit
  \/ Boot
  \/ BootUnrecovered

Spec == Init /\ [][Next]_vars

\* A goroutine that can run does, a run ends (every wait in it has a timeout),
\* the watcher's ticker fires, a cancel request that began finishes, and the
\* supervisor starts the process again (restart: unless-stopped).
Fairness ==
  /\ \A w \in Worker : WF_vars(WorkerStep(w)) /\ WF_vars(Trip(w))
  /\ \A j \in Job : WF_vars(CancelWrite(j))
  /\ WF_vars(Exit)
  /\ WF_vars(Boot)

FairSpec == Spec /\ Fairness

-----------------------------------------------------------------------------
\* Properties

TypeOK ==
  /\ status \in [Job -> Status]
  /\ attempts \in [Job -> Nat]
  /\ cancelRequested \in [Job -> BOOLEAN]
  /\ stale \in [Job -> BOOLEAN]
  /\ feed \in Seq(Job)
  /\ cancelling \in SUBSET Job
  /\ pc \in [Worker -> Place]
  /\ job \in [Worker -> Job \cup {NoJob}]
  /\ tripped \in [Worker -> BOOLEAN]
  /\ verdict \in [Worker -> Verdict]
  /\ proc \in {"down", "up", "draining"}
  /\ boots \in Nat
  /\ dbErrors \in Nat

\* No two workers ever have the same job, from the row lock of the claim to the
\* last write: what FOR UPDATE SKIP LOCKED and the status it leaves are for.
SoleOwner ==
  \A v, w \in Worker : v # w /\ job[v] # NoJob => job[v] # job[w]

\* The row of a job in a worker's hands says so, and it keeps saying so although
\* complete, finish, requeue and recoverStale all write status unconditionally.
OwnedIsProcessing ==
  \A w \in Worker, j \in Job : Owns(w, j) => status[j] = "processing"

\* A finished job never changes status again: no late worker, cancel request or
\* restart rewrites an outcome the API has already reported.
TerminalIsFinal ==
  [][\A j \in Job : Terminal(status[j]) => status'[j] = status[j]]_vars

\* Every start of a job is an attempt, and attempts are bounded by the retry
\* limit plus the restarts that brought the job back: recoverStale requeues
\* without looking at MaxAttempts.
AttemptsBounded ==
  \A j \in Job : attempts[j] <= MaxAttempts + (IF boots = 0 THEN 0 ELSE boots - 1)

\* A job is left processing with nobody working on it only by a restart or by a
\* write of the runner that failed.
OrphansOnlyFromFaults ==
  (proc = "up" /\ boots = 1 /\ dbErrors = 0) =>
    \A j \in Job : status[j] = "processing" => \E w \in Worker : Owns(w, j)

\* Nobody's job is cancelled behind their back in a process that never stopped.
CancelledOnlyIfAsked ==
  (proc = "up" /\ boots = 1) =>
    \A j \in Job : status[j] = "cancelled" => cancelRequested[j]

\* The process has been stopped before, is stopping, or a statement has failed.
Disturbed == boots # 1 \/ proc # "up" \/ dbErrors # 0

\* Every submitted job is finished in the end, unless a restart or a failing
\* statement interferes: retries run out and requeued jobs are picked up again.
EverySubmittedJobFinishes ==
  \A j \in Job : (status[j] = "queued") ~> (Terminal(status[j]) \/ Disturbed)

\* Across restarts and failed writes a waiting job is still taken by a worker or
\* finished: nothing waits for ever in the queue.
NothingWaitsForever ==
  \A j \in Job : (status[j] = "queued") ~> (status[j] # "queued")

\* cmd/server/main.go: "Drain in-flight work on shutdown rather than losing it":
\* the shutdown itself settles no job that nobody asked to cancel.
ShutdownLosesNoJob ==
  \A j \in Job : status[j] = "cancelled" => cancelRequested[j]

-----------------------------------------------------------------------------
\* The ledger this queue implements

LedgerHolds ==
  [w \in Worker |-> IF pc[w] \in {"running", "recording"} THEN job[w] ELSE NoJob]

Ledger == INSTANCE JobLedger WITH entry <- status, holds <- LedgerHolds

\* The queue keeps the ledger's promises: one holder at a time settles a job or
\* gives it back, and jobs are reclaimed only while nobody holds any.
ImplementsLedger == Ledger!LedgerSpec
=============================================================================
