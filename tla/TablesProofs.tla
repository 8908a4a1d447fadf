--------------------------- MODULE TablesProofs -------------------------------
(***************************************************************************)
(* What holds of the backend's tables: the jobs and the workers that claim *)
(* them (JobQueue), for any number of jobs, workers, restarts and failed   *)
(* statements, and the catalogue of subjects and topics (Taxonomy), for    *)
(* any catalogue and any number of requests.                               *)
(*                                                                         *)
(* OwnershipInv is the inductive invariant of the queue.  SoleOwner and    *)
(* OwnedIsProcessing are not inductive alone: a commit of a claim sets     *)
(* "processing" whatever the status is, so what the lock guarantees in     *)
(* between (the row is still queued, nobody else has it) must be carried   *)
(* along, and recoverStale must know that a dead process has no workers.   *)
(***************************************************************************)
EXTENDS JobQueue, Taxonomy, TLAPS

Busy == {"claiming", "running", "recording"}

\* A worker has a job exactly from the row lock to its last write.
BusyHasJob == \A w \in Worker : (pc[w] \in Busy) <=> (job[w] # NoJob)

\* What the row of a worker's job looks like.
RowOfJob ==
  \A w \in Worker :
    /\ pc[w] = "claiming" => status[job[w]] = "queued"
    /\ pc[w] \in {"running", "recording"} => status[job[w]] = "processing"

\* A worker that will record has a verdict.
VerdictReady == \A w \in Worker : pc[w] = "recording" => verdict[w] # "none"

\* Workers end with their process.
DownIsOff == proc = "down" => \A w \in Worker : pc[w] = "off"

OwnershipInv ==
  TypeOK /\ BusyHasJob /\ SoleOwner /\ RowOfJob /\ VerdictReady /\ DownIsOff

-----------------------------------------------------------------------------
\* What the claim reads is a queued row of the table that nobody has locked.
LEMMA ClaimableRow ==
  ASSUME NEW j, OldestClaimable(j), feed \in Seq(Job)
  PROVE  j \in Job /\ status[j] = "queued" /\ ~Locked(j)
BY DEF OldestClaimable, Claimable

\* Types are kept by every step, given that busy workers have a job
\* and that whoever records has a verdict.
LEMMA TypeStep == TypeOK /\ BusyHasJob /\ VerdictReady /\ [Next]_vars => TypeOK'
<1> SUFFICES ASSUME TypeOK, BusyHasJob, VerdictReady, [Next]_vars PROVE TypeOK'
  OBVIOUS
<1> USE DEF TypeOK
<1>1. ASSUME NEW j \in Job, Enqueue(j) PROVE TypeOK'
  BY <1>1 DEF Enqueue, poolVars, boundVars, Status
<1>2. ASSUME NEW j \in Job, CancelRead(j) PROVE TypeOK'
  BY <1>2 DEF CancelRead, tableVars, poolVars, boundVars
<1>3. ASSUME NEW j \in Job, CancelWrite(j) PROVE TypeOK'
  BY <1>3 DEF CancelWrite, poolVars, boundVars
<1>4. ASSUME NEW w \in Worker, Poll(w) PROVE TypeOK'
  BY <1>4 DEF Poll, tableVars, boundVars, Place
<1>5. ASSUME NEW w \in Worker, ClaimNothing(w) PROVE TypeOK'
  BY <1>5 DEF ClaimNothing, tableVars, boundVars, Place
<1>6. ASSUME NEW w \in Worker, NEW j \in Job, ClaimLock(w, j) PROVE TypeOK'
  BY <1>6 DEF ClaimLock, tableVars, boundVars, Place
<1>7. ASSUME NEW w \in Worker, ClaimCommit(w) PROVE TypeOK'
  <2>1. job[w] \in Job
    BY <1>7 DEF ClaimCommit, BusyHasJob, Busy
  <2> QED
    BY <1>7, <2>1 DEF ClaimCommit, boundVars, Place, Status
<1>8. ASSUME NEW w \in Worker, ClaimFails(w) PROVE TypeOK'
  BY <1>8 DEF ClaimFails, DBError, tableVars, Place
<1>9. ASSUME NEW w \in Worker, Trip(w) PROVE TypeOK'
  BY <1>9 DEF Trip, tableVars, boundVars
<1>10. ASSUME NEW w \in Worker, Return(w) PROVE TypeOK'
  BY <1>10 DEF Return, Judge, tableVars, boundVars, Place, Verdict, TerminalStatus
<1>11. ASSUME NEW w \in Worker, ReturnUnread(w) PROVE TypeOK'
  BY <1>11 DEF ReturnUnread, Judge, DBError, tableVars, Place, Verdict, TerminalStatus
<1>12. ASSUME NEW w \in Worker, Record(w) PROVE TypeOK'
  <2>1. verdict[w] \in Status
    BY <1>12 DEF Record, VerdictReady, Verdict, Status
  <2> QED
    BY <1>12, <2>1 DEF Record, boundVars, Place, Verdict
<1>13. ASSUME NEW w \in Worker, RecordFails(w) PROVE TypeOK'
  BY <1>13 DEF RecordFails, DBError, tableVars, Place, Verdict
<1>14. ASSUME NEW j \in Job, Age(j) PROVE TypeOK'
  BY <1>14 DEF Age, poolVars, boundVars
<1>15. ASSUME Halt PROVE TypeOK'
  BY <1>15 DEF Halt, tableVars, boundVars, Place, Verdict
<1>16. ASSUME Signal PROVE TypeOK'
  BY <1>16 DEF Signal, tableVars, poolVars, boundVars
<1>17. ASSUME Boot PROVE TypeOK'
  BY <1>17 DEF Boot, RecoverStale, Place, Status
<1>18. ASSUME BootUnrecovered PROVE TypeOK'
  BY <1>18 DEF BootUnrecovered, DBError, tableVars, Place
<1>19. CASE UNCHANGED vars
  BY <1>19 DEF vars, tableVars, poolVars, boundVars
<1> QED
  BY <1>1, <1>2, <1>3, <1>4, <1>5, <1>6, <1>7, <1>8, <1>9, <1>10, <1>11,
     <1>12, <1>13, <1>14, <1>15, <1>16, <1>17, <1>18, <1>19
  DEF Next, WorkerStep, Crash, Exit, RetryJob

\* The ownership facts are kept by every step.
LEMMA OwnershipStep == OwnershipInv /\ [Next]_vars => OwnershipInv'
<1> SUFFICES ASSUME OwnershipInv, [Next]_vars
             PROVE  BusyHasJob' /\ SoleOwner' /\ RowOfJob' /\ VerdictReady' /\ DownIsOff'
  BY TypeStep DEF OwnershipInv
<1> DEFINE Goal == BusyHasJob /\ SoleOwner /\ RowOfJob /\ VerdictReady /\ DownIsOff
<1> USE DEF OwnershipInv, TypeOK, BusyHasJob, SoleOwner, RowOfJob, VerdictReady,
            DownIsOff, Busy
<1>1. ASSUME NEW j \in Job, Enqueue(j) PROVE Goal'
  BY <1>1 DEF Enqueue, poolVars
<1>2. ASSUME NEW j \in Job, CancelRead(j) PROVE Goal'
  BY <1>2 DEF CancelRead, tableVars, poolVars
<1>3. ASSUME NEW j \in Job, CancelWrite(j) PROVE Goal'
  BY <1>3 DEF CancelWrite, poolVars
<1>4. ASSUME NEW w \in Worker, Poll(w) PROVE Goal'
  BY <1>4 DEF Poll, tableVars
<1>5. ASSUME NEW w \in Worker, ClaimNothing(w) PROVE Goal'
  BY <1>5 DEF ClaimNothing, tableVars
<1>6. ASSUME NEW w \in Worker, NEW j \in Job, ClaimLock(w, j) PROVE Goal'
  <2>1. status[j] = "queued" /\ ~Locked(j)
    BY <1>6, ClaimableRow DEF ClaimLock
  <2>2. ASSUME NEW v \in Worker, job[v] = j PROVE FALSE
    <3>1. pc[v] \in Busy
      BY <2>2, QueueAssumption
    <3>2. pc[v] # "claiming"
      BY <2>1, <2>2 DEF Locked
    <3>3. status[j] = "processing"
      BY <2>2, <3>1, <3>2
    <3> QED
      BY <2>1, <3>3
  <2> QED
    BY <1>6, <2>1, <2>2, QueueAssumption DEF ClaimLock, tableVars
<1>7. ASSUME NEW w \in Worker, ClaimCommit(w) PROVE Goal'
  BY <1>7 DEF ClaimCommit
<1>8. ASSUME NEW w \in Worker, ClaimFails(w) PROVE Goal'
  BY <1>8 DEF ClaimFails, tableVars
<1>9. ASSUME NEW w \in Worker, Trip(w) PROVE Goal'
  BY <1>9 DEF Trip, tableVars
<1>10. ASSUME NEW w \in Worker, Return(w) PROVE Goal'
  <2>1. verdict'[w] # "none"
    BY <1>10 DEF Return, Judge
  <2> QED
    BY <1>10, <2>1 DEF Return, tableVars
<1>11. ASSUME NEW w \in Worker, ReturnUnread(w) PROVE Goal'
  <2>1. verdict'[w] # "none"
    BY <1>11 DEF ReturnUnread, Judge
  <2> QED
    BY <1>11, <2>1 DEF ReturnUnread, tableVars
<1>12. ASSUME NEW w \in Worker, Record(w) PROVE Goal'
  BY <1>12 DEF Record
<1>13. ASSUME NEW w \in Worker, RecordFails(w) PROVE Goal'
  BY <1>13 DEF RecordFails, tableVars
<1>14. ASSUME NEW j \in Job, Age(j) PROVE Goal'
  BY <1>14 DEF Age, poolVars
<1>15. ASSUME Halt PROVE Goal'
  BY <1>15 DEF Halt, tableVars
<1>16. ASSUME Signal PROVE Goal'
  BY <1>16 DEF Signal, tableVars, poolVars
<1>17. ASSUME Boot PROVE Goal'
  BY <1>17 DEF Boot, RecoverStale
<1>18. ASSUME BootUnrecovered PROVE Goal'
  BY <1>18 DEF BootUnrecovered, tableVars
<1>19. ASSUME UNCHANGED vars PROVE Goal'
  BY <1>19 DEF vars, tableVars, poolVars
<1> HIDE DEF Goal, OwnershipInv, TypeOK, BusyHasJob, SoleOwner, RowOfJob, VerdictReady,
             DownIsOff, Busy
<1>20. Goal'
  BY <1>1, <1>2, <1>3, <1>4, <1>5, <1>6, <1>7, <1>8, <1>9,
     <1>10, <1>11, <1>12, <1>13, <1>14, <1>15, <1>16, <1>17, <1>18, <1>19
  DEF Next, WorkerStep, Crash, Exit, RetryJob
<1> QED
  BY <1>20 DEF Goal

THEOREM Ownership == Spec => []OwnershipInv
<1>1. Init => OwnershipInv
  BY DEF Init, OwnershipInv, TypeOK, BusyHasJob, SoleOwner, RowOfJob, VerdictReady,
         DownIsOff, Busy, Status, Place, Verdict
<1> QED
  BY <1>1, OwnershipStep, PTL DEF Spec

-----------------------------------------------------------------------------
\* The table and the pool keep their types.
THEOREM TypeCorrect == Spec => []TypeOK
BY Ownership, PTL DEF OwnershipInv

\* No two workers ever have the same job, whatever is cancelled, fails or restarts.
THEOREM SoleOwnership == Spec => []SoleOwner
BY Ownership, PTL DEF OwnershipInv

\* A job in a worker's hands is processing until that worker writes its outcome.
THEOREM OwnedRowsStayProcessing == Spec => []OwnedIsProcessing
<1>1. OwnershipInv => OwnedIsProcessing
  BY DEF OwnershipInv, RowOfJob, OwnedIsProcessing, Owns
<1> QED
  BY <1>1, Ownership, PTL

-----------------------------------------------------------------------------
\* A step that changes the status of a job starts from queued or processing.
LEMMA FinalStep ==
  OwnershipInv /\ Next => \A j \in Job : Terminal(status[j]) => status'[j] = status[j]
<1> SUFFICES ASSUME OwnershipInv, Next, NEW j \in Job, Terminal(status[j])
             PROVE  status'[j] = status[j]
  OBVIOUS
<1> USE DEF OwnershipInv, TypeOK, Terminal, TerminalStatus
<1>1. ASSUME NEW k \in Job, Enqueue(k) PROVE status'[j] = status[j]
  BY <1>1 DEF Enqueue
<1>2. ASSUME NEW w \in Worker, ClaimCommit(w) PROVE status'[j] = status[j]
  BY <1>2 DEF ClaimCommit, RowOfJob
<1>3. ASSUME NEW w \in Worker, Record(w) PROVE status'[j] = status[j]
  BY <1>3 DEF Record, RowOfJob
<1>4. ASSUME Boot PROVE status'[j] = status[j]
  BY <1>4 DEF Boot, RecoverStale
<1>5. ASSUME UNCHANGED status PROVE status'[j] = status[j]
  BY <1>5
<1> HIDE DEF OwnershipInv, TypeOK, Terminal, TerminalStatus
<1> QED
  BY <1>1, <1>2, <1>3, <1>4, <1>5
  DEF Next, WorkerStep, RetryJob, CancelRead, CancelWrite, Poll, ClaimNothing,
      ClaimLock, ClaimFails, Trip, Return, ReturnUnread, RecordFails, Age, Halt,
      Crash, Signal, Exit, BootUnrecovered, tableVars

\* An outcome, once recorded, is never rewritten.
THEOREM OutcomesAreFinal == Spec => TerminalIsFinal
<1>1. OwnershipInv /\ [Next]_vars =>
        [\A j \in Job : Terminal(status[j]) => status'[j] = status[j]]_vars
  BY FinalStep
<1> QED
  BY <1>1, Ownership, PTL DEF Spec, TerminalIsFinal

-----------------------------------------------------------------------------
\* Attempts.  A row that may be claimed must have room for one more attempt, a
\* verdict to requeue must leave that room, and a boot makes room for what it
\* requeues; before the first boot the table is empty.

Budget == MaxAttempts + (IF boots = 0 THEN 0 ELSE boots - 1)

AttemptsInv ==
  /\ \A j \in Job : attempts[j] <= Budget
  /\ \A j \in Job : status[j] \in {"absent", "queued"} => attempts[j] < Budget
  /\ \A w \in Worker :
       pc[w] = "recording" /\ verdict[w] = "queued" => attempts[job[w]] < MaxAttempts
  /\ boots = 0 => proc = "down" /\ \A j \in Job : status[j] = "absent"

LEMMA AttemptsStep == OwnershipInv /\ AttemptsInv /\ [Next]_vars => AttemptsInv'
<1> SUFFICES ASSUME OwnershipInv, AttemptsInv, [Next]_vars PROVE AttemptsInv'
  OBVIOUS
<1> USE QueueAssumption DEF OwnershipInv, TypeOK, AttemptsInv, Budget, BusyHasJob, Busy
<1>1. ASSUME NEW j \in Job, Enqueue(j) PROVE AttemptsInv'
  BY <1>1 DEF Enqueue, poolVars, boundVars
<1>2. ASSUME NEW w \in Worker, ClaimCommit(w) PROVE AttemptsInv'
  <2>1. job[w] \in Job /\ status[job[w]] = "queued"
    BY <1>2 DEF ClaimCommit, RowOfJob
  <2>2. \A v \in Worker : v # w => job[v] # job[w]
    BY <2>1 DEF SoleOwner
  <2>3. \A j \in Job : attempts'[j] <= Budget
    BY <1>2, <2>1 DEF ClaimCommit
  <2> QED
    BY <1>2, <2>1, <2>2, <2>3 DEF ClaimCommit, boundVars
<1>3. ASSUME NEW w \in Worker, Return(w) PROVE AttemptsInv'
  <2>1. verdict'[w] = "queued" => attempts[job[w]] < MaxAttempts
    BY <1>3 DEF Return, Judge
  <2> QED
    BY <1>3, <2>1 DEF Return, tableVars, boundVars
<1>4. ASSUME NEW w \in Worker, ReturnUnread(w) PROVE AttemptsInv'
  <2>1. verdict'[w] = "queued" => attempts[job[w]] < MaxAttempts
    BY <1>4 DEF ReturnUnread, Judge
  <2> QED
    BY <1>4, <2>1 DEF ReturnUnread, tableVars
<1>5. ASSUME NEW w \in Worker, Record(w) PROVE AttemptsInv'
  <2>1. job[w] \in Job
    BY <1>5 DEF Record
  <2>2. verdict[w] # "absent"
    BY DEF Verdict, TerminalStatus
  <2> QED
    BY <1>5, <2>1, <2>2 DEF Record, boundVars, RowOfJob
<1>6. ASSUME Boot PROVE AttemptsInv'
  BY <1>6 DEF Boot, RecoverStale
<1>7. ASSUME BootUnrecovered PROVE AttemptsInv'
  BY <1>7 DEF BootUnrecovered, tableVars
<1>8. ASSUME Halt PROVE AttemptsInv'
  BY <1>8 DEF Halt, tableVars, boundVars
<1>9. ASSUME Signal PROVE AttemptsInv'
  BY <1>9 DEF Signal, tableVars, poolVars, boundVars
<1>10. ASSUME UNCHANGED <<status, attempts, verdict, proc, boots>>,
              \A w \in Worker :
                 pc'[w] = "recording" => pc[w] = "recording" /\ job'[w] = job[w]
       PROVE  AttemptsInv'
  BY <1>10
<1>11. ASSUME NEW w \in Worker, RecordFails(w) PROVE AttemptsInv'
  BY <1>11 DEF RecordFails, tableVars
<1>12. ASSUME NEW w \in Worker,
              Poll(w) \/ ClaimNothing(w) \/ (\E j \in Job : ClaimLock(w, j))
                \/ ClaimFails(w) \/ Trip(w)
       PROVE  AttemptsInv'
  BY <1>10, <1>12 DEF Poll, ClaimNothing, ClaimLock, ClaimFails, Trip, tableVars, boundVars
<1>13. ASSUME NEW j \in Job, CancelRead(j) \/ CancelWrite(j) \/ Age(j) PROVE AttemptsInv'
  BY <1>10, <1>13 DEF CancelRead, CancelWrite, Age, tableVars, poolVars, boundVars
<1>14. ASSUME UNCHANGED vars PROVE AttemptsInv'
  BY <1>10, <1>14 DEF vars, tableVars, poolVars, boundVars
<1> HIDE DEF OwnershipInv, TypeOK, AttemptsInv, Budget, BusyHasJob, Busy
<1> QED
  BY <1>1, <1>2, <1>3, <1>4, <1>5, <1>6, <1>7, <1>8, <1>9, <1>11, <1>12, <1>13, <1>14
  DEF Next, WorkerStep, RetryJob, Crash, Exit

\* Attempts never exceed the retry limit plus one for every restart.
THEOREM AttemptsAreBounded == Spec => []AttemptsBounded
<1>1. Init => AttemptsInv
  BY QueueAssumption DEF Init, AttemptsInv, Budget
<1>2. AttemptsInv => AttemptsBounded
  BY DEF AttemptsInv, AttemptsBounded, Budget
<1> QED
  BY <1>1, <1>2, AttemptsStep, Ownership, PTL DEF Spec

-----------------------------------------------------------------------------
\* A process that was started once and still runs.  Its table was empty, so what
\* it holds is of its own making: a job cancelled, about to be cancelled or
\* running under a cancelled context was asked to, and a job is processing only
\* in some worker's hands unless a statement failed.

FirstLife == proc = "up" /\ boots = 1

AskedInv ==
  /\ boots = 0 => proc = "down" /\ \A j \in Job : status[j] = "absent"
  /\ FirstLife => CancelledOnlyIfAsked
  /\ FirstLife => \A w \in Worker :
       /\ pc[w] = "running" /\ tripped[w] => cancelRequested[job[w]]
       /\ pc[w] = "recording" /\ verdict[w] = "cancelled" => cancelRequested[job[w]]

LEMMA AskedStep == OwnershipInv /\ AskedInv /\ [Next]_vars => AskedInv'
<1> SUFFICES ASSUME OwnershipInv, AskedInv, [Next]_vars PROVE AskedInv'
  OBVIOUS
<1> USE QueueAssumption DEF OwnershipInv, TypeOK, AskedInv, FirstLife, CancelledOnlyIfAsked, BusyHasJob, Busy
<1>1. ASSUME NEW j \in Job, Enqueue(j) PROVE AskedInv'
  BY <1>1 DEF Enqueue, poolVars, boundVars
<1>2. ASSUME NEW j \in Job, CancelWrite(j) PROVE AskedInv'
  BY <1>2 DEF CancelWrite, poolVars, boundVars
<1>3. ASSUME NEW w \in Worker, ClaimCommit(w) PROVE AskedInv'
  BY <1>3 DEF ClaimCommit, boundVars, RowOfJob
<1>4. ASSUME NEW w \in Worker, Trip(w) PROVE AskedInv'
  BY <1>4 DEF Trip, tableVars, boundVars
<1>5. ASSUME NEW w \in Worker, Return(w) \/ ReturnUnread(w) PROVE AskedInv'
  <2>1. FirstLife /\ verdict'[w] = "cancelled" => cancelRequested[job[w]]
    BY <1>5 DEF Return, ReturnUnread, Judge, CtxDone
  <2>2. UNCHANGED <<status, cancelRequested, job, tripped, proc, boots>>
    BY <1>5 DEF Return, ReturnUnread, tableVars, boundVars
  <2>3. pc'[w] = "recording" /\ \A v \in Worker \ {w} : pc'[v] = pc[v] /\ verdict'[v] = verdict[v]
    BY <1>5 DEF Return, ReturnUnread
  <2> QED
    BY <2>1, <2>2, <2>3
<1>6. ASSUME NEW w \in Worker, Record(w) PROVE AskedInv'
  <2>1. job[w] \in Job /\ status[job[w]] = "processing"
    BY <1>6 DEF Record, RowOfJob
  <2> QED
    BY <1>6, <2>1 DEF Record, boundVars
<1>7. ASSUME Boot PROVE AskedInv'
  BY <1>7 DEF Boot, RecoverStale, DownIsOff
<1>8. ASSUME BootUnrecovered PROVE AskedInv'
  BY <1>8 DEF BootUnrecovered, tableVars, DownIsOff
<1>9. ASSUME Halt PROVE AskedInv'
  BY <1>9 DEF Halt, tableVars, boundVars
<1>10. ASSUME Signal PROVE AskedInv'
  BY <1>10 DEF Signal, tableVars, poolVars, boundVars
<1>11. ASSUME NEW w \in Worker,
              Poll(w) \/ ClaimNothing(w) \/ (\E j \in Job : ClaimLock(w, j))
                \/ ClaimFails(w) \/ RecordFails(w)
       PROVE  AskedInv'
  <2>1. UNCHANGED <<status, cancelRequested, tripped, proc, boots>>
    BY <1>11 DEF Poll, ClaimNothing, ClaimLock, ClaimFails, RecordFails, tableVars, boundVars
  <2>2. /\ pc'[w] \notin {"running", "recording"}
        /\ \A v \in Worker \ {w} : pc'[v] = pc[v] /\ job'[v] = job[v] /\ verdict'[v] = verdict[v]
    BY <1>11 DEF Poll, ClaimNothing, ClaimLock, ClaimFails, RecordFails
  <2> QED
    BY <2>1, <2>2
<1>12. ASSUME NEW j \in Job, CancelRead(j) \/ Age(j) PROVE AskedInv'
  BY <1>12 DEF CancelRead, Age, tableVars, poolVars, boundVars
<1>13. ASSUME UNCHANGED vars PROVE AskedInv'
  BY <1>13 DEF vars, tableVars, poolVars, boundVars
<1> HIDE DEF OwnershipInv, TypeOK, AskedInv, FirstLife, CancelledOnlyIfAsked, BusyHasJob, Busy
<1> QED
  BY <1>1, <1>2, <1>3, <1>4, <1>5, <1>6, <1>7, <1>8, <1>9, <1>10, <1>11, <1>12, <1>13
  DEF Next, WorkerStep, RetryJob, Crash, Exit

\* In a process that never stopped, a job is cancelled only if somebody asked.
THEOREM CancelledWasAsked == Spec => []CancelledOnlyIfAsked
<1>1. Init => AskedInv
  BY DEF Init, AskedInv, FirstLife
<1>2. AskedInv => CancelledOnlyIfAsked
  BY DEF AskedInv, FirstLife, CancelledOnlyIfAsked
<1> QED
  BY <1>1, <1>2, AskedStep, Ownership, PTL DEF Spec

HeldInv ==
  /\ boots = 0 => proc = "down" /\ \A j \in Job : status[j] = "absent"
  /\ OrphansOnlyFromFaults

\* A row that becomes processing is in a worker's hands, and stays there.
LEMMA StillHeld ==
  ASSUME HeldInv, boots # 0, UNCHANGED <<proc, boots, dbErrors>>,
         \A j \in Job : status'[j] = "processing" =>
            \/ \E w \in Worker : Owns(w, j)'
            \/ status[j] = "processing" /\ \A w \in Worker : Owns(w, j) => Owns(w, j)'
  PROVE  HeldInv'
BY DEF HeldInv, OrphansOnlyFromFaults

\* Nothing is lost while every status stays and every owner keeps what it has.
LEMMA HeldFrame ==
  ASSUME HeldInv, UNCHANGED <<status, proc, boots, dbErrors>>,
         \A v \in Worker : \A j \in Job : Owns(v, j) => Owns(v, j)'
  PROVE  HeldInv'
BY DEF HeldInv, OrphansOnlyFromFaults

\* A worker lets go of a job only by a write that takes it out of processing.
LEMMA HeldStep == OwnershipInv /\ HeldInv /\ [Next]_vars => HeldInv'
<1> SUFFICES ASSUME OwnershipInv, HeldInv, [Next]_vars PROVE HeldInv'
  OBVIOUS
<1> USE DEF OwnershipInv, TypeOK, Owns
<1>1. ASSUME NEW j \in Job, Enqueue(j) PROVE HeldInv'
  BY <1>1 DEF Enqueue, poolVars, boundVars, HeldInv, OrphansOnlyFromFaults
<1>2. ASSUME NEW w \in Worker, ClaimCommit(w) PROVE HeldInv'
  <2>1. job[w] \in Job /\ status[job[w]] = "queued"
    BY <1>2 DEF ClaimCommit, BusyHasJob, Busy, RowOfJob
  <2>2. boots # 0 /\ UNCHANGED <<proc, boots, dbErrors>>
    BY <1>2, <2>1 DEF ClaimCommit, boundVars, HeldInv
  <2>3. \A j \in Job : j = job[w] => Owns(w, j)'
    BY <1>2 DEF ClaimCommit
  <2>4. \A j \in Job \ {job[w]} : status'[j] = status[j]
    BY <1>2 DEF ClaimCommit
  <2>5. \A v \in Worker : \A j \in Job : Owns(v, j) => Owns(v, j)'
    BY <1>2 DEF ClaimCommit
  <2> HIDE DEF OwnershipInv, TypeOK, Owns
  <2>6. ASSUME NEW j \in Job, status'[j] = "processing"
        PROVE  \/ \E v \in Worker : Owns(v, j)'
               \/ status[j] = "processing" /\ \A v \in Worker : Owns(v, j) => Owns(v, j)'
    BY <2>3, <2>4, <2>5, <2>6
  <2> QED
    BY <2>2, <2>6, StillHeld
<1>3. ASSUME NEW w \in Worker, Record(w) PROVE HeldInv'
  <2>1. verdict[w] # "processing"
    BY DEF Verdict, TerminalStatus
  <2>2. job[w] \in Job /\ verdict[w] # "processing" /\ status[job[w]] = "processing"
    BY <1>3, <2>1 DEF Record, BusyHasJob, Busy, RowOfJob
  <2>3. status'[job[w]] # "processing" /\ \A j \in Job \ {job[w]} : status'[j] = status[j]
    BY <1>3, <2>2 DEF Record
  <2>4. \A v \in Worker : \A j \in Job \ {job[w]} : Owns(v, j) => Owns(v, j)'
    BY <1>3 DEF Record
  <2>5. UNCHANGED <<proc, boots, dbErrors>> /\ boots # 0
    BY <1>3, <2>2 DEF Record, boundVars, HeldInv
  <2> HIDE DEF Owns
  <2> QED
    BY <2>2, <2>3, <2>4, <2>5, StillHeld
<1>4. ASSUME Boot PROVE HeldInv'
  BY <1>4 DEF Boot, RecoverStale, HeldInv, OrphansOnlyFromFaults
<1>5. ASSUME BootUnrecovered PROVE HeldInv'
  BY <1>5 DEF BootUnrecovered, DBError, tableVars, HeldInv, OrphansOnlyFromFaults
<1>6. ASSUME Halt PROVE HeldInv'
  BY <1>6 DEF Halt, tableVars, boundVars, HeldInv, OrphansOnlyFromFaults
<1>7. ASSUME Signal PROVE HeldInv'
  BY <1>7 DEF Signal, tableVars, poolVars, boundVars, HeldInv, OrphansOnlyFromFaults
<1>8. ASSUME NEW w \in Worker, ClaimFails(w) \/ RecordFails(w) \/ ReturnUnread(w) PROVE HeldInv'
  <2>1. DBError
    BY <1>8 DEF ClaimFails, RecordFails, ReturnUnread
  <2>2. dbErrors' # 0
    BY <2>1 DEF DBError
  <2>3. UNCHANGED <<status, proc, boots>>
    BY <1>8 DEF ClaimFails, RecordFails, ReturnUnread, tableVars
  <2> QED
    BY <2>2, <2>3 DEF HeldInv, OrphansOnlyFromFaults
<1>9. ASSUME NEW w \in Worker,
              Poll(w) \/ ClaimNothing(w) \/ (\E j \in Job : ClaimLock(w, j)) \/ Trip(w) \/ Return(w)
       PROVE  HeldInv'
  <2>1. UNCHANGED <<status, proc, boots, dbErrors>>
    BY <1>9 DEF Poll, ClaimNothing, ClaimLock, Trip, Return, tableVars, boundVars
  <2>2. \A v \in Worker : \A j \in Job : Owns(v, j) => Owns(v, j)'
    BY <1>9 DEF Poll, ClaimNothing, ClaimLock, Trip, Return
  <2> QED
    BY HeldFrame, <2>1, <2>2
<1>10. ASSUME NEW j \in Job, CancelRead(j) \/ CancelWrite(j) \/ Age(j) PROVE HeldInv'
  BY HeldFrame, <1>10 DEF CancelRead, CancelWrite, Age, tableVars, poolVars, boundVars
<1>11. ASSUME UNCHANGED vars PROVE HeldInv'
  BY HeldFrame, <1>11 DEF vars, tableVars, poolVars, boundVars
<1> HIDE DEF OwnershipInv, TypeOK, Owns
<1> QED
  BY <1>1, <1>2, <1>3, <1>4, <1>5, <1>6, <1>7, <1>8, <1>9, <1>10, <1>11
  DEF Next, WorkerStep, RetryJob, Crash, Exit

\* A job is left processing with nobody at it only by a restart or a failed write.
THEOREM OrphansAreFaults == Spec => []OrphansOnlyFromFaults
<1>1. Init => HeldInv
  BY DEF Init, HeldInv, OrphansOnlyFromFaults
<1>2. HeldInv => OrphansOnlyFromFaults
  BY DEF HeldInv
<1> QED
  BY <1>1, <1>2, HeldStep, Ownership, PTL DEF Spec

-----------------------------------------------------------------------------
\* The ledger.  Only six steps move it; every other step leaves what the workers
\* hold and every status alone.

Moves ==
  \/ \E j \in Job : Enqueue(j)
  \/ \E w \in Worker : ClaimCommit(w) \/ Record(w) \/ RecordFails(w)
  \/ Halt
  \/ Boot

LEMMA MoveOrStutter ==
  ASSUME OwnershipInv, [Next]_vars, ~Moves
  PROVE  UNCHANGED <<status, LedgerHolds>>
<1> USE DEF OwnershipInv, TypeOK, LedgerHolds
<1>1. ASSUME UNCHANGED <<status, job>>,
             \A w \in Worker : (pc[w] \in {"running", "recording"}) <=>
                               (pc'[w] \in {"running", "recording"})
      PROVE  UNCHANGED <<status, LedgerHolds>>
  BY <1>1
<1>2. ASSUME UNCHANGED status,
             \A w \in Worker : /\ pc[w] \notin {"running", "recording"} \/ job'[w] = job[w]
                               /\ (pc[w] \in {"running", "recording"}) <=>
                                  (pc'[w] \in {"running", "recording"})
      PROVE  UNCHANGED <<status, LedgerHolds>>
  BY <1>2
<1>3. ASSUME NEW w \in Worker,
             Poll(w) \/ ClaimNothing(w) \/ Trip(w) \/ Return(w) \/ ReturnUnread(w)
      PROVE  UNCHANGED <<status, LedgerHolds>>
  BY <1>1, <1>3 DEF Poll, ClaimNothing, Trip, Return, ReturnUnread, tableVars
<1>4. ASSUME NEW w \in Worker, (\E j \in Job : ClaimLock(w, j)) \/ ClaimFails(w)
      PROVE  UNCHANGED <<status, LedgerHolds>>
  BY <1>2, <1>4 DEF ClaimLock, ClaimFails, tableVars
<1>5. ASSUME NEW j \in Job, CancelRead(j) \/ CancelWrite(j) \/ Age(j)
      PROVE  UNCHANGED <<status, LedgerHolds>>
  BY <1>1, <1>5 DEF CancelRead, CancelWrite, Age, tableVars, poolVars
<1>6. ASSUME Signal \/ UNCHANGED vars
      PROVE  UNCHANGED <<status, LedgerHolds>>
  BY <1>1, <1>6 DEF Signal, vars, tableVars, poolVars
<1>7. ASSUME BootUnrecovered
      PROVE  UNCHANGED <<status, LedgerHolds>>
  BY <1>1, <1>7 DEF BootUnrecovered, tableVars, DownIsOff
<1> HIDE DEF OwnershipInv, TypeOK, LedgerHolds
<1> QED
  BY <1>3, <1>4, <1>5, <1>6, <1>7 DEF Moves, Next, WorkerStep, RetryJob, Crash, Exit

\* Each of the six steps is a step of the ledger.
LEMMA MoveIsLedgerStep ==
  ASSUME OwnershipInv, Moves
  PROVE  [Ledger!LedgerNext]_<<status, LedgerHolds>>
<1> USE DEF OwnershipInv, TypeOK
<1>1. ASSUME NEW j \in Job, Enqueue(j) PROVE Ledger!Submit(j)
  BY <1>1 DEF Enqueue, poolVars, Ledger!Submit, LedgerHolds
<1>2. ASSUME NEW w \in Worker, ClaimCommit(w) PROVE Ledger!Take(w, job[w]) /\ job[w] \in Job
  <2>1. job[w] \in Job /\ status[job[w]] = "queued"
    BY <1>2 DEF ClaimCommit, RowOfJob, BusyHasJob, Busy
  <2>2. LedgerHolds[w] = NoJob
    BY <1>2 DEF ClaimCommit, LedgerHolds
  <2>3. LedgerHolds' = [LedgerHolds EXCEPT ![w] = job[w]]
    BY <1>2 DEF ClaimCommit, LedgerHolds
  <2> QED
    BY <1>2, <2>1, <2>2, <2>3 DEF ClaimCommit, Ledger!Take
<1>3. ASSUME NEW w \in Worker, Record(w)
      PROVE  Ledger!Release(w, verdict[w]) /\ verdict[w] \in Ledger!Settled \cup {"queued"}
  <2>1. job[w] \in Job /\ status[job[w]] = "processing" /\ LedgerHolds[w] = job[w]
    BY <1>3 DEF Record, RowOfJob, BusyHasJob, Busy, LedgerHolds
  <2>2. LedgerHolds' = [LedgerHolds EXCEPT ![w] = NoJob]
    BY <1>3 DEF Record, LedgerHolds
  <2>3. verdict[w] \in Ledger!Settled \cup {"queued"}
    BY <1>3 DEF Record, VerdictReady, Verdict, TerminalStatus, Ledger!Settled
  <2> QED
    BY <1>3, <2>1, <2>2, <2>3 DEF Record, Ledger!Release
<1>4. ASSUME NEW w \in Worker, RecordFails(w) PROVE Ledger!Vanish
  <2>1. LedgerHolds' = [LedgerHolds EXCEPT ![w] = NoJob]
    BY <1>4 DEF RecordFails, LedgerHolds
  <2> QED
    BY <1>4, <2>1 DEF RecordFails, tableVars, Ledger!Vanish
<1>5. ASSUME Halt PROVE Ledger!Vanish
  <2>1. LedgerHolds' = [w \in Worker |-> NoJob]
    BY <1>5 DEF Halt, LedgerHolds
  <2> QED
    BY <1>5, <2>1 DEF Halt, tableVars, Ledger!Vanish
<1>6. ASSUME Boot
      PROVE  \E S \in SUBSET Job : Ledger!Reclaim(S)
  <2> DEFINE S == {j \in Job : status[j] = "processing" /\ stale[j]}
  <2>1. LedgerHolds = [w \in Worker |-> NoJob] /\ UNCHANGED LedgerHolds
    BY <1>6 DEF Boot, DownIsOff, LedgerHolds
  <2>2. status' = [j \in Job |-> IF j \in S THEN "queued" ELSE status[j]]
    BY <1>6 DEF Boot, RecoverStale
  <2>3. \A j \in S : status[j] = "processing"
    OBVIOUS
  <2>4. Ledger!Reclaim(S)
    BY <2>1, <2>2, <2>3 DEF Ledger!Reclaim
  <2> QED
    BY <2>4
<1> HIDE DEF OwnershipInv, TypeOK
<1> QED
  BY <1>1, <1>2, <1>3, <1>4, <1>5, <1>6 DEF Moves, Ledger!LedgerNext

\* The worker pool implements the ledger: a job is handed out once at a time, its
\* holder alone settles it or gives it back, and outcomes stay.
THEOREM QueueImplementsLedger == Spec => ImplementsLedger
<1>1. Init => Ledger!LedgerInit
  BY DEF Init, Ledger!LedgerInit, LedgerHolds
<1>2. OwnershipInv /\ [Next]_vars => [Ledger!LedgerNext]_<<status, LedgerHolds>>
  BY MoveOrStutter, MoveIsLedgerStep
<1> QED
  BY <1>1, <1>2, Ownership, PTL
  DEF Spec, ImplementsLedger, Ledger!LedgerSpec, Ledger!ledgerVars

-----------------------------------------------------------------------------
\* The catalogue.

CatalogueOK ==
  /\ subject \in [Subject -> Row] /\ code \in [Subject -> Code]
  /\ topic \in [Topic -> Row] /\ under \in [Topic -> Subject \union {None}]
  /\ question \in [Question -> Row] /\ filed \in [Question -> Subject \union {None}]
  /\ tag \in [Question -> Topic \union {None}]
  /\ listed \subseteq Exam \X Subject /\ open \subseteq Open
  /\ \A r \in open : r.op \in {"list", "analysis"} => r.exam \in Exam

\* A deletion that counted goes on only if it counted none; living questions are filed, and
\* topics once made are under a subject.
Counted == \A r \in open : r.op = "delete" => r.counted = {}
Filed == \A q \in Question : question[q] = "living" => filed[q] \in Subject
Placed == \A t \in Topic : topic[t] # "new" => under[t] \in Subject
QuestionsLate == \A q \in Question : question[q] = "living" /\ subject[filed[q]] = "deleted" => q \in late \union stranded
TopicsLate == \A t \in Topic : topic[t] = "living" /\ subject[under[t]] = "deleted" => t \in late
ListedLate == \A pair \in listed : subject[pair[2]] = "deleted" => pair \in late
\* A topic that was deleted and still tags went with its subject.
TagsGone == \A q \in Question :
  question[q] = "living" /\ tag[q] # None /\ topic[tag[q]] = "deleted" /\ q \notin mistagged => subject[under[tag[q]]] = "deleted"
CatalogueInv == CatalogueOK /\ Counted /\ Filed /\ Placed /\ QuestionsLate /\ TopicsLate /\ ListedLate /\ TagsGone

\* The catalogue keeps its type.
LEMMA CatalogueStep == ASSUME CatalogueOK, [NextCatalogue]_catalogueVars PROVE CatalogueOK'
<1> USE TaxonomyAssumption DEF CatalogueOK, Row, Living, Kept, New
<1>1. ASSUME NEW s \in Subject, NEW c \in Code, CreateSubject(s, c) \/ UpdateSubject(s, c) PROVE CatalogueOK'
  BY <1>1 DEF CreateSubject, UpdateSubject
<1>2. ASSUME NEW op \in {"delete", "blind", "topic", "list", "write", "parse", "persist", "analysis"}, NEW S \in SUBSET Subject,
             NEW e \in Exam \union {None}, Check(op, S, e), op \in {"list", "analysis"} => e \in Exam,
             UNCHANGED <<subject, code, topic, under, question, filed, tag, listed, late, stranded, mistagged>>
      PROVE CatalogueOK'
  BY <1>2 DEF Check, Open
<1>3. ASSUME NEW s \in Subject, StartDelete(s) PROVE CatalogueOK'
  <2>1. QuestionsOf(s) \in SUBSET Question
    BY DEF QuestionsOf
  <2> QED BY <1>3, <2>1 DEF StartDelete, Open
<1>4. ASSUME NEW s \in Subject, StartDeleteBlind(s) \/ StartTopic(s) \/ StartWrite(s) PROVE CatalogueOK'
  BY <1>2, <1>4 DEF StartDeleteBlind, StartTopic, StartWrite
<1>5. ASSUME NEW e \in Exam, StartAnalysis(e) PROVE CatalogueOK'
  BY <1>2, <1>5 DEF StartAnalysis
<1>6. ASSUME NEW e \in Exam, NEW s \in Subject, StartList(e, s) PROVE CatalogueOK'
  BY <1>2, <1>6 DEF StartList
<1>7. ASSUME StartIngest PROVE CatalogueOK'
  BY <1>2, <1>7 DEF StartIngest
<1>8. ASSUME NEW r \in open, DeleteSubject(r) PROVE CatalogueOK'
  BY <1>8 DEF DeleteSubject
<1>9. ASSUME NEW r \in open, ListSubject(r) PROVE CatalogueOK'
  <2>1. r.exam \in Exam /\ r.subjects \subseteq Subject
    BY <1>9 DEF ListSubject, Open
  <2> QED BY <1>9, <2>1 DEF ListSubject
<1>10. ASSUME NEW r \in open, LoadTopics(r) \/ Fail(r) PROVE CatalogueOK'
  <2>1. CASE Fail(r)
    BY <2>1 DEF Fail
  <2>2. CASE LoadTopics(r)
    <3> DEFINE pairs == {<<t, under[t]>> : t \in Living(topic)}
               loaded == [op |-> "persist", subjects |-> r.subjects, exam |-> None, counted |-> {}, topics |-> pairs]
    <3>1. pairs \in SUBSET (Topic \X (Subject \union {None}))
      OBVIOUS
    <3> HIDE DEF pairs
    <3>2. loaded \in Open /\ loaded.op = "persist"
      BY <3>1 DEF Open
    <3>3. open' = (open \ {r}) \union {loaded}
      BY <2>2 DEF LoadTopics, pairs
    <3> HIDE DEF loaded
    <3> QED BY <2>2, <3>2, <3>3 DEF LoadTopics
  <2> QED BY <1>10, <2>1, <2>2
<1>11. ASSUME NEW r \in open, NEW t \in Topic, CreateTopic(r, t) PROVE CatalogueOK'
  BY <1>11 DEF CreateTopic, Open
<1>12. ASSUME NEW s \in Subject, NEW t \in Topic, UpdateTopic(t, s) PROVE CatalogueOK'
  BY <1>12 DEF UpdateTopic
<1>13. ASSUME NEW t \in Topic, DeleteTopic(t) PROVE CatalogueOK'
  BY <1>13 DEF DeleteTopic
<1>14. ASSUME NEW e \in Exam, NEW s \in Subject, RemoveExamSubject(e, s) PROVE CatalogueOK'
  BY <1>14 DEF RemoveExamSubject
<1>15. ASSUME NEW r \in open, NEW q \in Question, NEW t \in Topic \union {None}, CreateQuestion(r, q, t) PROVE CatalogueOK'
  BY <1>15 DEF CreateQuestion, Tagging, Open
<1>16. ASSUME NEW r \in open, NEW q \in Question, NEW s \in Subject, NEW t \in Topic \union {None}, PersistMatched(r, q, s, t) PROVE CatalogueOK'
  BY <1>16 DEF PersistMatched, Persist, Tagging
<1>17. ASSUME NEW r \in open, NEW q \in Question, NEW s \in Subject, PersistUnsorted(r, q, s) PROVE CatalogueOK'
  BY <1>17 DEF PersistUnsorted, EnsureUnsorted, Persist, Tagging
<1>18. ASSUME NEW q \in Question, NEW s \in Subject \union {None}, NEW t \in Topic \union {None}, UpdateQuestion(q, s, t) PROVE CatalogueOK'
  BY <1>18 DEF UpdateQuestion, Tagging
<1>19. ASSUME NEW q \in Question, DeleteQuestion(q) PROVE CatalogueOK'
  BY <1>19 DEF DeleteQuestion
<1>20. CASE UNCHANGED catalogueVars
  BY <1>20 DEF catalogueVars
<1> QED BY <1>1, <1>3, <1>4, <1>5, <1>6, <1>7, <1>8, <1>9, <1>10, <1>11, <1>12, <1>13, <1>14, <1>15, <1>16, <1>17, <1>18, <1>19, <1>20 DEF NextCatalogue

\* No step leaves a deletion that counted a question.
LEMMA CountedStep == ASSUME CatalogueOK, Counted, [NextCatalogue]_catalogueVars PROVE Counted'
<1>1. ASSUME NEW s \in Subject, StartDelete(s) PROVE Counted'
  BY <1>1 DEF StartDelete, CountQuestions, Counted
<1>2. ASSUME NEW r \in open, LoadTopics(r) PROVE Counted'
  BY <1>2 DEF LoadTopics, Counted
<1>3. ASSUME NEW op \in {"blind", "topic", "list", "write", "parse", "analysis"}, NEW S, NEW e, Check(op, S, e) PROVE Counted'
  BY <1>3 DEF Check, Counted
<1>4. ASSUME NEW s \in Subject, StartDeleteBlind(s) \/ StartTopic(s) \/ StartWrite(s) PROVE Counted'
  BY <1>3, <1>4 DEF StartDeleteBlind, StartTopic, StartWrite
<1>5. ASSUME NEW e \in Exam, StartAnalysis(e) \/ \E s \in Subject : StartList(e, s) PROVE Counted'
  BY <1>3, <1>5 DEF StartAnalysis, StartList
<1>6. ASSUME StartIngest PROVE Counted'
  BY <1>3, <1>6 DEF StartIngest
<1>7. ASSUME open' \subseteq open PROVE Counted'
  BY <1>7 DEF Counted
<1>8. ASSUME NEW r \in open, DeleteSubject(r) \/ ListSubject(r) \/ Fail(r) PROVE Counted'
  BY <1>7, <1>8 DEF DeleteSubject, ListSubject, Fail
<1>9. ASSUME NEW r \in open, NEW q \in Question, NEW t \in Topic \union {None},
             CreateQuestion(r, q, t) \/ (\E s \in Subject : PersistMatched(r, q, s, t) \/ PersistUnsorted(r, q, s))
      PROVE Counted'
  BY <1>7, <1>9 DEF CreateQuestion, PersistMatched, PersistUnsorted, Persist
<1> QED BY <1>1, <1>2, <1>4, <1>5, <1>6, <1>7, <1>8, <1>9 DEF NextCatalogue, catalogueVars, CreateSubject, UpdateSubject, CreateTopic, UpdateTopic, DeleteTopic,
    RemoveExamSubject, UpdateQuestion, DeleteQuestion

\* A living question is always filed.
LEMMA FiledStep == ASSUME CatalogueOK, Filed, [NextCatalogue]_catalogueVars PROVE Filed'
<1> USE DEF CatalogueOK, Filed
<1>1. ASSUME NEW r \in open, NEW q \in Question, NEW t \in Topic \union {None}, CreateQuestion(r, q, t) PROVE Filed'
  BY <1>1 DEF CreateQuestion, Open
<1>2. ASSUME NEW r \in open, NEW q \in Question, NEW s \in Subject, NEW t \in Topic \union {None}, Persist(r, q, s, t) PROVE Filed'
  BY <1>2 DEF Persist
<1>3. ASSUME NEW q \in Question, NEW s \in Subject \union {None}, NEW t \in Topic \union {None}, UpdateQuestion(q, s, t) PROVE Filed'
  BY <1>3 DEF UpdateQuestion
<1>4. ASSUME NEW q \in Question, DeleteQuestion(q) PROVE Filed'
  BY <1>4 DEF DeleteQuestion
<1> QED BY <1>1, <1>2, <1>3, <1>4 DEF NextCatalogue, catalogueVars, CreateSubject, UpdateSubject, StartDelete, StartDeleteBlind, StartTopic, StartWrite, StartList, StartAnalysis,
    StartIngest, DeleteSubject, ListSubject, LoadTopics, Fail, CreateTopic, UpdateTopic, DeleteTopic, RemoveExamSubject, PersistMatched, PersistUnsorted


\* A topic once made is always under a subject.
LEMMA PlacedStep == ASSUME CatalogueOK, Placed, [NextCatalogue]_catalogueVars PROVE Placed'
<1> USE DEF CatalogueOK, Placed, Living, Kept
<1>1. ASSUME NEW r \in open, NEW t \in Topic, CreateTopic(r, t) PROVE Placed'
  BY <1>1 DEF CreateTopic, Open
<1>2. ASSUME NEW s \in Subject, NEW t \in Topic, UpdateTopic(t, s) PROVE Placed'
  BY <1>2 DEF UpdateTopic
<1>3. ASSUME NEW t \in Topic, DeleteTopic(t) PROVE Placed'
  BY <1>3 DEF DeleteTopic
<1>4. ASSUME NEW r \in open, DeleteSubject(r) PROVE Placed'
  BY <1>4 DEF DeleteSubject, TopicsOf
<1> QED BY <1>1, <1>2, <1>3, <1>4 DEF NextCatalogue, catalogueVars, CreateSubject, UpdateSubject, StartDelete, StartDeleteBlind, StartTopic, StartWrite, StartList, StartAnalysis,
    StartIngest, ListSubject, LoadTopics, Fail, RemoveExamSubject, CreateQuestion, PersistMatched, PersistUnsorted, Persist, UpdateQuestion, DeleteQuestion

\* A living question under a deleted subject stays late.
LEMMA QuestionsStep == ASSUME CatalogueOK, Counted, Filed, QuestionsLate, [NextCatalogue]_catalogueVars PROVE QuestionsLate'
<1> USE TaxonomyAssumption DEF CatalogueOK, Filed, QuestionsLate, Living, New
<1>1. ASSUME NEW s \in Subject, NEW c \in Code, CreateSubject(s, c) \/ UpdateSubject(s, c) PROVE QuestionsLate'
  BY <1>1 DEF CreateSubject, UpdateSubject
<1>2. ASSUME NEW r \in open, DeleteSubject(r) PROVE QuestionsLate'
  <2>1. PICK s \in Subject :
          /\ subject' = [subject EXCEPT ![s] = "deleted"]
          /\ IF r.op = "delete"
             THEN late' = late \union (QuestionsOf(s) \ r.counted) /\ UNCHANGED stranded
             ELSE stranded' = stranded \union QuestionsOf(s) /\ UNCHANGED late
    BY <1>2 DEF DeleteSubject, Open
  <2>2. \A q \in late \union stranded \union QuestionsOf(s) : q \in late' \union stranded'
    BY <2>1 DEF Counted
  <2>3. UNCHANGED <<question, filed>>
    BY <1>2 DEF DeleteSubject
  <2> QED BY <2>1, <2>2, <2>3 DEF QuestionsOf
<1>3. ASSUME NEW r \in open, ListSubject(r) PROVE QuestionsLate'
  <2>1. UNCHANGED <<question, filed, subject, stranded>> /\ \A q \in Question : q \in late => q \in late'
    BY <1>3 DEF ListSubject, Open
  <2> QED BY <2>1
<1>4. ASSUME NEW r \in open, NEW t \in Topic, CreateTopic(r, t) PROVE QuestionsLate'
  BY <1>4 DEF CreateTopic, PutUnder
<1>5. ASSUME NEW s \in Subject, NEW t \in Topic, UpdateTopic(t, s) PROVE QuestionsLate'
  BY <1>5 DEF UpdateTopic, PutUnder
<1>6. ASSUME NEW r \in open, NEW q \in Question, NEW t \in Topic \union {None}, CreateQuestion(r, q, t) PROVE QuestionsLate'
  BY <1>6 DEF CreateQuestion, PutUnder, Open
<1>7. ASSUME NEW r \in open, NEW q \in Question, NEW s \in Subject, NEW t \in Topic \union {None}, PersistMatched(r, q, s, t) PROVE QuestionsLate'
  BY <1>7 DEF PersistMatched, Persist, PutUnder
<1>8. ASSUME NEW r \in open, NEW q \in Question, NEW s \in Subject, PersistUnsorted(r, q, s) PROVE QuestionsLate'
  BY <1>8 DEF PersistUnsorted, EnsureUnsorted, Persist, PutUnder
<1>9. ASSUME NEW q \in Question, NEW s \in Subject \union {None}, NEW t \in Topic \union {None}, UpdateQuestion(q, s, t) PROVE QuestionsLate'
  BY <1>9 DEF UpdateQuestion, PutUnder
<1>10. ASSUME NEW q \in Question, DeleteQuestion(q) PROVE QuestionsLate'
  BY <1>10 DEF DeleteQuestion
<1> QED BY <1>1, <1>2, <1>3, <1>4, <1>5, <1>6, <1>7, <1>8, <1>9, <1>10 DEF NextCatalogue, catalogueVars, StartDelete, StartDeleteBlind, StartTopic, StartWrite, StartList,
    StartAnalysis, StartIngest, LoadTopics, Fail, DeleteTopic, RemoveExamSubject

\* A living topic under a deleted subject stays late.
LEMMA TopicsStep == ASSUME CatalogueOK, Placed, TopicsLate, [NextCatalogue]_catalogueVars PROVE TopicsLate'
<1> USE TaxonomyAssumption DEF CatalogueOK, Placed, TopicsLate, Living, New
<1>1. ASSUME NEW s \in Subject, NEW c \in Code, CreateSubject(s, c) \/ UpdateSubject(s, c) PROVE TopicsLate'
  BY <1>1 DEF CreateSubject, UpdateSubject
<1>2. ASSUME NEW r \in open, DeleteSubject(r) PROVE TopicsLate'
  BY <1>2 DEF DeleteSubject, Open, TopicsOf
<1>3. ASSUME NEW r \in open, ListSubject(r) PROVE TopicsLate'
  <2>1. UNCHANGED <<topic, under, subject>> /\ \A t \in Topic : t \in late => t \in late'
    BY <1>3 DEF ListSubject, Open
  <2> QED BY <2>1
<1>4. ASSUME NEW r \in open, NEW t \in Topic, CreateTopic(r, t) PROVE TopicsLate'
  BY <1>4 DEF CreateTopic, PutUnder, Open
<1>5. ASSUME NEW s \in Subject, NEW t \in Topic, UpdateTopic(t, s) PROVE TopicsLate'
  BY <1>5 DEF UpdateTopic, PutUnder
<1>6. ASSUME NEW r \in open, NEW q \in Question, NEW t \in Topic \union {None}, CreateQuestion(r, q, t) PROVE TopicsLate'
  BY <1>6 DEF CreateQuestion, PutUnder
<1>7. ASSUME NEW r \in open, NEW q \in Question, NEW s \in Subject, NEW t \in Topic \union {None}, PersistMatched(r, q, s, t) PROVE TopicsLate'
  BY <1>7 DEF PersistMatched, Persist, PutUnder
<1>8. ASSUME NEW r \in open, NEW q \in Question, NEW s \in Subject, PersistUnsorted(r, q, s) PROVE TopicsLate'
  BY <1>8 DEF PersistUnsorted, EnsureUnsorted, Persist, PutUnder
<1>9. ASSUME NEW q \in Question, NEW s \in Subject \union {None}, NEW t \in Topic \union {None}, UpdateQuestion(q, s, t) PROVE TopicsLate'
  BY <1>9 DEF UpdateQuestion, PutUnder
<1>10. ASSUME NEW t \in Topic, DeleteTopic(t) PROVE TopicsLate'
  BY <1>10 DEF DeleteTopic
<1> QED BY <1>1, <1>2, <1>3, <1>4, <1>5, <1>6, <1>7, <1>8, <1>9, <1>10 DEF NextCatalogue, catalogueVars, StartDelete, StartDeleteBlind, StartTopic, StartWrite, StartList,
    StartAnalysis, StartIngest, LoadTopics, Fail, DeleteQuestion, RemoveExamSubject

\* An exam's row for a deleted subject stays late.
LEMMA ListedStep == ASSUME CatalogueOK, ListedLate, [NextCatalogue]_catalogueVars PROVE ListedLate'
<1> USE TaxonomyAssumption DEF CatalogueOK, ListedLate, Living, New
<1>1. ASSUME NEW s \in Subject, NEW c \in Code, CreateSubject(s, c) \/ UpdateSubject(s, c) PROVE ListedLate'
  BY <1>1 DEF CreateSubject, UpdateSubject
<1>2. ASSUME NEW r \in open, DeleteSubject(r) PROVE ListedLate'
  BY <1>2 DEF DeleteSubject, Open
<1>3. ASSUME NEW r \in open, ListSubject(r) PROVE ListedLate'
  BY <1>3 DEF ListSubject
<1>4. ASSUME NEW r \in open, NEW t \in Topic, CreateTopic(r, t) PROVE ListedLate'
  BY <1>4 DEF CreateTopic, PutUnder
<1>5. ASSUME NEW s \in Subject, NEW t \in Topic, UpdateTopic(t, s) PROVE ListedLate'
  BY <1>5 DEF UpdateTopic, PutUnder
<1>6. ASSUME NEW r \in open, NEW q \in Question, NEW t \in Topic \union {None}, CreateQuestion(r, q, t) PROVE ListedLate'
  BY <1>6 DEF CreateQuestion, PutUnder
<1>7. ASSUME NEW r \in open, NEW q \in Question, NEW s \in Subject, NEW t \in Topic \union {None}, PersistMatched(r, q, s, t) PROVE ListedLate'
  BY <1>7 DEF PersistMatched, Persist, PutUnder
<1>8. ASSUME NEW r \in open, NEW q \in Question, NEW s \in Subject, PersistUnsorted(r, q, s) PROVE ListedLate'
  BY <1>8 DEF PersistUnsorted, EnsureUnsorted, Persist, PutUnder
<1>9. ASSUME NEW q \in Question, NEW s \in Subject \union {None}, NEW t \in Topic \union {None}, UpdateQuestion(q, s, t) PROVE ListedLate'
  BY <1>9 DEF UpdateQuestion, PutUnder
<1>10. ASSUME NEW e \in Exam, NEW s \in Subject, RemoveExamSubject(e, s) PROVE ListedLate'
  BY <1>10 DEF RemoveExamSubject
<1> QED BY <1>1, <1>2, <1>3, <1>4, <1>5, <1>6, <1>7, <1>8, <1>9, <1>10 DEF NextCatalogue, catalogueVars, StartDelete, StartDeleteBlind, StartTopic, StartWrite, StartList,
    StartAnalysis, StartIngest, LoadTopics, Fail, DeleteQuestion, DeleteTopic

\* A topic leaves the living ones with its tags, or with its subject.
LEMMA TagsStep == ASSUME CatalogueOK, Placed, TagsGone, [NextCatalogue]_catalogueVars PROVE TagsGone'
<1> USE TaxonomyAssumption DEF CatalogueOK, Placed, TagsGone, Living, New
<1>1. ASSUME NEW s \in Subject, NEW c \in Code, CreateSubject(s, c) \/ UpdateSubject(s, c) PROVE TagsGone'
  BY <1>1 DEF CreateSubject, UpdateSubject
<1>2. ASSUME NEW r \in open, DeleteSubject(r) PROVE TagsGone'
  BY <1>2 DEF DeleteSubject, Open, TopicsOf
<1>3. ASSUME NEW r \in open, NEW t \in Topic, CreateTopic(r, t) PROVE TagsGone'
  BY <1>3 DEF CreateTopic, Open
<1>4. ASSUME NEW s \in Subject, NEW t \in Topic, UpdateTopic(t, s) PROVE TagsGone'
  BY <1>4 DEF UpdateTopic
<1>5. ASSUME NEW t \in Topic, DeleteTopic(t) PROVE TagsGone'
  BY <1>5 DEF DeleteTopic
<1>6. ASSUME NEW r \in open, NEW q \in Question, NEW t \in Topic \union {None}, CreateQuestion(r, q, t) PROVE TagsGone'
  BY <1>6 DEF CreateQuestion, Tagging
<1>7. ASSUME NEW r \in open, NEW q \in Question, NEW s \in Subject, NEW t \in Topic \union {None}, PersistMatched(r, q, s, t) PROVE TagsGone'
  BY <1>7 DEF PersistMatched, Persist, Tagging
<1>8. ASSUME NEW r \in open, NEW q \in Question, NEW s \in Subject, PersistUnsorted(r, q, s) PROVE TagsGone'
  BY <1>8 DEF PersistUnsorted, EnsureUnsorted, Persist, Tagging
<1>9. ASSUME NEW q \in Question, NEW s \in Subject \union {None}, NEW t \in Topic \union {None}, UpdateQuestion(q, s, t) PROVE TagsGone'
  BY <1>9 DEF UpdateQuestion, Tagging
<1>10. ASSUME NEW q \in Question, DeleteQuestion(q) PROVE TagsGone'
  BY <1>10 DEF DeleteQuestion
<1> QED BY <1>1, <1>2, <1>3, <1>4, <1>5, <1>6, <1>7, <1>8, <1>9, <1>10 DEF NextCatalogue, catalogueVars, StartDelete, StartDeleteBlind, StartTopic, StartWrite, StartList,
    StartAnalysis, StartIngest, LoadTopics, Fail, ListSubject, RemoveExamSubject

\* The inductive invariant holds of every reachable catalogue.
THEOREM CatalogueInvariance == CatalogueSpec => []CatalogueInv
<1>1. InitCatalogue => CatalogueInv
  BY TaxonomyAssumption DEF InitCatalogue, CatalogueInv, CatalogueOK, Row, Counted, Filed, Placed, QuestionsLate, TopicsLate, ListedLate, TagsGone
<1>2. CatalogueInv /\ [NextCatalogue]_catalogueVars => CatalogueInv'
  BY CatalogueStep, CountedStep, FiledStep, PlacedStep, QuestionsStep, TopicsStep, ListedStep, TagsStep DEF CatalogueInv
<1> QED BY <1>1, <1>2, PTL DEF CatalogueSpec

\* handler/taxonomy.go: a subject is deleted only when no question was counted under
\* it or the count failed, and takes its topics and its exams' rows with it in both
\* cases, whatever runs between.
THEOREM DeletedSubjects == CatalogueSpec => []DeletedSubjectsKeepNothing
<1>1. CatalogueInv => DeletedSubjectsKeepNothing
  BY DEF CatalogueInv, CatalogueOK, QuestionsLate, TopicsLate, ListedLate, DeletedSubjectsKeepNothing, Living
<1> QED BY <1>1, CatalogueInvariance, PTL

\* handler/taxonomy.go: deleting a topic clears it from the questions tagged with it;
\* deleting its subject strands a tag only on a question put there late, or one that
\* stood there when the count of the subject's questions failed.
THEOREM DeletedTopics == CatalogueSpec => []DeletedTopicsTagNothing
<1>1. CatalogueInv => DeletedTopicsTagNothing
  BY DEF CatalogueInv, CatalogueOK, QuestionsLate, TagsGone, DeletedTopicsTagNothing, Living
<1> QED BY <1>1, CatalogueInvariance, PTL
=============================================================================
