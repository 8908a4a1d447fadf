------------------------------ MODULE PaperProofs -----------------------------
(***************************************************************************)
(* Theorems about the papers that come in and the papers that go out: how  *)
(* a document is read, by a task of the conversion service                 *)
(* (ConverterTasks), for any number of calls, threads and restarts of the  *)
(* service, and then by the detectors of the parser (PrintedPaper), for    *)
(* papers of any length in any set of conventions; and how a paper made    *)
(* of its questions is checked and published (PaperGate), for any number   *)
(* of questions, audits and checks.                                        *)
(*                                                                         *)
(* Three facts about what is in flight carry the argument for PaperGate.   *)
(* An audit or a recheck that holds a question counted as rejected has     *)
(* read it as rejected (ReadAsRejected); while somebody is about to        *)
(* publish, the verdict is a pass or a check has failed the paper since    *)
(* (PublishingPassed); and a check about to record a pass is right about   *)
(* every question that has not changed since it read them (JudgedRight).   *)
(***************************************************************************)
EXTENDS ConverterTasks, PrintedPaper, PaperGate, ListFacts


Returned(c) == call[c] \in Outcomes

\* A completed task has its result: so does one whose status is about to say so.
Truthful == \A c \in Call :
  /\ taskStatus[c] = "completed" \/ work[c] = "storing" => result[c]
  /\ seen[c] = "completed" => result[c]
  /\ call[c] = "fetching" => result[c]

\* Only calls that have returned cancel: nobody flags a task still waited for.
CancelledLate == \A c \in Call :
  /\ c \in deletes \/ flag[c] \/ seen[c] = "cancelled" => Returned(c)
  /\ taskStatus[c] = "cancelled" => flag[c]

\* A task nobody submitted is nowhere; a call that was not made has none.
Unborn == \A c \in Call :
  /\ call[c] = "idle" => work[c] = "none"
  /\ work[c] = "none" => c \notin tracked /\ taskStatus[c] = "queued" /\ ~flag[c]

\* The pool's queue holds each task that waits, once.
Queued ==
  /\ \A i \in 1..Len(queue) : work[queue[i]] = "queued"
  /\ \A i, j \in 1..Len(queue) : queue[i] = queue[j] => i = j

\* What the status of a task says while the pool has it.
Phase == \A c \in Call :
  /\ work[c] = "queued" => taskStatus[c] = IF flag[c] THEN "cancelled" ELSE "queued"
  /\ work[c] = "dropping" => taskStatus[c] = "cancelled"
  /\ work[c] \in {"converting", "storing"} => taskStatus[c] = "processing"

IInv == TasksTypeOK /\ Truthful /\ CancelledLate /\ Unborn /\ Queued /\ Phase /\ NoEmptySuccess

\* A task is queued behind those that wait.
LEMMA SubmitQueues == ASSUME queue \in Seq(Call), NEW c \in Call, Submit(c) PROVE queue' \in Seq(Call)
<1>1. CASE UNCHANGED service
  BY <1>1 DEF service
<1>2. CASE Register(c)
  <2>1. queue' = Append(queue, c)
    BY <1>2 DEF Register
  <2> QED BY <2>1
<1> QED BY <1>1, <1>2 DEF Submit

\* Every variable keeps its type.
LEMMA TypeStep == ASSUME TasksTypeOK, [NextTask]_taskVars PROVE TasksTypeOK'
<1> USE RestartsAssumption DEF TasksTypeOK, TaskStatus, Terminal, Outcomes, CallStates, WorkStates, client, fields, service
<1>1. ASSUME NEW c \in Call, Submit(c) PROVE TasksTypeOK'
  <2>1. call' \in [Call -> CallStates] /\ UNCHANGED <<ctx, late, seen, deletes, restarts, fields>>
    BY <1>1 DEF Submit, Register
  <2>2. tracked' \subseteq Call /\ work' \in [Call -> WorkStates]
    BY <1>1 DEF Submit, Register
  <2>3. queue' \in Seq(Call)
    BY <1>1, SubmitQueues
  <2> QED BY <2>1, <2>2, <2>3
<1>2. ASSUME NEW c \in Call, Poll(c) \/ Fetch(c) \/ RequestFails(c) \/ Abandon(c) PROVE TasksTypeOK'
  <2>1. CASE Poll(c)
    BY <2>1 DEF Poll
  <2>2. CASE Fetch(c)
    BY <2>2 DEF Fetch
  <2>3. CASE RequestFails(c) \/ Abandon(c)
    BY <2>3 DEF RequestFails, Abandon, GiveUp
  <2> QED BY <1>2, <2>1, <2>2, <2>3
<1>3. ASSUME NEW c \in Call, Act(c) PROVE TasksTypeOK'
  BY <1>3 DEF Act, GiveUp, Answer
<1>4. ASSUME NEW c \in Call, CancelContext(c) \/ DeadlinePasses(c) \/ DeleteLost(c) PROVE TasksTypeOK'
  BY <1>4 DEF CancelContext, DeadlinePasses, DeleteLost
<1>5. ASSUME NEW c \in Call, Take(c) PROVE TasksTypeOK'
  BY <1>5 DEF Take
<1>6. ASSUME NEW c \in Call, DropTask(c) \/ Begin(c) \/ StoreStatus(c) \/ ConvertFails(c) \/ StoreResult(c) PROVE TasksTypeOK'
  <2>1. CASE DropTask(c)
    BY <2>1 DEF DropTask, Finish
  <2>2. CASE Begin(c)
    BY <2>2 DEF Begin
  <2>3. CASE StoreStatus(c)
    BY <2>3 DEF StoreStatus
  <2>4. CASE ConvertFails(c)
    BY <2>4 DEF ConvertFails, Finish
  <2>5. CASE StoreResult(c)
    BY <2>5 DEF StoreResult
  <2> QED BY <1>6, <2>1, <2>2, <2>3, <2>4, <2>5
<1>7. ASSUME NEW c \in Call, DeleteArrives(c) PROVE TasksTypeOK'
  <2>1. CASE c \in tracked /\ taskStatus[c] \notin Terminal
    <3>1. taskStatus' = [taskStatus EXCEPT ![c] = IF @ = "queued" THEN "cancelled" ELSE @] /\ flag' = [flag EXCEPT ![c] = TRUE]
          /\ finished' = [finished EXCEPT ![c] = @ \/ taskStatus[c] = "queued"]
          /\ deletes' = deletes \ {c} /\ UNCHANGED <<tracked, client, result, queue, work, restarts>>
      BY <1>7, <2>1 DEF DeleteArrives, CancelTask
    <3>2. taskStatus' \in [Call -> TaskStatus] /\ flag' \in [Call -> BOOLEAN]
      BY <3>1
    <3>3. finished' \in [Call -> BOOLEAN]
      BY <3>1
    <3> QED BY <3>1, <3>2, <3>3
  <2>2. CASE c \notin tracked \/ taskStatus[c] \in Terminal
    BY <1>7, <2>2 DEF DeleteArrives, CancelTask
  <2> QED BY <2>1, <2>2
<1>8. CASE Restart
  BY <1>8 DEF Restart
<1>9. CASE UNCHANGED taskVars
  BY <1>9 DEF taskVars
<1> QED BY <1>1, <1>2, <1>3, <1>4, <1>5, <1>6, <1>7, <1>8, <1>9 DEF NextTask, ClientStep, Thread, Engine

\* No status is completed before its result is there.
LEMMA TruthfulStep == ASSUME TasksTypeOK, Truthful, Phase, [NextTask]_taskVars PROVE Truthful'
<1> USE DEF TasksTypeOK, Truthful, Phase, Terminal, client, fields, service
<1>1. ASSUME NEW c \in Call, Submit(c) PROVE Truthful'
  BY <1>1 DEF Submit, Register
<1>2. ASSUME NEW c \in Call, Poll(c) \/ Fetch(c) \/ RequestFails(c) \/ Abandon(c) PROVE Truthful'
  BY <1>2 DEF Poll, Fetch, RequestFails, Abandon, GiveUp
<1>3. ASSUME NEW c \in Call, Act(c) PROVE Truthful'
  BY <1>3 DEF Act, GiveUp, Answer
<1>4. ASSUME NEW c \in Call, CancelContext(c) \/ DeadlinePasses(c) \/ DeleteLost(c) PROVE Truthful'
  BY <1>4 DEF CancelContext, DeadlinePasses, DeleteLost
<1>5. ASSUME NEW c \in Call, Take(c) PROVE Truthful'
  BY <1>5 DEF Take
<1>6. ASSUME NEW c \in Call, DropTask(c) \/ Begin(c) \/ StoreStatus(c) \/ ConvertFails(c) \/ StoreResult(c) PROVE Truthful'
  BY <1>6 DEF DropTask, Begin, StoreStatus, ConvertFails, StoreResult, Finish
<1>7. ASSUME NEW c \in Call, DeleteArrives(c) PROVE Truthful'
  BY <1>7 DEF DeleteArrives, CancelTask
<1>8. CASE Restart
  BY <1>8 DEF Restart
<1>9. CASE UNCHANGED taskVars
  BY <1>9 DEF taskVars
<1> QED BY <1>1, <1>2, <1>3, <1>4, <1>5, <1>6, <1>7, <1>8, <1>9 DEF NextTask, ClientStep, Thread, Engine

\* Nobody flags a task whose call is still open.
LEMMA CancelledStep == ASSUME TasksTypeOK, CancelledLate, Unborn, Phase, [NextTask]_taskVars PROVE CancelledLate'
<1> USE DEF TasksTypeOK, CancelledLate, Unborn, Phase, Returned, Outcomes, CallStates, Terminal, TaskStatus, client, fields, service
<1>1. ASSUME NEW c \in Call, Submit(c) PROVE CancelledLate'
  BY <1>1 DEF Submit, Register
<1>2. ASSUME NEW c \in Call, Poll(c) \/ RequestFails(c) PROVE CancelledLate'
  BY <1>2 DEF Poll, RequestFails
<1>3. ASSUME NEW c \in Call, Fetch(c) \/ Abandon(c) PROVE CancelledLate'
  BY <1>3 DEF Fetch, Abandon, GiveUp
<1>4. ASSUME NEW c \in Call, Act(c) PROVE CancelledLate'
  BY <1>4 DEF Act, GiveUp, Answer
<1>5. ASSUME NEW c \in Call, CancelContext(c) \/ DeadlinePasses(c) \/ DeleteLost(c) PROVE CancelledLate'
  BY <1>5 DEF CancelContext, DeadlinePasses, DeleteLost
<1>6. ASSUME NEW c \in Call, Take(c) PROVE CancelledLate'
  BY <1>6 DEF Take
<1>7. ASSUME NEW c \in Call, DropTask(c) \/ Begin(c) \/ StoreStatus(c) \/ ConvertFails(c) \/ StoreResult(c) PROVE CancelledLate'
  BY <1>7 DEF DropTask, Begin, StoreStatus, ConvertFails, StoreResult, Finish
<1>8. ASSUME NEW c \in Call, DeleteArrives(c) PROVE CancelledLate'
  BY <1>8 DEF DeleteArrives, CancelTask
<1>9. CASE Restart
  BY <1>9 DEF Restart
<1>10. CASE UNCHANGED taskVars
  BY <1>10 DEF taskVars
<1> QED BY <1>1, <1>2, <1>3, <1>4, <1>5, <1>6, <1>7, <1>8, <1>9, <1>10 DEF NextTask, ClientStep, Thread, Engine

\* What was never submitted stays out of the registry and the pool.
LEMMA UnbornStep == ASSUME TasksTypeOK, Unborn, CancelledLate, Queued, [NextTask]_taskVars PROVE Unborn'
<1> USE DEF TasksTypeOK, Unborn, CallStates, Outcomes, Terminal, client, fields, service
<1>1. ASSUME NEW c \in Call, Submit(c) PROVE Unborn'
  BY <1>1 DEF Submit, Register
<1>2. ASSUME NEW c \in Call, Poll(c) \/ Fetch(c) \/ RequestFails(c) \/ Abandon(c) PROVE Unborn'
  BY <1>2 DEF Poll, Fetch, RequestFails, Abandon, GiveUp
<1>3. ASSUME NEW c \in Call, Act(c) PROVE Unborn'
  BY <1>3 DEF Act, GiveUp, Answer
<1>4. ASSUME NEW c \in Call, CancelContext(c) \/ DeadlinePasses(c) \/ DeleteLost(c) PROVE Unborn'
  BY <1>4 DEF CancelContext, DeadlinePasses, DeleteLost
<1>5. ASSUME NEW c \in Call, Take(c) PROVE Unborn'
  <2>1. work[c] = "queued"
    BY <1>5 DEF Take, Queued
  <2> QED BY <1>5, <2>1 DEF Take
<1>6. ASSUME NEW c \in Call, DropTask(c) \/ Begin(c) \/ StoreStatus(c) \/ ConvertFails(c) \/ StoreResult(c) PROVE Unborn'
  BY <1>6 DEF DropTask, Begin, StoreStatus, ConvertFails, StoreResult, Finish
<1>7. ASSUME NEW c \in Call, DeleteArrives(c) PROVE Unborn'
  BY <1>7 DEF DeleteArrives, CancelTask
<1>8. CASE Restart
  BY <1>8 DEF Restart
<1>9. CASE UNCHANGED taskVars
  BY <1>9 DEF taskVars
<1> QED BY <1>1, <1>2, <1>3, <1>4, <1>5, <1>6, <1>7, <1>8, <1>9 DEF NextTask, ClientStep, Thread, Engine

\* The queue holds what waits, and nothing twice.
LEMMA QueuedStep == ASSUME TasksTypeOK, Unborn, Queued, Phase, [NextTask]_taskVars PROVE Queued'
<1> USE DEF TasksTypeOK, Queued, client, fields, service
<1>1. ASSUME NEW c \in Call, Submit(c) PROVE Queued'
  <2>1. CASE UNCHANGED service
    BY <2>1
  <2>2. CASE Register(c)
    <3>1. work[c] = "none" /\ \A i \in 1..Len(queue) : queue[i] \in Call /\ queue[i] # c
      BY <1>1 DEF Submit, Unborn
    <3>2. queue' = Append(queue, c) /\ work' = [work EXCEPT ![c] = "queued"]
      BY <2>2 DEF Register
    <3>3. Len(queue') = Len(queue) + 1 /\ queue'[Len(queue) + 1] = c /\ \A i \in 1..Len(queue) : queue'[i] = queue[i]
      BY <3>2
    <3>4. \A i \in 1..Len(queue') : i \in 1..Len(queue) \/ i = Len(queue) + 1
      BY <3>3
    <3>5. \A i \in 1..Len(queue) : queue'[i] \in Call \ {c} /\ work'[queue'[i]] = "queued"
      BY <3>1, <3>2, <3>3
    <3>6. work'[c] = "queued"
      BY <3>2
    <3>7. \A i \in 1..Len(queue') : work'[queue'[i]] = "queued"
      BY <3>3, <3>4, <3>5, <3>6
    <3>8. \A i, j \in 1..Len(queue') : queue'[i] = queue'[j] => i = j
      BY <3>3, <3>4, <3>5
    <3> QED BY <3>7, <3>8
  <2> QED BY <1>1, <2>1, <2>2 DEF Submit
<1>2. ASSUME NEW c \in Call, Poll(c) \/ Fetch(c) \/ RequestFails(c) \/ Abandon(c) \/ Act(c) PROVE Queued'
  BY <1>2 DEF Poll, Fetch, RequestFails, Abandon, Act
<1>3. ASSUME NEW c \in Call, CancelContext(c) \/ DeadlinePasses(c) \/ DeleteLost(c) \/ DeleteArrives(c) PROVE Queued'
  BY <1>3 DEF CancelContext, DeadlinePasses, DeleteLost, DeleteArrives
<1>4. ASSUME NEW c \in Call, Take(c) PROVE Queued'
  <2>1. queue # <<>> /\ queue[1] = c /\ queue' = Tail(queue) /\ \A d \in Call \ {c} : work'[d] = work[d]
    BY <1>4 DEF Take
  <2>2. Len(queue') = Len(queue) - 1 /\ \A i \in 1..Len(queue') : queue'[i] = queue[i + 1] /\ queue[i + 1] # c
    BY <2>1
  <2>3. \A i \in 1..Len(queue') : i + 1 \in 1..Len(queue) /\ queue'[i] \in Call \ {c}
    BY <2>1, <2>2
  <2>4. \A i \in 1..Len(queue') : work'[queue'[i]] = "queued"
    BY <2>1, <2>2, <2>3
  <2>5. ASSUME NEW i \in 1..Len(queue'), NEW j \in 1..Len(queue'), queue'[i] = queue'[j] PROVE i = j
    <3>1. i + 1 \in 1..Len(queue) /\ j + 1 \in 1..Len(queue) /\ queue[i + 1] = queue[j + 1]
      BY <2>2, <2>3, <2>5
    <3>2. i + 1 = j + 1
      BY <3>1
    <3> QED BY <3>2
  <2> QED BY <2>4, <2>5
<1>5. ASSUME NEW c \in Call, DropTask(c) \/ Begin(c) \/ StoreStatus(c) \/ ConvertFails(c) \/ StoreResult(c) PROVE Queued'
  BY <1>5 DEF DropTask, Begin, StoreStatus, ConvertFails, StoreResult, Finish
<1>6. CASE Restart
  BY <1>6 DEF Restart
<1>7. CASE UNCHANGED taskVars
  BY <1>7 DEF taskVars
<1> QED BY <1>1, <1>2, <1>3, <1>4, <1>5, <1>6, <1>7 DEF NextTask, ClientStep, Thread, Engine

\* The status follows the pool's step, but for a task cancelled after its check.
LEMMA PhaseStep == ASSUME TasksTypeOK, Unborn, Queued, Phase, [NextTask]_taskVars PROVE Phase'
<1> USE DEF TasksTypeOK, Phase, Terminal, TaskStatus, WorkStates, client, fields, service
<1>1. ASSUME NEW c \in Call, Submit(c) PROVE Phase'
  BY <1>1 DEF Submit, Register, Unborn
<1>2. ASSUME NEW c \in Call, Poll(c) \/ Fetch(c) \/ RequestFails(c) \/ Abandon(c) \/ Act(c) PROVE Phase'
  BY <1>2 DEF Poll, Fetch, RequestFails, Abandon, Act
<1>3. ASSUME NEW c \in Call, CancelContext(c) \/ DeadlinePasses(c) \/ DeleteLost(c) PROVE Phase'
  BY <1>3 DEF CancelContext, DeadlinePasses, DeleteLost
<1>4. ASSUME NEW c \in Call, Take(c) PROVE Phase'
  <2>1. queue \in Seq(Call) /\ queue # <<>> /\ c = Head(queue)
    BY <1>4 DEF Take
  <2>2. 1 \in 1..Len(queue) /\ c = queue[1]
    <3> HIDE DEF TasksTypeOK, Phase
    <3> QED BY <2>1
  <2>3. work[c] = "queued"
    BY <2>2 DEF Queued
  <2> QED BY <1>4, <2>3 DEF Take
<1>5. ASSUME NEW c \in Call, DropTask(c) \/ Begin(c) \/ StoreStatus(c) \/ ConvertFails(c) \/ StoreResult(c) PROVE Phase'
  <2>1. CASE DropTask(c)
    BY <2>1 DEF DropTask, Finish
  <2>2. CASE Begin(c)
    BY <2>2 DEF Begin, Finish
  <2>3. CASE StoreStatus(c)
    BY <2>3 DEF StoreStatus
  <2>4. CASE ConvertFails(c)
    BY <2>4 DEF ConvertFails, Finish
  <2>5. CASE StoreResult(c)
    BY <2>5 DEF StoreResult
  <2> QED BY <1>5, <2>1, <2>2, <2>3, <2>4, <2>5
<1>6. ASSUME NEW c \in Call, DeleteArrives(c) PROVE Phase'
  BY <1>6 DEF DeleteArrives, CancelTask
<1>7. CASE Restart
  BY <1>7 DEF Restart
<1>8. CASE UNCHANGED taskVars
  BY <1>8 DEF taskVars
<1> QED BY <1>1, <1>2, <1>3, <1>4, <1>5, <1>6, <1>7, <1>8 DEF NextTask, ClientStep, Thread, Engine

\* A fetch finds the result.
LEMMA DocumentStep == ASSUME TasksTypeOK, Truthful, NoEmptySuccess, [NextTask]_taskVars PROVE NoEmptySuccess'
BY DEF TasksTypeOK, Truthful, NoEmptySuccess, NextTask, ClientStep, Thread, Engine, Submit, Poll, Fetch, RequestFails, Abandon, Act, GiveUp, Answer,
   CancelContext, DeadlinePasses, DeleteLost, DeleteArrives, Take, DropTask, Begin, StoreStatus, ConvertFails, StoreResult, Finish, Restart, taskVars, client, service

\* The inductive invariant holds of every reachable state.
THEOREM Invariance == TasksSpec => []IInv
<1>1. InitTasks => IInv
  BY RestartsAssumption DEF InitTasks, IInv, TasksTypeOK, Truthful, CancelledLate, Unborn, Queued, Phase, NoEmptySuccess, CallStates, TaskStatus, WorkStates
<1>2. IInv /\ [NextTask]_taskVars => IInv'
  BY TypeStep, TruthfulStep, CancelledStep, UnbornStep, QueuedStep, PhaseStep, DocumentStep DEF IInv
<1> QED BY <1>1, <1>2, PTL DEF TasksSpec

\* client.go, Convert: a task said to be completed always yields its document.
THEOREM NoEmpty == TasksSpec => []NoEmptySuccess
<1>1. IInv => NoEmptySuccess
  BY DEF IInv
<1> QED BY <1>1, Invariance, PTL

\* tasks.py: a task is cancelled only by a call that has returned.
THEOREM OnlyReturnedCancel == TasksSpec => []NeverToldCancelled
<1>1. IInv => NeverToldCancelled
  BY DEF IInv, CancelledLate, Returned, Outcomes, Open, NeverToldCancelled
<1> QED BY <1>1, Invariance, PTL

\* tasks.py, _run: a final status is overwritten only by the first write of a
\* thread that had checked the task before it was cancelled.
THEOREM Final == TasksSpec => FinalUnlessTaken
<1>1. ASSUME IInv, [NextTask]_taskVars, NEW c \in Call, taskStatus[c] \in Terminal, taskStatus'[c] # taskStatus[c]
      PROVE  work[c] = "checked"
  <2> USE <1>1 DEF IInv, TasksTypeOK, Phase, Terminal, client, fields, service
  <2>1. ASSUME NEW d \in Call, DropTask(d) \/ Begin(d) \/ StoreStatus(d) \/ ConvertFails(d) \/ StoreResult(d) PROVE work[c] = "checked"
    BY <2>1 DEF DropTask, Begin, StoreStatus, ConvertFails, StoreResult, Finish
  <2>2. ASSUME NEW d \in Call, DeleteArrives(d) PROVE FALSE
    BY <2>2 DEF DeleteArrives, CancelTask
  <2>3. ASSUME UNCHANGED taskStatus PROVE FALSE
    BY <2>3
  <2> QED BY <2>1, <2>2, <2>3 DEF NextTask, ClientStep, Thread, Engine, Submit, Register, Poll, Fetch, RequestFails, Abandon, Act, CancelContext,
         DeadlinePasses, DeleteLost, Take, Restart, taskVars
<1>2. IInv /\ [NextTask]_taskVars => [\A c \in Call : taskStatus[c] \in Terminal /\ taskStatus'[c] # taskStatus[c] => work[c] = "checked"]_taskVars
  BY <1>1
<1> QED BY <1>2, Invariance, PTL DEF TasksSpec, FinalUnlessTaken

-------------------------------------------------------------------------------
(* The refinement: what the backend sees of a step.                        *)

Outs == [c \in Call |-> OutcomeOf(c)]
Converted == {c \in Call : result[c]}

\* A step of one call is a step of that call's outcome, or none.
LEMMA OneOutcome ==
  ASSUME TasksTypeOK, NEW c \in Call, NEW to, call' = [call EXCEPT ![c] = to]
  PROVE  Outs' = [Outs EXCEPT ![c] = OutcomeOf(c)']
<1>1. \A d \in Call \ {c} : OutcomeOf(d)' = OutcomeOf(d)
  BY DEF TasksTypeOK, OutcomeOf, Open
<1> QED BY <1>1 DEF Outs

\* Every step is one of ConversionCall's, or a stutter of it.
LEMMA StepIsCallStep == ASSUME IInv, [NextTask]_taskVars PROVE [Backend!Next]_<<Outs, Converted>>
<1> USE DEF IInv, Converted
<1> SUFFICES Backend!Next \/ UNCHANGED <<Outs, Converted>>
  OBVIOUS
<1>1. ASSUME NEW c \in Call, Submit(c) PROVE Backend!Start(c) \/ Backend!Fail(c)
  <2>1. PICK to \in {"waiting", "error"} : call' = [call EXCEPT ![c] = to]
    BY <1>1 DEF Submit
  <2>2. OutcomeOf(c) = "idle" /\ OutcomeOf(c)' \in {"running", "failed"}
    BY <1>1, <2>1 DEF Submit, OutcomeOf, Open, TasksTypeOK
  <2>3. UNCHANGED Converted
    BY <1>1 DEF Submit, Register, service, fields
  <2> QED BY <2>1, <2>2, <2>3, OneOutcome DEF Outs, Backend!Start, Backend!Fail
<1>2. ASSUME NEW c \in Call, Fetch(c) PROVE Backend!Deliver(c) \/ Backend!Fail(c)
  <2>1. PICK to \in {"document", "empty"} : call' = [call EXCEPT ![c] = to] /\ (to = "document" => result[c])
    BY <1>2 DEF Fetch
  <2>2. OutcomeOf(c) = "running" /\ OutcomeOf(c)' = (IF to = "document" THEN "document" ELSE "failed")
    BY <1>2, <2>1 DEF Fetch, OutcomeOf, Open, TasksTypeOK
  <2>3. UNCHANGED Converted
    BY <1>2 DEF Fetch, service, fields
  <2> QED BY <2>1, <2>2, <2>3, OneOutcome DEF Outs, Backend!Deliver, Backend!Fail
<1>3. ASSUME NEW c \in Call, RequestFails(c) \/ Abandon(c) \/ Act(c) PROVE Backend!Fail(c) \/ UNCHANGED <<Outs, Converted>>
  <2>1. PICK to \in {"error", "cancelled", "timeout", "failed", "waiting", "fetching"} : call' = [call EXCEPT ![c] = to]
    BY <1>3 DEF RequestFails, Abandon, Act, GiveUp, Answer
  <2>2. OutcomeOf(c) = "running" /\ OutcomeOf(c)' \in {"running", "failed"}
    BY <1>3, <2>1 DEF RequestFails, Abandon, Act, OutcomeOf, Open, TasksTypeOK
  <2>3. UNCHANGED Converted
    BY <1>3 DEF RequestFails, Abandon, Act, service, fields
  <2>4. CASE OutcomeOf(c)' = "running"
    BY <2>1, <2>2, <2>3, <2>4, OneOutcome DEF Outs
  <2>5. CASE OutcomeOf(c)' = "failed"
    BY <2>1, <2>2, <2>3, <2>5, OneOutcome DEF Outs, Backend!Fail
  <2> QED BY <2>2, <2>4, <2>5
<1>4. ASSUME NEW c \in Call, Poll(c) PROVE UNCHANGED <<Outs, Converted>>
  <2>1. call' = [call EXCEPT ![c] = "replied"] /\ UNCHANGED Converted
    BY <1>4 DEF Poll, service, fields
  <2>2. OutcomeOf(c) = "running" /\ OutcomeOf(c)' = "running"
    BY <1>4, <2>1 DEF Poll, OutcomeOf, Open, TasksTypeOK
  <2> QED BY <2>1, <2>2, OneOutcome DEF Outs
<1>5. ASSUME NEW c \in Call, StoreResult(c) PROVE Backend!Read(c)
  <2>1. OutcomeOf(c) # "idle"
    BY <1>5 DEF StoreResult, OutcomeOf, Open, TasksTypeOK, Unborn
  <2>2. UNCHANGED Outs
    BY <1>5 DEF StoreResult, Outs, OutcomeOf, Open, client
  <2>3. Converted' = Converted \cup {c}
    BY <1>5 DEF StoreResult, TasksTypeOK
  <2> QED BY <2>1, <2>2, <2>3 DEF Outs, Backend!Read
<1>6. ASSUME UNCHANGED <<call, result>> PROVE UNCHANGED <<Outs, Converted>>
  BY <1>6 DEF Outs, OutcomeOf, Open
<1>7. ASSUME NEW c \in Call, Thread(c) \/ ConvertFails(c) PROVE UNCHANGED <<call, result>>
  BY <1>7 DEF Thread, Take, DropTask, Begin, StoreStatus, ConvertFails, Finish, client, fields
<1>8. ASSUME NEW c \in Call, CancelContext(c) \/ DeadlinePasses(c) \/ DeleteLost(c) \/ DeleteArrives(c) PROVE UNCHANGED <<call, result>>
  BY <1>8 DEF CancelContext, DeadlinePasses, DeleteLost, DeleteArrives, client, service, fields
<1>9. ASSUME Restart \/ UNCHANGED taskVars PROVE UNCHANGED <<call, result>>
  BY <1>9 DEF Restart, taskVars, client, fields
<1>10. \A c \in Call : Backend!Start(c) \/ Backend!Read(c) \/ Backend!Deliver(c) \/ Backend!Fail(c) => Backend!Next
  BY DEF Backend!Next
<1> QED BY <1>1, <1>2, <1>3, <1>4, <1>5, <1>6, <1>7, <1>8, <1>9, <1>10 DEF NextTask, ClientStep, Engine

\* client.go, Convert: a call that was made returns once, and it returns a
\* document only if the converter read one for it (the safety half of
\* ImplementsCall; that it returns at all is left to the model checker).
THEOREM CallIsImplemented == TasksSpec => Backend!Safety
<1>1. InitTasks => Backend!Init
  <2> SUFFICES ASSUME InitTasks PROVE Backend!Init
    OBVIOUS
  <2>1. \A c \in Call : call[c] = "idle" /\ ~result[c]
    BY DEF InitTasks
  <2>2. \A c \in Call : OutcomeOf(c) = "idle"
    BY <2>1 DEF OutcomeOf, Open
  <2>3. {c \in Call : result[c]} = {}
    BY <2>1
  <2> QED BY <2>2, <2>3 DEF Backend!Init
<1>2. IInv /\ [NextTask]_taskVars => [Backend!Next]_<<Outs, Converted>>
  BY StepIsCallStep
<1> QED BY <1>1, <1>2, Invariance, PTL DEF TasksSpec, Backend!Safety, Backend!vars, Outs, Converted

-----------------------------------------------------------------------------
\* The printed paper: how its rows of options are split.

\* What stands before the options of a row, and the row.
Cited == {<<>>, <<1>>, <<2>>, <<1, 2>>, <<2, 3>>}
RowOK ==
  /\ conv \in Conventions /\ given \in 0..conv.count
  /\ \/ row = NoRow
     \/ \E cited \in Cited, from, size \in Nat \ {0} :
          /\ row = [from |-> from, size |-> size, labels |-> cited \o Options(from, size)]
          /\ cited # <<>> => from = 1

\* The row printed is in order before the first line,
LEMMA RowInit == InitLayout => RowOK
  BY PrintedAssumption DEF InitLayout, RowOK

\* and stays so with every line.
LEMMA RowStep == RowOK /\ [NextLayout]_layoutVars => RowOK'
<1> SUFFICES ASSUME RowOK, [NextLayout]_layoutVars PROVE RowOK'
  OBVIOUS
<1>1. conv \in Conventions /\ conv.count \in Nat \ {0} /\ given \in 0..conv.count
  BY PrintedAssumption DEF RowOK
<1>2. Citations \subseteq Cited /\ <<>> \in Cited
  BY DEF Citations, Cited
<1>3. CASE PrintQuestion
  <2>1. conv' = conv
    BY <1>3 DEF PrintQuestion
  <2>2. CASE given' = 0 /\ row' = NoRow
    BY <1>1, <2>1, <2>2 DEF RowOK, NoRow
  <2>3. CASE given' = conv.count /\ \E cited \in Citations :
               row' = [from |-> 1, size |-> conv.count, labels |-> cited \o Options(1, conv.count)]
    <3>1. PICK cited \in Citations : row' = [from |-> 1, size |-> conv.count, labels |-> cited \o Options(1, conv.count)]
      BY <2>3
    <3>2. cited \in Cited /\ given' \in 0..conv.count
      BY <1>1, <1>2, <2>3
    <3>3. 1 \in Nat \ {0} /\ conv.count \in Nat \ {0}
      BY <1>1
    <3>4. \E from, size \in Nat \ {0} :
            /\ row' = [from |-> from, size |-> size, labels |-> cited \o Options(from, size)]
            /\ cited # <<>> => from = 1
      BY <3>1, <3>3
    <3> QED
      BY <1>1, <2>1, <3>2, <3>4 DEF RowOK
  <2> QED
    BY <1>3, <2>2, <2>3 DEF PrintQuestion
<1>4. CASE PrintRow
  <2>1. PICK size \in {1, 2, conv.count - given} \intersect 1..(conv.count - given) :
             \E cited \in IF given = 0 /\ size > 1 THEN Citations ELSE {<<>>} :
          /\ given' = given + size
          /\ row' = [from |-> given + 1, size |-> size, labels |-> cited \o Options(given + 1, size)]
    BY <1>4 DEF PrintRow
  <2>2. PICK cited \in (IF given = 0 /\ size > 1 THEN Citations ELSE {<<>>}) :
          /\ given' = given + size
          /\ row' = [from |-> given + 1, size |-> size, labels |-> cited \o Options(given + 1, size)]
    BY <2>1
  <2>3. cited \in Cited /\ (cited # <<>> => given + 1 = 1) /\ size \in Nat \ {0} /\ given + 1 \in Nat \ {0}
        /\ given + size \in 0..conv.count
    BY <1>1, <1>2, <2>2
  <2>4. conv' = conv
    BY <1>4 DEF PrintRow
  <2> QED
    BY <1>1, <2>2, <2>3, <2>4 DEF RowOK
<1>5. CASE PrintCover \/ PrintNoise \/ UNCHANGED layoutVars
  BY <1>5 DEF PrintCover, PrintNoise, layoutVars, RowOK, NoRow
<1>6. CASE PrintBack
  BY <1>6 DEF PrintBack, RowOK, NoRow
<1> QED
  BY <1>3, <1>4, <1>5, <1>6 DEF NextLayout

\* What is cited is one label, two in order, or nothing.
LEMMA CitedLabels ==
  ASSUME NEW cited \in Cited
  PROVE  /\ cited \in Seq(Nat) /\ Len(cited) \in 0..2 /\ (cited = <<>> <=> Len(cited) = 0)
         /\ Len(cited) > 0 => cited[Len(cited)] # 0
         /\ Len(cited) = 2 => cited[2] = cited[1] + 1
<1>1. CASE cited = <<>>
  BY <1>1
<1>2. CASE cited = <<1>>
  BY <1>2
<1>3. CASE cited = <<2>>
  BY <1>3
<1>4. CASE cited = <<1, 2>>
  BY <1>4
<1>5. CASE cited = <<2, 3>>
  BY <1>5
<1> QED
  BY <1>1, <1>2, <1>3, <1>4, <1>5 DEF Cited

\* Of the ascending runs of a row's labels, the last is that of its options, and
\* the only other one is that of two labels cited.
LEMMA RunsOfRow ==
  ASSUME NEW cited \in Cited, NEW from \in Nat \ {0}, NEW size \in Nat, size >= 2, cited # <<>> => from = 1
  PROVE  LET labels == cited \o Options(from, size) c == Len(cited) IN
           /\ Len(labels) = c + size /\ c \in 0..2
           /\ RunsOf(labels) = {[at |-> c + 1, first |-> from, count |-> size]}
                \union (IF c = 2 THEN {[at |-> 1, first |-> cited[1], count |-> 2]} ELSE {})
<1> DEFINE options == Options(from, size)
           labels == cited \o options
           c == Len(cited)
<1>1. options \in Seq(Nat) /\ Len(options) = size /\ \A k \in 1..size : options[k] = from + k - 1
  BY DEF Options
<1>2. cited \in Seq(Nat) /\ c \in 0..2 /\ c = Len(cited)
  BY CitedLabels
<1> HIDE DEF options
<1>3. labels \in Seq(Nat) /\ Len(labels) = c + size
      /\ (\A k \in 1..c : labels[k] = cited[k]) /\ (\A k \in 1..size : labels[c + k] = from + k - 1)
  <2>1. cited \in Seq(Nat) /\ options \in Seq(Nat) /\ Len(cited) \in Nat /\ Len(options) = size
    BY <1>1, <1>2
  <2>2. labels \in Seq(Nat) /\ Len(labels) = Len(cited) + size
    BY <2>1
  <2>3. ASSUME NEW k \in 1..Len(cited) PROVE labels[k] = cited[k]
    BY <2>1
  <2>4. ASSUME NEW k \in 1..size PROVE labels[Len(cited) + k] = options[k]
    BY <2>1
  <2> HIDE DEF labels
  <2> QED
    BY <1>1, <1>2, <2>2, <2>3, <2>4
<1>4. \A i \in (c + 1)..(c + size) : labels[i] = from + i - c - 1
  <2> TAKE i \in (c + 1)..(c + size)
  <2>1. i - c \in 1..size /\ c + (i - c) = i
    BY <1>2
  <2>2. labels[c + (i - c)] = from + (i - c) - 1
    BY <1>3, <2>1
  <2> QED
    BY <1>2, <2>1, <2>2
<1> DEFINE starts == {i \in DOMAIN labels : i = 1 \/ labels[i] # labels[i - 1] + 1}
<1>5. starts = {1, c + 1}
  <2>1. \A i \in (c + 2)..(c + size) : labels[i] = labels[i - 1] + 1
    <3> HIDE DEF labels, c
    <3> TAKE i \in (c + 2)..(c + size)
    <3>1. i \in (c + 1)..(c + size) /\ i - 1 \in (c + 1)..(c + size)
      BY <1>2
    <3>2. labels[i] = from + i - c - 1 /\ labels[i - 1] = from + (i - 1) - c - 1
      BY <1>4, <3>1
    <3> QED
      BY <1>2, <3>1, <3>2
  <2>2. c > 0 => labels[c + 1] = 1 /\ labels[c] # 0 /\ labels[c] = cited[c]
    <3>1. c > 0 => labels[c] = cited[c] /\ cited[c] # 0 /\ from = 1 /\ c + 1 \in (c + 1)..(c + size)
      BY <1>2, <1>3, CitedLabels
    <3> HIDE DEF labels, c
    <3> QED
      BY <1>2, <1>4, <3>1
  <2>3. c = 2 => labels[2] = labels[1] + 1
    <3>1. c = 2 => cited[2] = cited[1] + 1
      BY CitedLabels
    <3>2. c = 2 => labels[1] = cited[1] /\ labels[2] = cited[2]
      BY <1>3
    <3> QED
      BY <3>1, <3>2
  <2>4. DOMAIN labels = 1..(c + size)
    BY <1>3
  <2> HIDE DEF labels, c
  <2>5. \A i \in starts : i \in {1, c + 1}
    <3> TAKE i \in starts
    <3>1. i \in 1..(c + size) /\ (i = 1 \/ labels[i] # labels[i - 1] + 1)
      BY <2>4
    <3>2. i \notin (c + 2)..(c + size)
      BY <1>2, <2>1, <3>1
    <3>3. ~(c = 2 /\ i = 2)
      BY <2>3, <3>1
    <3> QED
      BY <1>2, <3>1, <3>2, <3>3
  <2>6. c > 0 => labels[c + 1] # labels[c] + 1
    BY <1>2, <1>3, <2>2
  <2>7. 1 \in starts /\ c + 1 \in starts
    BY <1>2, <2>4, <2>6
  <2> QED
    BY <2>5, <2>7
<1> DEFINE length(i) == Min({j \in starts \union {Len(labels) + 1} : j > i}) - i
<1>6. length(c + 1) = size /\ (c > 0 => length(1) = c)
  <2>1. starts \union {Len(labels) + 1} = {1, c + 1, c + size + 1}
    BY <1>3, <1>5
  <2>2. /\ {j \in {1, c + 1, c + size + 1} : j > c + 1} = {c + size + 1, c + size + 1}
        /\ c > 0 => {j \in {1, c + 1, c + size + 1} : j > 1} = {c + 1, c + size + 1}
    <3> HIDE DEF c
    <3> QED
      BY <1>2
  <2>3. Min({c + size + 1, c + size + 1}) = c + size + 1 /\ Min({c + 1, c + size + 1}) = c + 1
    BY <1>2, MinOfTwo
  <2> HIDE DEF labels, c, starts
  <2>4. \A i : length(i) = Min({j \in {1, c + 1, c + size + 1} : j > i}) - i
    BY <2>1
  <2>5. length(c + 1) = (c + size + 1) - (c + 1) /\ (c > 0 => length(1) = (c + 1) - 1)
    <3> HIDE DEF length
    <3> QED
      BY <2>2, <2>3, <2>4
  <2> HIDE DEF length
  <2> QED
    BY <1>2, <2>5
<1>7. RunsOf(labels) = {[at |-> i, first |-> labels[i], count |-> length(i)] : i \in {j \in starts : length(j) >= 2}}
  BY DEF RunsOf
<1>8. labels[c + 1] = from /\ (c > 0 => labels[1] = cited[1])
  BY <1>2, <1>3, <1>4
<1> HIDE DEF length, starts, labels, c
<1>9. {j \in starts : length(j) >= 2} = {c + 1} \union (IF c = 2 THEN {1} ELSE {})
  BY <1>2, <1>5, <1>6
<1>10. RunsOf(labels) = {[at |-> i, first |-> labels[i], count |-> length(i)] : i \in {c + 1} \union (IF c = 2 THEN {1} ELSE {})}
  BY <1>7, <1>9
<1>11. ASSUME c = 2
       PROVE  RunsOf(labels) = {[at |-> c + 1, first |-> from, count |-> size]} \union {[at |-> 1, first |-> cited[1], count |-> 2]}
  BY <1>6, <1>8, <1>10, <1>11
<1>12. ASSUME c # 2
       PROVE  RunsOf(labels) = {[at |-> c + 1, first |-> from, count |-> size]}
  BY <1>6, <1>8, <1>10, <1>12
<1>13. Len(labels) = c + size /\ c \in 0..2
  BY <1>2, <1>3
<1>14. RunsOf(labels) = {[at |-> c + 1, first |-> from, count |-> size]}
         \union (IF c = 2 THEN {[at |-> 1, first |-> cited[1], count |-> 2]} ELSE {})
  BY <1>11, <1>12
<1> QED
  BY <1>13, <1>14 DEF labels, c, options

\* The run of a row's options continues the question or starts it, and of two
\* that do it is the later and no shorter.
LEMMA RowSplits ==
  ASSUME NEW cited \in Cited, NEW from \in Nat \ {0}, NEW size \in Nat, size >= 2, cited # <<>> => from = 1
  PROVE  LET labels == cited \o Options(from, size) IN
           SplitInlineOptions(labels, from) = {[at |-> Len(labels) - size + 1, first |-> from, count |-> size]}
<1> DEFINE labels == cited \o Options(from, size)
           c == Len(cited)
           printed == [at |-> c + 1, first |-> from, count |-> size]
           quoted == [at |-> 1, first |-> cited[1], count |-> 2]
           rank(run) == IF run.first = from THEN 3 ELSE IF run.first = 1 THEN 2 ELSE 1
           before(a, b) == \/ rank(a) < rank(b)
                           \/ rank(a) = rank(b) /\ (a.count < b.count \/ (a.count = b.count /\ a.at <= b.at))
<1>1. Len(labels) = c + size /\ c \in 0..2 /\ cited \in Seq(Nat)
      /\ RunsOf(labels) = {printed} \union (IF c = 2 THEN {quoted} ELSE {})
  BY RunsOfRow, CitedLabels
<1>2. SplitInlineOptions(labels, from) = {run \in RunsOf(labels) : \A other \in RunsOf(labels) : before(other, run)}
  BY DEF SplitInlineOptions
<1>3. before(printed, printed)
  BY <1>1
<1>4. c = 2 => before(quoted, printed) /\ ~before(printed, quoted)
  BY <1>1
<1>5. printed.at = Len(labels) - size + 1
  BY <1>1
<1> HIDE DEF labels, before, quoted
<1>6. SplitInlineOptions(labels, from) = {printed}
  <2> HIDE DEF printed, c
  <2> QED
    BY <1>1, <1>2, <1>3, <1>4
<1> QED
  BY <1>5, <1>6 DEF labels

\* A line with several options gives those printed as options, whatever the
\* numbers of options and the conventions: the text before a row may cite options
\* with the same labels, in order or not.
THEOREM RowsSplit == LayoutSpec => []RowsSplitAsPrinted
<1>1. ASSUME RowOK PROVE RowsSplitAsPrinted
  <2> SUFFICES ASSUME row.size >= 2
               PROVE  SplitInlineOptions(row.labels, row.from) =
                        {[at |-> Len(row.labels) - row.size + 1, first |-> row.from, count |-> row.size]}
    BY DEF RowsSplitAsPrinted
  <2>1. row # NoRow
    BY DEF NoRow
  <2>2. PICK cited \in Cited, from \in Nat \ {0}, size \in Nat \ {0} :
          /\ row = [from |-> from, size |-> size, labels |-> cited \o Options(from, size)]
          /\ cited # <<>> => from = 1
    BY <1>1, <2>1 DEF RowOK
  <2>3. row.from = from /\ row.size = size /\ row.labels = cited \o Options(from, size) /\ size \in Nat
    BY <2>2
  <2>4. SplitInlineOptions(cited \o Options(from, size), from) =
          {[at |-> Len(cited \o Options(from, size)) - size + 1, first |-> from, count |-> size]}
    BY <2>2, <2>3, RowSplits
  <2> QED
    BY <2>3, <2>4
<1> QED
  BY <1>1, RowInit, RowStep, PTL DEF LayoutSpec

-----------------------------------------------------------------------------
\* Where the answers begin.

PrintedLine == [label : [ToSet(OptionStyles) -> Nat], inline : [ToSet(OptionStyles) -> Seq(Nat)],
                number : [ToSet(QuestionStyles) -> Nat], title : {"none", "key", "solutions"}, pairs : Nat]
\* A line of the questions: no title, no answers.
Untitled == {l \in PrintedLine : l.title = "none" /\ l.pairs = 0}

\* The plain line has no label.
LEMMA PlainLine == Plain \in Untitled
<1>1. <<>> \in Seq(Nat)
  OBVIOUS
<1>2. Plain \in PrintedLine
  BY <1>1 DEF Plain, PrintedLine
<1> QED
  BY <1>2 DEF Plain, Untitled

\* A line with labels is a line.
LEMMA LabelledLine ==
  ASSUME NEW style, NEW labels \in Seq(Nat), NEW anchored \in BOOLEAN, anchored => labels # <<>>
  PROVE  Labelled(style, labels, anchored) \in Untitled
<1> DEFINE inline == [Plain.inline EXCEPT ![style] = labels]
           label == [Plain.label EXCEPT ![style] = IF anchored THEN labels[1] ELSE 0]
           number == [Plain.number EXCEPT !["plain"] = IF anchored /\ style = "digits" THEN labels[1] ELSE 0]
<1>1. Plain \in Untitled /\ Plain \in PrintedLine
  BY PlainLine DEF Untitled
<1>2. anchored => labels[1] \in Nat
  OBVIOUS
<1>3. inline \in [ToSet(OptionStyles) -> Seq(Nat)]
  BY <1>1 DEF PrintedLine
<1>4. label \in [ToSet(OptionStyles) -> Nat] /\ number \in [ToSet(QuestionStyles) -> Nat]
  BY <1>1, <1>2 DEF PrintedLine
<1>5. Labelled(style, labels, anchored) = [Plain EXCEPT !.inline = inline, !.label = label, !.number = number]
  BY <1>1 DEF Labelled, Untitled, PrintedLine
<1> HIDE DEF inline, label, number
<1> QED
  BY <1>1, <1>3, <1>4, <1>5 DEF Untitled, PrintedLine

\* A question's first line is no heading.
LEMMA MarkerLineUntitled ==
  ASSUME NEW n \in Nat, NEW labels \in Seq(Nat)
  PROVE  Marker(n, labels) \in Untitled
<1> DEFINE l == Labelled(conv.option, labels, FALSE)
           inline == [l.inline EXCEPT !["digits"] = <<n>> \o @]
           label == [l.label EXCEPT !["digits"] = n]
<1>1. l \in Untitled /\ l \in PrintedLine
  BY LabelledLine DEF Untitled
<1> HIDE DEF l
<1>2. \A s : [l.number EXCEPT ![s] = n] \in [ToSet(QuestionStyles) -> Nat]
  BY <1>1 DEF PrintedLine
<1>3. l.inline["digits"] \in Seq(Nat) /\ <<n>> \o l.inline["digits"] \in Seq(Nat)
  <2>1. l.inline \in [ToSet(OptionStyles) -> Seq(Nat)]
    BY <1>1 DEF PrintedLine
  <2>2. "digits" \in ToSet(OptionStyles)
    <3>1. 3 \in DOMAIN OptionStyles /\ OptionStyles[3] = "digits"
      BY DEF OptionStyles
    <3> QED
      BY <3>1 DEF ToSet
  <2>3. l.inline["digits"] \in Seq(Nat)
    BY <2>1, <2>2
  <2> QED
    BY <2>3
<1>4. inline \in [ToSet(OptionStyles) -> Seq(Nat)] /\ label \in [ToSet(OptionStyles) -> Nat]
  BY <1>1, <1>3 DEF PrintedLine
<1>5. CASE conv.numbering = "prefixed"
  <2> DEFINE number == [l.number EXCEPT !["prefixed"] = n]
  <2>1. Marker(n, labels) = [l EXCEPT !.number = number]
    BY <1>1, <1>5 DEF Marker, l, Untitled, PrintedLine
  <2>2. number \in [ToSet(QuestionStyles) -> Nat]
    BY <1>2
  <2> HIDE DEF number
  <2>3. [l EXCEPT !.number = number] \in PrintedLine
    BY <1>1, <2>2 DEF PrintedLine
  <2>4. [l EXCEPT !.number = number].title = l.title /\ [l EXCEPT !.number = number].pairs = l.pairs
    BY <1>1 DEF PrintedLine
  <2> QED
    BY <1>1, <2>1, <2>3, <2>4 DEF Untitled
<1>6. CASE conv.numbering # "prefixed"
  <2> DEFINE number == [l.number EXCEPT !["plain"] = n]
             m == [l EXCEPT !.number = number, !.label = label, !.inline = inline]
  <2>1. Marker(n, labels) = m
    BY <1>1, <1>6 DEF Marker, l, Untitled, PrintedLine
  <2>2. number \in [ToSet(QuestionStyles) -> Nat]
    BY <1>2
  <2> HIDE DEF label, inline, number
  <2>3. m \in PrintedLine
    BY <1>1, <1>4, <2>2 DEF PrintedLine
  <2>4. m.title = l.title /\ m.pairs = l.pairs
    BY <1>1 DEF PrintedLine
  <2> HIDE DEF m
  <2> QED
    BY <1>1, <2>1, <2>3, <2>4 DEF Untitled
<1> QED
  BY <1>5, <1>6

\* Behind a list another one follows.
LEMMA Concat ==
  ASSUME NEW S, NEW s \in Seq(S), NEW t \in Seq(S)
  PROVE  /\ s \o t \in Seq(S) /\ Len(s \o t) = Len(s) + Len(t) /\ Len(s) \in Nat /\ Len(t) \in Nat
         /\ \A i \in 1..Len(s) : (s \o t)[i] = s[i]
         /\ \A i \in (Len(s) + 1)..(Len(s) + Len(t)) : i - Len(s) \in 1..Len(t) /\ (s \o t)[i] = t[i - Len(s)]
  OBVIOUS

\* One element appended is one element concatenated.
LEMMA AppendIsConcat ==
  ASSUME NEW S, NEW s \in Seq(S), NEW e \in S
  PROVE  Append(s, e) = s \o <<e>>
  OBVIOUS

\* Only the cover has a title among the lines of the questions.  The answers
\* begin with one, a line of answers behind it, and have one of solutions at most.
\* s are the lines printed, n the questions begun, r where the answers are.
RearPlace == [key : Nat, solutions : Nat, size : 0..MaxBack]
RearTyped(s, n, r) ==
  /\ s \in Seq(PrintedLine) /\ n \in 0..MaxQuestions /\ r \in RearPlace
  /\ n <= Len(s) - r.size
BodyUntitled(s, body) == \A i \in 1..body : s[i].title # "none" => i = 1
AnswersTitled(s, body, r) ==
  /\ r.key = body + 1 /\ s[body + 1].title # "none"
  /\ r.solutions = 0 \/ r.solutions \in (body + 1)..Len(s)
  /\ \A i \in (body + 1)..Len(s) : s[i].title = "solutions" <=> i = r.solutions
  /\ r.size >= 2 => s[body + 2].pairs = MinPairs
Rear(s, n, r) ==
  /\ RearTyped(s, n, r) /\ BodyUntitled(s, Len(s) - r.size)
  /\ r.size = 0 => r.key = 0 /\ r.solutions = 0
  /\ r.size > 0 => n = MaxQuestions /\ AnswersTitled(s, Len(s) - r.size, r)
RearOK == Rear(lines, asked, rear) /\ (rear.size > 0 => Finished)

\* What stands behind the questions is in order before the first line,
LEMMA RearInit == InitLayout => RearOK
<1> SUFFICES ASSUME InitLayout PROVE RearOK
  OBVIOUS
<1>1. lines = <<>> /\ asked = 0 /\ rear = [key |-> 0, solutions |-> 0, size |-> 0]
  BY DEF InitLayout
<1>2. lines \in Seq(PrintedLine) /\ Len(lines) = 0
  BY <1>1
<1>3. MaxQuestions \in Nat /\ MaxBack \in Nat
  BY PrintedAssumption
<1>4. rear \in RearPlace /\ rear.size = 0 /\ rear.key = 0 /\ rear.solutions = 0
  BY <1>1, <1>3 DEF RearPlace
<1> QED
  BY <1>1, <1>2, <1>3, <1>4 DEF RearOK, Rear, RearTyped, BodyUntitled

\* Lines of the questions, printed while no answers are.
LEMMA BodyLines ==
  ASSUME NEW s, NEW n, NEW r, Rear(s, n, r), r.size = 0, NEW more \in Seq(Untitled),
         NEW m \in 0..MaxQuestions, m <= n + Len(more)
  PROVE  Rear(s \o more, m, r)
<1>1. MaxQuestions \in Nat /\ MaxBack \in Nat /\ m \in Nat
  BY PrintedAssumption
<1>2. /\ s \in Seq(PrintedLine) /\ n \in Nat /\ n <= Len(s) - 0 /\ r \in RearPlace
      /\ (\A i \in 1..(Len(s) - 0) : s[i].title # "none" => i = 1) /\ r.key = 0 /\ r.solutions = 0
  BY <1>1 DEF Rear, RearTyped, BodyUntitled
<1>3. more \in Seq(PrintedLine) /\ \A i \in 1..Len(more) : more[i].title = "none"
  <2>1. Untitled \subseteq PrintedLine /\ \A l \in Untitled : l.title = "none"
    BY DEF Untitled
  <2> QED
    BY <1>1, <2>1
<1> DEFINE t == s \o more
<1>4. /\ t \in Seq(PrintedLine) /\ Len(t) = Len(s) + Len(more) /\ Len(s) \in Nat /\ Len(more) \in Nat
      /\ \A i \in 1..Len(s) : t[i] = s[i]
      /\ \A i \in (Len(s) + 1)..(Len(s) + Len(more)) : i - Len(s) \in 1..Len(more) /\ t[i] = more[i - Len(s)]
  BY <1>1, <1>2, <1>3, Concat
<1> HIDE DEF t
<1>5. \A i \in 1..(Len(t) - 0) : t[i].title # "none" => i = 1
  <2> TAKE i \in 1..(Len(t) - 0)
  <2>1. CASE i <= Len(s)
    <3>1. i \in 1..Len(s)
      BY <1>4, <2>1
    <3>2. t[i] = s[i] /\ i \in 1..(Len(s) - 0)
      BY <1>4, <3>1
    <3> QED
      BY <1>2, <3>2
  <2>2. CASE ~(i <= Len(s))
    <3>1. i \in (Len(s) + 1)..(Len(s) + Len(more))
      BY <1>4, <2>2
    <3>2. i - Len(s) \in 1..Len(more) /\ t[i] = more[i - Len(s)]
      BY <1>4, <3>1
    <3> QED
      BY <1>3, <3>2
  <2> QED
    BY <2>1, <2>2
<1>6. m <= Len(t) - 0
  BY <1>1, <1>2, <1>4
<1>7. RearTyped(t, m, r) /\ BodyUntitled(t, Len(t) - r.size)
  BY <1>1, <1>2, <1>4, <1>5, <1>6 DEF RearTyped, BodyUntitled
<1> QED
  BY <1>1, <1>2, <1>7 DEF Rear, t

\* l is the next line of the answers, and u is where they are with it.
NextRear(s, r, l, u) ==
  /\ u.size = r.size + 1 /\ u.key = IF r.size = 0 THEN Len(s) + 1 ELSE r.key
  /\ u.solutions = IF l.title = "solutions" THEN Len(s) + 1 ELSE r.solutions
  /\ l.title = "solutions" => r.solutions = 0
  /\ r.size = 0 => l.title # "none"
  /\ r.size = 1 => l.pairs = MinPairs

\* Lines of the answers, behind all questions.
LEMMA RearLine ==
  ASSUME NEW s, NEW n, NEW r, Rear(s, n, r), n = MaxQuestions, NEW l \in PrintedLine, NEW u \in RearPlace, NextRear(s, r, l, u)
  PROVE  Rear(Append(s, l), n, u)
<1> DEFINE t == Append(s, l)
           body == Len(s) - r.size
           L == Len(s)
           z == r.size
           old == r.solutions
           new == u.solutions
<1>1. MaxQuestions \in Nat /\ MaxBack \in Nat
  BY PrintedAssumption
<1>2. s \in Seq(PrintedLine) /\ n \in Nat /\ r \in RearPlace /\ n <= body
      /\ BodyUntitled(s, body) /\ (z = 0 => r.key = 0 /\ old = 0) /\ (z > 0 => AnswersTitled(s, body, r))
  BY <1>1 DEF Rear, RearTyped
<1>3. z \in Nat /\ old \in Nat /\ u.size \in Nat /\ new \in Nat
  BY <1>1, <1>2 DEF RearPlace
<1>4. L \in Nat /\ t \in Seq(PrintedLine) /\ Len(t) = L + 1 /\ t[L + 1] = l /\ \A i \in 1..L : t[i] = s[i]
  BY <1>2
<1>5. u.size = z + 1 /\ u.key = IF z = 0 THEN L + 1 ELSE r.key
  BY DEF NextRear
<1>6. new = IF l.title = "solutions" THEN L + 1 ELSE old
  BY DEF NextRear
<1>7. (l.title = "solutions" => old = 0) /\ (z = 0 => l.title # "none") /\ (z = 1 => l.pairs = MinPairs)
  BY DEF NextRear
<1>8. body \in Nat /\ L = body + z /\ Len(t) - u.size = body /\ body <= L
  BY <1>2, <1>3, <1>4, <1>5
<1> HIDE DEF t, body, L, z, old, new
<1>9. BodyUntitled(t, body)
  <2>1. L \in Nat /\ body \in Nat /\ body <= L
    BY <1>4, <1>8
  <2>2. \A i \in 1..body : i \in 1..L
    BY <2>1
  <2>3. \A i \in 1..body : t[i] = s[i]
    BY <1>4, <2>2
  <2>4. BodyUntitled(s, body)
    BY <1>2
  <2> QED
    BY <2>3, <2>4 DEF BodyUntitled
<1>10. RearTyped(t, n, u)
  BY <1>1, <1>2, <1>4, <1>8 DEF RearTyped
<1>11. CASE z = 0
  <2>1. L = body /\ Len(t) = body + 1 /\ t[body + 1] = l /\ old = 0
    BY <1>2, <1>4, <1>8, <1>11
  <2>2. u.key = body + 1 /\ t[body + 1].title # "none" /\ ~(u.size >= 2)
    BY <1>5, <1>7, <2>1, <1>11
  <2>3. new = 0 \/ new \in (body + 1)..Len(t)
    BY <1>6, <1>8, <2>1
  <2>4. \A i \in (body + 1)..Len(t) : t[i].title = "solutions" <=> i = new
    BY <1>6, <1>8, <2>1
  <2>5. AnswersTitled(t, body, u)
    BY <2>2, <2>3, <2>4 DEF AnswersTitled, new
  <2> QED
    BY <1>2, <1>5, <1>8, <1>9, <1>10, <1>11, <2>5 DEF Rear, t
<1>12. CASE z > 0
  <2>1. r.key = body + 1 /\ s[body + 1].title # "none" /\ (old = 0 \/ old \in (body + 1)..L)
    BY <1>2, <1>12 DEF AnswersTitled, old, L
  <2>2. (\A i \in (body + 1)..L : s[i].title = "solutions" <=> i = old) /\ (z >= 2 => s[body + 2].pairs = MinPairs)
    BY <1>2, <1>12 DEF AnswersTitled, old, L, z
  <2>3. body + 1 \in 1..L
    BY <1>3, <1>8, <1>12
  <2>4. u.key = body + 1 /\ t[body + 1].title # "none"
    BY <1>4, <1>5, <1>12, <2>1, <2>3
  <2>5. new = 0 \/ new \in (body + 1)..Len(t)
    BY <1>4, <1>6, <1>8, <2>1, <2>3
  <2>6. \A i \in (body + 1)..Len(t) : t[i].title = "solutions" <=> i = new
    <3> TAKE i \in (body + 1)..Len(t)
    <3>1. CASE i = L + 1
      <4>1. old # L + 1
        BY <1>4, <1>8, <2>1
      <4> QED
        BY <1>4, <1>6, <3>1, <4>1
    <3>2. CASE i # L + 1
      <4>1. i \in (body + 1)..L /\ i \in 1..L
        BY <1>4, <1>8, <3>2
      <4>2. t[i].title = "solutions" <=> i = old
        BY <1>4, <2>2, <4>1
      <4>3. l.title = "solutions" => i # old
        BY <1>7, <1>8, <4>1
      <4> QED
        BY <1>6, <3>2, <4>2, <4>3
    <3> QED
      BY <3>1, <3>2
  <2>7. t[body + 2].pairs = MinPairs
    <3>1. CASE z = 1
      <4>1. body + 2 = L + 1
        BY <1>8, <3>1
      <4> QED
        BY <1>4, <1>7, <3>1, <4>1
    <3>2. CASE z >= 2
      <4>1. body + 2 \in 1..L
        BY <1>3, <1>4, <1>8, <3>2
      <4> QED
        BY <1>4, <2>2, <3>2, <4>1
    <3> QED
      BY <1>3, <1>12, <3>1, <3>2
  <2>8. AnswersTitled(t, body, u)
    BY <2>4, <2>5, <2>6, <2>7 DEF AnswersTitled, new
  <2> QED
    BY <1>2, <1>3, <1>5, <1>8, <1>9, <1>10, <1>12, <2>8 DEF Rear, t
<1> QED
  BY <1>3, <1>11, <1>12

\* and stays so with every line.
LEMMA RearStep == RowOK /\ RearOK /\ [NextLayout]_layoutVars => RearOK'
<1> SUFFICES ASSUME RowOK, RearOK, [NextLayout]_layoutVars PROVE RearOK'
  OBVIOUS
<1>1. conv \in Conventions /\ conv.count \in Nat \ {0} /\ conv.first \in Nat /\ given \in 0..conv.count
      /\ MaxQuestions \in Nat /\ MaxBack \in Nat
  BY PrintedAssumption DEF RowOK
<1>2. lines \in Seq(PrintedLine) /\ asked \in 0..MaxQuestions /\ rear \in RearPlace /\ asked <= Len(lines) - rear.size
  BY DEF RearOK, Rear, RearTyped
<1>3. rear.size \in Nat /\ (rear.size > 0 => asked = MaxQuestions /\ Finished)
  BY <1>1, <1>2 DEF RearOK, Rear, RearPlace
<1>4. \A n \in Nat : <<>> \in Seq(Nat) /\ Options(1, n) \in Seq(Nat)
  BY DEF Options
\* One more line of the questions.
<1>5. ASSUME NEW l \in Untitled, Put(l), rear.size = 0, rear' = rear, asked' \in {asked, asked + 1} \intersect 0..MaxQuestions
      PROVE  RearOK'
  <2>1. lines' = lines \o <<l>> /\ <<l>> \in Seq(Untitled) /\ Len(<<l>>) = 1
    BY <1>2, <1>5, AppendIsConcat DEF Put
  <2>2. asked' \in 0..MaxQuestions /\ asked' <= asked + Len(<<l>>)
    BY <1>1, <1>2, <1>5, <2>1
  <2>3. Rear(lines \o <<l>>, asked', rear)
    BY <1>5, <2>1, <2>2, BodyLines DEF RearOK
  <2> QED
    BY <1>5, <2>1, <2>3 DEF RearOK
<1>6. CASE PrintCover
  <2>1. lines = <<>> /\ rear' = rear /\ asked' = asked /\ lines' = Append(lines, [Plain EXCEPT !.title = "solutions"])
    BY <1>6 DEF PrintCover, Put
  <2>2. Len(lines) = 0 /\ rear.size = 0 /\ asked = 0
    BY <1>1, <1>2, <1>3, <2>1
  <2>3. [Plain EXCEPT !.title = "solutions"] \in PrintedLine
    BY PlainLine DEF Untitled, PrintedLine
  <2> DEFINE l == [Plain EXCEPT !.title = "solutions"]
  <2> HIDE DEF l
  <2>4. lines' \in Seq(PrintedLine) /\ Len(lines') = 1
    BY <1>2, <2>1, <2>2, <2>3 DEF l
  <2>5. RearTyped(lines', asked', rear') /\ BodyUntitled(lines', Len(lines') - rear'.size)
    BY <1>1, <1>2, <2>1, <2>2, <2>4 DEF RearTyped, BodyUntitled
  <2>6. rear'.size = 0 /\ rear'.key = 0 /\ rear'.solutions = 0
    BY <2>1, <2>2 DEF RearOK, Rear
  <2> QED
    BY <2>5, <2>6 DEF RearOK, Rear
<1>7. CASE PrintQuestion
  <2>1. rear' = rear /\ asked < MaxQuestions /\ asked' = asked + 1 /\ rear.size = 0 /\ conv.first + asked \in Nat
    BY <1>1, <1>2, <1>3, <1>7 DEF PrintQuestion
  <2>2. \E labels \in Seq(Nat) : Put(Marker(conv.first + asked, labels))
    <3>1. \A cited \in Citations : cited \o Options(1, conv.count) \in Seq(Nat)
      <4> TAKE cited \in Citations
      <4>1. cited \in Cited
        BY DEF Citations, Cited
      <4>2. cited \in Seq(Nat) /\ Options(1, conv.count) \in Seq(Nat)
        BY <1>1, <1>4, <4>1, CitedLabels
      <4> QED
        BY <4>2
    <3>2. <<>> \in Seq(Nat)
      OBVIOUS
    <3> QED
      BY <1>7, <3>1, <3>2 DEF PrintQuestion
  <2>3. PICK labels \in Seq(Nat) : Put(Marker(conv.first + asked, labels))
    BY <2>2
  <2>4. Marker(conv.first + asked, labels) \in Untitled
    BY <2>1, MarkerLineUntitled
  <2> QED
    BY <1>1, <1>2, <1>5, <2>1, <2>3, <2>4
<1>8. CASE PrintRow
  <2>1. rear' = rear /\ asked' = asked /\ rear.size = 0
    BY <1>3, <1>8 DEF PrintRow
  <2>2. PICK size \in {1, 2, conv.count - given} \intersect 1..(conv.count - given) :
             \E cited \in IF given = 0 /\ size > 1 THEN Citations ELSE {<<>>} :
               Put(Labelled(conv.option, cited \o Options(given + 1, size), cited = <<>>))
    BY <1>8 DEF PrintRow
  <2>3. PICK cited \in (IF given = 0 /\ size > 1 THEN Citations ELSE {<<>>}) :
               Put(Labelled(conv.option, cited \o Options(given + 1, size), cited = <<>>))
    BY <2>2
  <2>4. cited \in Cited /\ size \in Nat \ {0} /\ given + 1 \in Nat
    BY <1>1, <2>2, <2>3 DEF Citations, Cited
  <2>5. cited \in Seq(Nat) /\ Options(given + 1, size) \in Seq(Nat) /\ Len(Options(given + 1, size)) = size
    BY <2>4, CitedLabels DEF Options
  <2> DEFINE labels == cited \o Options(given + 1, size)
  <2>6. labels \in Seq(Nat) /\ labels # <<>> /\ (cited = <<>>) \in BOOLEAN
    BY <2>4, <2>5
  <2>7. Labelled(conv.option, labels, cited = <<>>) \in Untitled
    BY <2>6, LabelledLine
  <2> QED
    BY <1>2, <1>5, <2>1, <2>3, <2>7
<1>9. CASE PrintNoise
  <2>1. rear' = rear /\ asked' = asked /\ rear.size = 0 /\ given = 0
    BY <1>1, <1>3, <1>9 DEF PrintNoise, Finished
  <2>2. \A n \in Nat : \A style : Labelled(style, <<n>>, TRUE) \in Untitled
    <3> TAKE n \in Nat
    <3> TAKE style
    <3>1. <<n>> \in Seq(Nat) /\ <<n>> # <<>>
      OBVIOUS
    <3> QED
      BY <3>1, LabelledLine
  <2>3. CASE lines' = lines \o <<Labelled("roman", <<1>>, TRUE), Labelled("roman", <<2>>, TRUE)>>
    <3> DEFINE a == Labelled("roman", <<1>>, TRUE)
               b == Labelled("roman", <<2>>, TRUE)
    <3>1. a \in Untitled /\ b \in Untitled
      BY <2>2
    <3> HIDE DEF a, b
    <3>2. <<a, b>> \in Seq(Untitled) /\ Len(<<a, b>>) = 2
      BY <3>1
    <3>3. asked \in 0..MaxQuestions /\ asked <= asked + Len(<<a, b>>)
      BY <1>1, <1>2, <3>2
    <3>4. Rear(lines \o <<a, b>>, asked, rear)
      BY <2>1, <3>2, <3>3, BodyLines DEF RearOK
    <3> QED
      BY <2>1, <2>3, <3>4 DEF RearOK, a, b
  <2>4. CASE \E n \in Figures : Put(Labelled("digits", <<n>>, TRUE))
    <3>1. PICK n \in Figures : Put(Labelled("digits", <<n>>, TRUE))
      BY <2>4
    <3>2. n \in Nat
      BY DEF Figures
    <3> QED
      BY <1>2, <1>5, <2>1, <2>2, <3>1, <3>2
  <2> QED
    BY <1>9, <2>3, <2>4 DEF PrintNoise
<1>10. CASE PrintBack
  <2>1. asked = MaxQuestions /\ Finished /\ rear.size < MaxBack /\ asked' = asked /\ given' = given /\ conv' = conv
    BY <1>10 DEF PrintBack
  <2> DEFINE L == Len(lines)
  <2>2. L \in Nat /\ rear.size + 1 \in 0..MaxBack /\ L + 1 \in Nat
    BY <1>1, <1>2, <1>3, <2>1
  <2>3. \A l \in PrintedLine : Put(l) => Len(lines') = L + 1
    BY <1>2 DEF Put
  <2>4. rear.size = 0 => rear.key = 0 /\ rear.solutions = 0
    BY DEF RearOK, Rear
  <2>5. ASSUME NEW l \in PrintedLine, Put(l), rear' \in RearPlace, NextRear(lines, rear, l, rear') PROVE RearOK'
    <3>1. Rear(Append(lines, l), asked, rear')
      BY <2>1, <2>5, RearLine DEF RearOK
    <3>2. Finished'
      BY <2>1 DEF Finished
    <3> QED
      BY <2>1, <2>5, <3>1, <3>2 DEF RearOK, Put
  <2>6. CASE rear.size = 0 /\ Put([Plain EXCEPT !.title = "key"]) /\ rear' = [rear EXCEPT !.key = Len(lines'), !.size = 1]
    <3> DEFINE l == [Plain EXCEPT !.title = "key"]
    <3>1. l \in PrintedLine /\ l.title = "key"
      BY PlainLine DEF Untitled, PrintedLine
    <3> HIDE DEF l
    <3>2. Put(l) /\ Len(lines') = L + 1
      BY <2>3, <2>6, <3>1 DEF l
    <3>3. rear'.size = 1 /\ rear'.key = L + 1 /\ rear'.solutions = rear.solutions
      BY <1>2, <2>6, <3>2 DEF RearPlace
    <3>4. rear' \in RearPlace
      <4>1. rear' = [[rear EXCEPT !.key = L + 1] EXCEPT !.size = rear.size + 1]
        BY <1>3, <2>6, <3>2
      <4> HIDE DEF L
      <4> QED
        BY <1>2, <2>2, <4>1 DEF RearPlace
    <3>5. NextRear(lines, rear, l, rear')
      BY <2>4, <2>6, <3>1, <3>3 DEF NextRear
    <3> QED
      BY <2>5, <3>1, <3>2, <3>4, <3>5
  <2>7. CASE /\ rear.size # 1 /\ rear.solutions = 0 /\ Put([Plain EXCEPT !.title = "solutions"])
             /\ rear' = [key |-> IF rear.size = 0 THEN Len(lines') ELSE rear.key, solutions |-> Len(lines'), size |-> rear.size + 1]
    <3> DEFINE l == [Plain EXCEPT !.title = "solutions"]
    <3>1. l \in PrintedLine /\ l.title = "solutions"
      BY PlainLine DEF Untitled, PrintedLine
    <3> HIDE DEF l
    <3>2. Put(l) /\ Len(lines') = L + 1
      BY <2>3, <2>7, <3>1 DEF l
    <3>3. rear'.size = rear.size + 1 /\ rear'.key = (IF rear.size = 0 THEN L + 1 ELSE rear.key) /\ rear'.solutions = L + 1
      BY <2>7, <3>2
    <3>4. rear.key \in Nat
      BY <1>2 DEF RearPlace
    <3> DEFINE key == IF rear.size = 0 THEN L + 1 ELSE rear.key
    <3>5. rear' \in RearPlace
      <4>1. rear' = [key |-> key, solutions |-> L + 1, size |-> rear.size + 1] /\ key \in Nat
        BY <2>2, <2>7, <3>2, <3>4
      <4> HIDE DEF key, L
      <4> QED
        BY <2>2, <4>1 DEF RearPlace
    <3>6. NextRear(lines, rear, l, rear')
      BY <2>7, <3>1, <3>3 DEF NextRear
    <3> QED
      BY <2>5, <3>1, <3>2, <3>5, <3>6
  <2>8. CASE /\ rear.size > 0 /\ Put([Plain EXCEPT !.number["plain"] = conv.first, !.pairs = MinPairs])
             /\ rear' = [rear EXCEPT !.size = @ + 1]
    <3> DEFINE number == [Plain.number EXCEPT !["plain"] = conv.first]
               l == [Plain EXCEPT !.number = number, !.pairs = MinPairs]
    <3>1. Plain \in PrintedLine /\ Plain.title = "none" /\ number \in [ToSet(QuestionStyles) -> Nat] /\ MinPairs \in Nat
      BY <1>1, PlainLine, LayoutAssumption DEF Untitled, PrintedLine
    <3>2. Put(l)
      BY <2>8
    <3> HIDE DEF number
    <3>3. l \in PrintedLine /\ l.title = "none" /\ l.pairs = MinPairs
      BY <3>1 DEF PrintedLine
    <3> HIDE DEF l
    <3>4. rear'.size = rear.size + 1 /\ rear'.key = rear.key /\ rear'.solutions = rear.solutions
      BY <1>2, <2>8 DEF RearPlace
    <3>5. rear' \in RearPlace
      BY <1>2, <2>2, <2>8 DEF RearPlace
    <3>6. NextRear(lines, rear, l, rear')
      BY <1>3, <2>8, <3>3, <3>4 DEF NextRear
    <3> QED
      BY <2>5, <3>2, <3>3, <3>5, <3>6
  <2> QED
    BY <1>10, <2>6, <2>7, <2>8 DEF PrintBack
<1>11. CASE UNCHANGED layoutVars
  BY <1>11 DEF layoutVars, RearOK, Finished
<1> QED
  BY <1>6, <1>7, <1>8, <1>9, <1>10, <1>11 DEF NextLayout

-----------------------------------------------------------------------------
\* What FindRegions finds in such a paper.

\* The pairs counted from a line on are those of the next line at least.
LEMMA PairsNearby ==
  ASSUME NEW s \in Seq(PrintedLine), NEW i \in 1..Len(s), i + 1 <= Len(s)
  PROVE  LET counted == [k \in 1..(Min({Len(s), i + Window - 1}) - i + 1) |-> s[i + k - 1].pairs] IN
           Total(counted) >= s[i + 1].pairs /\ Total(counted) \in Nat
<1> DEFINE size == Min({Len(s), i + Window - 1}) - i + 1
           counted == [k \in 1..size |-> s[i + k - 1].pairs]
           f == RunningSum(counted)
<1>1. Len(s) \in Nat /\ i \in Nat /\ i + Window - 1 \in Int /\ Window \in Int /\ Window >= 2 /\ i + 1 <= Len(s)
  BY LayoutAssumption
<1>2. size \in Nat /\ size >= 2 /\ i + size - 1 <= Len(s)
  <2> DEFINE L == Len(s)
             e == i + Window - 1
             m == Min({L, e})
  <2>1. L \in Int /\ e \in Int /\ e >= i + 1 /\ L >= i + 1 /\ i \in Int
    BY <1>1
  <2> HIDE DEF e, L
  <2>2. m = (IF L <= e THEN L ELSE e)
    BY <2>1, MinOfTwo DEF m
  <2> HIDE DEF m
  <2>3. m \in Int /\ m >= i + 1 /\ m <= L
    BY <2>1, <2>2
  <2>4. m - i + 1 \in Nat /\ m - i + 1 >= 2 /\ i + (m - i + 1) - 1 <= L
    BY <2>1, <2>3
  <2> QED
    BY <2>4 DEF m, e, L
<1> HIDE DEF size
<1>3. counted \in Seq(Nat) /\ Len(counted) = size /\ counted[2] = s[i + 1].pairs
  <2>1. \A k \in 1..size : i + k - 1 \in 1..Len(s)
    BY <1>1, <1>2
  <2>2. \A l \in PrintedLine : l.pairs \in Nat
    BY DEF PrintedLine
  <2>3. \A k \in 1..size : s[i + k - 1] \in PrintedLine
    BY <2>1
  <2>4. \A k \in 1..size : s[i + k - 1].pairs \in Nat
    BY <2>2, <2>3
  <2>5. counted[2] = s[i + 2 - 1].pairs /\ i + 2 - 1 = i + 1
    BY <1>1, <1>2
  <2> QED
    BY <1>2, <2>4, <2>5
<1> HIDE DEF counted
<1>4. counted \in Seq(Int)
  BY <1>3
<1>5. f[0] = 0 /\ (\A k \in 1..size : f[k] = f[k - 1] + counted[k]) /\ \A k \in 0..size : f[k] \in Nat
  BY <1>3, <1>4, RunningSums, SumsNatural
<1> HIDE DEF f
<1> DEFINE S == {k \in Nat : k + 2 <= size => f[k + 2] >= counted[2]}
<1>6. 0 \in S
  <2>1. 2 \in 1..size /\ 1 \in 0..size /\ 2 - 1 = 1
    BY <1>2
  <2>2. f[2] = f[1] + counted[2] /\ f[1] \in Nat /\ counted[2] \in Nat
    BY <1>3, <1>5, <2>1
  <2> QED
    BY <2>2
<1>7. ASSUME NEW k \in S PROVE k + 1 \in S
  <2>1. k \in Nat /\ (k + 2 <= size => f[k + 2] >= counted[2])
    OBVIOUS
  <2> SUFFICES ASSUME (k + 1) + 2 <= size PROVE f[(k + 1) + 2] >= counted[2]
    BY <2>1
  <2>2. k + 3 \in 1..size /\ (k + 3) - 1 = k + 2 /\ k + 2 <= size /\ k + 2 \in 0..size /\ (k + 1) + 2 = k + 3
    BY <1>2, <2>1
  <2>3. 2 \in 1..size /\ k + 3 \in 1..Len(counted) /\ 2 \in 1..Len(counted)
    BY <1>2, <1>3, <2>2
  <2>4. counted[k + 3] \in Nat /\ counted[2] \in Nat
    BY <1>3, <2>3, ElementOfSeq
  <2>5. f[k + 3] = f[k + 2] + counted[k + 3] /\ f[k + 2] \in Nat
    BY <1>5, <2>2
  <2> QED
    BY <2>1, <2>2, <2>5, <2>4
<1> HIDE DEF S
<1>8. S = Nat
  <2>1. S \in SUBSET Nat
    BY DEF S
  <2> QED
    BY <1>6, <1>7, <2>1, SetInduction
<1>9. f[size] >= counted[2] /\ f[size] \in Nat
  <2>1. size - 2 \in Nat /\ (size - 2) + 2 = size
    BY <1>2
  <2>2. size - 2 \in S
    BY <1>8, <2>1
  <2>3. size \in 0..size
    BY <1>2
  <2> QED
    BY <1>2, <1>5, <2>1, <2>2, <2>3 DEF S
<1>10. Total(counted) = f[size]
  BY <1>3 DEF Total, f
<1> QED
  BY <1>3, <1>9, <1>10 DEF counted, size

\* Behind the questions of a paper whose answers hold enough pairs.
LEMMA AnswersPlaces ==
  ASSUME RowOK, RearOK, Whole
  PROVE  Regions = [key |-> rear.key, solutions |-> rear.solutions, end |-> Len(lines) - rear.size]
<1> DEFINE L == Len(lines)
           body == L - rear.size
           earliest == L \div 5
           heading == {i \in DOMAIN lines : lines[i].title # "none"}
           pairs(i) == Total([k \in 1..(Min({L, i + Window - 1}) - i + 1) |-> lines[i + k - 1].pairs])
           backed == {i \in heading : i > earliest /\ pairs(i) >= MinPairs}
           key == IF backed = {} THEN 0 ELSE Min(backed)
           later == {i \in heading : lines[i].title = "solutions" /\ i > (IF key > 0 THEN key - 1 ELSE earliest)}
           solutions == IF later = {} THEN 0 ELSE Min(later)
           end == IF key > 0 THEN key - 1 ELSE IF solutions > 0 THEN solutions - 1 ELSE L
<1>1. Regions = [key |-> key, solutions |-> solutions, end |-> end]
  BY DEF Regions, FindRegions
<1>2. lines \in Seq(PrintedLine) /\ DOMAIN lines = 1..L /\ L \in Nat /\ L >= 5
  BY DEF RearOK, Rear, RearTyped, Whole
<1>3. rear \in RearPlace /\ rear.size \in Nat /\ rear.size <= MaxBack /\ rear.key \in Nat /\ rear.solutions \in Nat /\ rear.size # 1
  BY PrintedAssumption DEF RearOK, Rear, RearTyped, RearPlace, Whole
<1>4. asked \in Nat /\ asked >= 3 /\ asked <= body /\ body \in Int
  BY <1>2, <1>3, PrintedAssumption DEF RearOK, Rear, RearTyped, Whole
<1>5. BodyUntitled(lines, body)
  BY DEF RearOK, Rear
<1>6. earliest \in Nat /\ earliest >= 1 /\ 5 * earliest <= L
  BY <1>2
<1>7. MinPairs \in Nat
  BY LayoutAssumption
<1> HIDE DEF L, earliest, pairs
\* The questions hold no heading behind the cover's.
<1>8. \A i \in heading : i \in 1..L /\ i \in Nat /\ (i <= body => i = 1)
  <2> TAKE i \in heading
  <2>1. i \in 1..L /\ i \in Nat /\ lines[i].title # "none"
    BY <1>2
  <2>2. i <= body => i \in 1..body
    BY <1>4, <2>1
  <2> QED
    BY <1>5, <2>1, <2>2 DEF BodyUntitled
<1> HIDE DEF heading
<1>9. CASE rear.size = 0
  <2>1. rear.key = 0 /\ rear.solutions = 0 /\ body = L
    BY <1>2, <1>3, <1>9 DEF RearOK, Rear
  <2>2. \A i \in heading : ~(i > earliest)
    BY <1>2, <1>6, <1>8, <2>1
  <2>3. backed = {}
    BY <2>2
  <2>4. key = 0
    BY <2>3
  <2>5. later = {}
    BY <2>2, <2>4
  <2>6. solutions = 0
    BY <2>5
  <2> HIDE DEF key, solutions
  <2>7. end = L
    BY <2>4, <2>6
  <2> HIDE DEF end, body
  <2> QED
    BY <1>1, <2>1, <2>4, <2>6, <2>7 DEF body, L
<1>10. CASE rear.size >= 2
  <2>1. asked = MaxQuestions /\ AnswersTitled(lines, body, rear)
    BY <1>3, <1>10 DEF RearOK, Rear, L
  <2>2. body \in Nat /\ body + 1 <= L /\ body + 2 <= L /\ body + 1 \in 1..L /\ body + 1 \in Nat
    BY <1>2, <1>3, <1>4, <1>10
  <2>3. body + 1 \in heading
    BY <1>2, <2>1, <2>2 DEF AnswersTitled, heading
  <2>4. body + 1 > earliest
    <3>1. rear.size <= 4 * asked + 4 /\ L = body + rear.size
      BY <1>2, <1>3, <1>4, <2>1, PrintedAssumption
    <3> HIDE DEF body
    <3> QED
      BY <1>2, <1>3, <1>4, <1>6, <2>2, <3>1
  <2>5. pairs(body + 1) >= MinPairs
    <3>1. lines[body + 2].pairs = MinPairs
      BY <1>10, <2>1 DEF AnswersTitled
    <3> DEFINE i == body + 1
    <3>2. i \in 1..Len(lines) /\ i + 1 <= Len(lines) /\ i + 1 = body + 2
      BY <2>2 DEF L
    <3> HIDE DEF i
    <3>3. pairs(i) >= lines[i + 1].pairs
      BY <1>2, <3>2, PairsNearby DEF pairs, L
    <3> QED
      BY <3>1, <3>2, <3>3 DEF i
  <2>6. body + 1 \in backed /\ \A i \in backed : body + 1 <= i /\ i \in Int
    <3>1. \A i \in backed : i \in Nat /\ i > body
      BY <1>2, <1>4, <1>6, <1>8
    <3> QED
      BY <2>2, <2>3, <2>4, <2>5, <3>1
  <2> HIDE DEF backed
  <2>7. key = body + 1
    <3>1. Min(backed) = body + 1
      <4>1. Min(backed) = CHOOSE x \in backed : \A y \in backed : x <= y
        BY DEF Min
      <4>2. \A x \in backed : (\A y \in backed : x <= y) => x = body + 1
        BY <2>2, <2>6
      <4> QED
        BY <2>6, <4>1, <4>2
    <3> QED
      BY <2>6, <3>1
  <2> HIDE DEF key
  <2>8. later = {i \in heading : lines[i].title = "solutions" /\ i > body}
    BY <2>2, <2>7
  <2>9. \A i \in later : i = rear.solutions
    <3> TAKE i \in later
    <3>1. i \in 1..L /\ i > body /\ lines[i].title = "solutions"
      BY <1>8, <2>8
    <3>2. i \in (body + 1)..Len(lines)
      BY <2>2, <3>1 DEF L
    <3> QED
      BY <2>1, <3>1, <3>2 DEF AnswersTitled
  <2>10. rear.solutions # 0 => rear.solutions \in later
    <3> SUFFICES ASSUME rear.solutions # 0 PROVE rear.solutions \in later
      OBVIOUS
    <3>1. rear.solutions \in (body + 1)..Len(lines)
      BY <2>1 DEF AnswersTitled
    <3>2. rear.solutions \in 1..L /\ rear.solutions > body
      BY <1>3, <2>2, <3>1 DEF L
    <3>3. lines[rear.solutions].title = "solutions"
      BY <2>1, <3>1 DEF AnswersTitled
    <3> QED
      BY <1>2, <2>8, <3>2, <3>3 DEF heading
  <2>11. solutions = rear.solutions
    <3>1. CASE rear.solutions = 0
      <4>1. \A i \in later : i # 0
        BY <1>8
      <4>2. later = {}
        BY <2>9, <3>1, <4>1
      <4> QED
        BY <3>1, <4>2
    <3>2. CASE rear.solutions # 0
      <4>1. later = {rear.solutions}
        BY <2>9, <2>10, <3>2
      <4> HIDE DEF later
      <4>2. Min(later) = rear.solutions
        BY <1>3, <4>1, MinOfTwo
      <4> QED
        BY <4>1, <4>2
    <3> QED
      BY <3>1, <3>2
  <2> HIDE DEF solutions
  <2>12. end = body
    BY <2>2, <2>7
  <2>13. rear.key = body + 1
    BY <2>1 DEF AnswersTitled
  <2> HIDE DEF end, body
  <2> QED
    BY <1>1, <2>7, <2>11, <2>12, <2>13 DEF body, L
<1> QED
  BY <1>3, <1>9, <1>10

\* The questions of a printed paper end where they were printed to end, and its
\* key and solutions begin where they were printed, whatever the cover says.
THEOREM AnswersAreFound == LayoutSpec => []AnswersFound
<1>1. RowOK /\ RearOK => AnswersFound
  BY AnswersPlaces DEF AnswersFound
<1> QED
  BY <1>1, RowInit, RowStep, RearInit, RearStep, PTL DEF LayoutSpec

-----------------------------------------------------------------------------
\* The questions' part.
ReadAsRejected ==
  \A a \in Actor, q \in Question :
    view[a][q] # Unread /\ q \in rejected => view[a][q].status = "rejected"

QuestionInv == QuestionTypeOK /\ ApprovalFollowsGate /\ RejectionStands /\ ReadAsRejected

\* The paper's part.
NotYetSaved ==
  /\ selection # {} => paperStatus = "none"
  /\ paperStatus = "none" => paperQuality = "unchecked" /\ CheckIdle /\ ~publishing

JudgedRight ==
  \A c \in Check : Judged(c) /\ check[c].verdict = "pass" =>
    \A q \in built \ moved[c] : q \in items /\ ~Defective(q)

PassRight ==
  paperQuality = "pass" => \A q \in built \ drift : q \in items /\ ~Defective(q)

PublishingPassed == publishing => paperQuality = "pass" \/ overtaken

WithdrawnRead ==
  withdrawn =>
    \A c \in Check : check[c] # NoCheck => check[c].status # "published"

PaperInv ==
  /\ NotYetSaved
  /\ JudgedRight
  /\ PassRight
  /\ PublishingPassed
  /\ PublishedPassedUnlessOvertaken
  /\ WithdrawnStays
  /\ WithdrawnRead

-----------------------------------------------------------------------------
\* Verdicts and statuses

\* The rules always come to a verdict, and further findings to one no better.
LEMMA VerdictsAreVerdicts ==
  ASSUME NEW t PROVE Rules(t) \in Verdict /\ AtLeast(Rules(t)) \subseteq Verdict
BY DEF Rules, AtLeast, Verdict, Quality

\* What following the gate does to a status.
LEMMA FollowGate ==
  ASSUME NEW v \in Verdict, NEW s \in Status, NEW ok \in BOOLEAN
  PROVE  /\ Follow(v, s, ok) \in Status
         /\ Follow(v, s, ok) = "approved" => v = "pass"
         /\ s = "rejected" => Follow(v, s, ok) = "rejected"
BY DEF Follow, Status, Verdict, Quality

\* A setup has its fields.
LEMMA SetupFields ==
  ASSUME setup \in Setups
  PROVE  /\ setup.stock \in SUBSET Question /\ setup.texts \in SUBSET Text
         /\ setup.model \in BOOLEAN /\ setup.autoApprove \in BOOLEAN
         /\ setup.conclusions \in SUBSET Verdict
BY GateAssumption DEF Setup

-----------------------------------------------------------------------------
\* The questions

\* Init establishes the questions' invariant.
LEMMA QuestionStart == QuestionInit => QuestionInv
<1> SUFFICES ASSUME QuestionInit PROVE QuestionInv
  OBVIOUS
<1>1. setup \in Setups /\ text \in [Question -> Text] /\ alive \in SUBSET Question
  BY SetupFields DEF QuestionInit
<1>2. PICK byHand \in SUBSET alive :
        /\ quality = [q \in Question |-> IF q \in byHand THEN "unchecked" ELSE Rules(text[q])]
        /\ status = [q \in Question |->
             IF q \in byHand THEN "approved" ELSE Follow(Rules(text[q]), "pending", setup.autoApprove)]
        /\ vouched = byHand
  BY DEF QuestionInit
<1>3. \A q \in Question : Rules(text[q]) \in Verdict
  BY VerdictsAreVerdicts
<1>4. \A q \in Question :
        /\ Follow(Rules(text[q]), "pending", setup.autoApprove) \in Status
        /\ Follow(Rules(text[q]), "pending", setup.autoApprove) = "approved" => Rules(text[q]) = "pass"
  BY <1>1, <1>3, FollowGate, SetupFields DEF Status
<1>5. quality \in [Question -> Quality] /\ status \in [Question -> Status]
  BY <1>2, <1>3, <1>4 DEF Quality, Verdict, Status
<1>6. QuestionTypeOK
  BY <1>1, <1>2, <1>5 DEF QuestionInit, QuestionTypeOK
<1>7. ApprovalFollowsGate
  BY <1>2, <1>4 DEF ApprovalFollowsGate
<1>8. RejectionStands /\ ReadAsRejected
  BY DEF QuestionInit, RejectionStands, ReadAsRejected
<1> QED
  BY <1>6, <1>7, <1>8 DEF QuestionInv

\* Reading and dropping keep the type of the views.
LEMMA ViewSteps ==
  ASSUME QuestionTypeOK, NEW a \in Actor, NEW qs
  PROVE  /\ Read(a, qs) => view' \in [Actor -> [Question -> Snapshot \cup {Unread}]]
         /\ Drop(a, qs) => view' \in [Actor -> [Question -> Snapshot \cup {Unread}]]
<1>1. \A q \in Question :
        [text |-> text[q], status |-> status[q], modelChecked |-> modelChecked[q]] \in Snapshot
  BY DEF QuestionTypeOK, Snapshot
<1> QED
  BY <1>1 DEF QuestionTypeOK, Read, Drop

\* Every step of the questions keeps their invariant.
LEMMA QuestionKeeps == QuestionInv /\ QuestionNext => QuestionInv'
<1> SUFFICES ASSUME QuestionInv, QuestionNext PROVE QuestionInv'
  OBVIOUS
<1> USE DEF QuestionInv
<1>f. /\ setup.texts \in SUBSET Text /\ setup.model \in BOOLEAN
      /\ setup.autoApprove \in BOOLEAN
  BY SetupFields DEF QuestionTypeOK
<1>1. ASSUME NEW j \in Audit, AuditStart(j) PROVE QuestionInv'
  <2>1. j \in Actor /\ \E qs \in SUBSET Question : Read(j, qs)
    <3>1. PICK scope \in SUBSET alive, includePassing \in BOOLEAN :
            Read(j, {q \in scope : includePassing \/ quality[q] # "pass" \/ ~modelChecked[q]})
      BY <1>1 DEF AuditStart
    <3>2. {q \in scope : includePassing \/ quality[q] # "pass" \/ ~modelChecked[q]} \in SUBSET Question
      BY DEF QuestionTypeOK
    <3> QED
      BY <3>1, <3>2 DEF Actor
  <2>2. PICK qs \in SUBSET Question : Read(j, qs)
    BY <2>1
  <2>3. QuestionTypeOK'
    BY <1>1, <2>1, <2>2, ViewSteps DEF AuditStart, gate, people, QuestionTypeOK
  <2>4. ApprovalFollowsGate' /\ RejectionStands'
    BY <1>1 DEF AuditStart, gate, people, ApprovalFollowsGate, RejectionStands
  <2>5. ReadAsRejected'
    BY <1>1, <2>1, <2>2 DEF AuditStart, Read, people, gate, ReadAsRejected, RejectionStands,
       QuestionTypeOK
  <2> QED
    BY <2>3, <2>4, <2>5
<1>2. ASSUME NEW j \in Audit, AuditLost(j) PROVE QuestionInv'
  <2>1. j \in Actor /\ \E qs \in SUBSET Question : Drop(j, qs)
    BY <1>2 DEF AuditLost, Actor
  <2>2. PICK qs \in SUBSET Question : Drop(j, qs)
    BY <2>1
  <2>3. QuestionTypeOK'
    BY <1>2, <2>1, <2>2, ViewSteps DEF AuditLost, gate, people, QuestionTypeOK
  <2>4. ApprovalFollowsGate' /\ RejectionStands'
    BY <1>2 DEF AuditLost, gate, people, ApprovalFollowsGate, RejectionStands
  <2>5. ReadAsRejected'
    BY <1>2, <2>1, <2>2 DEF AuditLost, Drop, people, ReadAsRejected, QuestionTypeOK
  <2> QED
    BY <2>3, <2>4, <2>5
<1>3. ASSUME NEW j \in Audit, NEW q \in Question, AuditOne(j, q) PROVE QuestionInv'
  <2> DEFINE known == view[j][q]
  <2>1. j \in Actor /\ known \in Snapshot
    BY <1>3 DEF AuditOne, Actor, QuestionTypeOK
  <2>2. PICK verdict \in AtLeast(Rules(known.text)), wanted \in {FALSE, setup.model} :
          Judge(q, verdict, Follow(verdict, known.status, setup.autoApprove),
                known.modelChecked \/ wanted)
    BY <1>3 DEF AuditOne
  <2> DEFINE s == Follow(verdict, known.status, setup.autoApprove)
  <2> HIDE DEF known
  <2>3. verdict \in Verdict /\ known.status \in Status /\ known.modelChecked \in BOOLEAN
    BY <2>1, <2>2, VerdictsAreVerdicts DEF Snapshot
  <2>4. /\ s \in Status
        /\ s = "approved" => verdict = "pass"
        /\ known.status = "rejected" => s = "rejected"
    BY <2>3, <1>f, FollowGate
  <2>5. /\ quality' = [quality EXCEPT ![q] = verdict]
        /\ status' = [status EXCEPT ![q] = s]
        /\ modelChecked' = [modelChecked EXCEPT ![q] = known.modelChecked \/ wanted]
        /\ vouched' = vouched \ {q}
    BY <2>2 DEF Judge
  <2> HIDE DEF s
  <2>6. Drop(j, {q}) /\ UNCHANGED <<text, alive, rejected, setup>>
    BY <1>3 DEF AuditOne
  <2>7. QuestionTypeOK'
    <3>1. view' \in [Actor -> [Question -> Snapshot \cup {Unread}]]
      BY <2>1, <2>6, ViewSteps
    <3>2. (known.modelChecked \/ wanted) \in BOOLEAN
      BY <2>3, <1>f
    <3> QED
      BY <2>3, <2>4, <2>5, <2>6, <3>1, <3>2 DEF QuestionTypeOK, Verdict
  <2>8. ApprovalFollowsGate'
    BY <2>4, <2>5 DEF ApprovalFollowsGate, QuestionTypeOK
  <2>9. q \in rejected => known.status = "rejected"
    BY <1>3, <2>1 DEF AuditOne, ReadAsRejected, known
  <2>10. RejectionStands'
    BY <2>4, <2>5, <2>6, <2>9 DEF RejectionStands, QuestionTypeOK
  <2>11. ReadAsRejected'
    BY <2>1, <2>6 DEF Drop, ReadAsRejected, QuestionTypeOK
  <2> QED
    BY <2>7, <2>8, <2>10, <2>11
<1>4. ASSUME NEW r \in Recheck, NEW q \in alive, RecheckRead(r, q) PROVE QuestionInv'
  <2>1. r \in Actor /\ q \in Question /\ Read(r, {q})
    BY <1>4 DEF RecheckRead, Actor, QuestionTypeOK
  <2>2. QuestionTypeOK'
    BY <1>4, <2>1, ViewSteps DEF RecheckRead, gate, people, QuestionTypeOK
  <2>3. ApprovalFollowsGate' /\ RejectionStands'
    BY <1>4 DEF RecheckRead, gate, people, ApprovalFollowsGate, RejectionStands
  <2>4. ReadAsRejected'
    BY <1>4, <2>1 DEF RecheckRead, Read, people, gate, ReadAsRejected, RejectionStands,
       QuestionTypeOK
  <2> QED
    BY <2>2, <2>3, <2>4
<1>5. ASSUME NEW r \in Recheck, NEW q \in Question, RecheckWrite(r, q) PROVE QuestionInv'
  <2> DEFINE known == view[r][q]
  <2>1. r \in Actor /\ known \in Snapshot
    BY <1>5 DEF RecheckWrite, Actor, QuestionTypeOK
  <2> DEFINE v == Rules(known.text)
             s == Follow(v, known.status, TRUE)
  <2>2. v \in Verdict /\ known.status \in Status
    BY <2>1, VerdictsAreVerdicts DEF Snapshot
  <2>3. /\ s \in Status
        /\ s = "approved" => v = "pass"
        /\ known.status = "rejected" => s = "rejected"
    <3> HIDE DEF v, known
    <3> QED
      BY <2>2, FollowGate
  <2>4. /\ Drop(r, {q}) /\ UNCHANGED <<text, modelChecked, alive, rejected, setup>>
        /\ \/ /\ quality' = [quality EXCEPT ![q] = v]
              /\ status' = [status EXCEPT ![q] = s]
              /\ vouched' = vouched \ {q}
           \/ UNCHANGED <<quality, status, vouched>>
    BY <1>5 DEF RecheckWrite
  <2>5. q \in rejected => known.status = "rejected"
    BY <1>5, <2>1 DEF RecheckWrite, ReadAsRejected
  <2> HIDE DEF s, v, known
  <2>6. QuestionTypeOK'
    <3>1. view' \in [Actor -> [Question -> Snapshot \cup {Unread}]]
      BY <2>1, <2>4, ViewSteps
    <3> QED
      BY <2>2, <2>3, <2>4, <3>1 DEF QuestionTypeOK, Verdict
  <2>7. ApprovalFollowsGate'
    BY <2>3, <2>4 DEF ApprovalFollowsGate, QuestionTypeOK
  <2>8. RejectionStands'
    BY <2>3, <2>4, <2>5 DEF RejectionStands, QuestionTypeOK
  <2>9. ReadAsRejected'
    BY <2>1, <2>4 DEF Drop, ReadAsRejected, QuestionTypeOK
  <2> QED
    BY <2>6, <2>7, <2>8, <2>9
<1>6. ASSUME NEW q \in alive, Accept(q) PROVE QuestionInv'
  <2>1. q \in Question
    BY DEF QuestionTypeOK
  <2>2. QuestionTypeOK'
    BY <1>6, <2>1 DEF Accept, Say, Undisputed, QuestionTypeOK, Quality, Status
  <2>3. ApprovalFollowsGate'
    BY <1>6, <2>1 DEF Accept, Say, Undisputed, QuestionTypeOK, ApprovalFollowsGate
  <2>4. RejectionStands'
    BY <1>6, <2>1 DEF Accept, Say, Undisputed, QuestionTypeOK, RejectionStands
  <2>5. ReadAsRejected'
    BY <1>6 DEF Accept, Say, Undisputed, people, ReadAsRejected
  <2> QED
    BY <2>2, <2>3, <2>4, <2>5
<1>7. ASSUME NEW q \in alive, Reject(q) PROVE QuestionInv'
  <2>1. q \in Question
    BY DEF QuestionTypeOK
  <2>2. QuestionTypeOK'
    BY <1>7, <2>1 DEF Reject, Say, Undisputed, QuestionTypeOK, Quality, Status
  <2>3. ApprovalFollowsGate'
    BY <1>7, <2>1 DEF Reject, Say, Undisputed, QuestionTypeOK, ApprovalFollowsGate
  <2>4. RejectionStands'
    BY <1>7, <2>1 DEF Reject, Say, Undisputed, QuestionTypeOK, RejectionStands
  <2>5. ReadAsRejected'
    BY <1>7 DEF Reject, Say, Undisputed, people, ReadAsRejected
  <2> QED
    BY <2>2, <2>3, <2>4, <2>5
<1>8. ASSUME NEW qs \in SUBSET alive, NEW s \in Status, SetStatus(qs, s) PROVE QuestionInv'
  <2>1. qs \in SUBSET Question
    BY DEF QuestionTypeOK
  <2>2. QuestionTypeOK'
    BY <1>8, <2>1 DEF SetStatus, Say, Undisputed, QuestionTypeOK
  <2>3. ApprovalFollowsGate'
    BY <1>8, <2>1 DEF SetStatus, Say, Undisputed, QuestionTypeOK, ApprovalFollowsGate
  <2>4. RejectionStands'
    BY <1>8, <2>1 DEF SetStatus, Say, Undisputed, QuestionTypeOK, RejectionStands
  <2>5. ReadAsRejected'
    BY <1>8 DEF SetStatus, Say, Undisputed, people, ReadAsRejected
  <2> QED
    BY <2>2, <2>3, <2>4, <2>5
<1>9. ASSUME NEW q \in alive, NEW new \in setup.texts, NEW s \in Status \cup {"kept"},
             Edit(q, new, s)
      PROVE  QuestionInv'
  <2>1. q \in Question /\ new \in Text
    BY <1>f DEF QuestionTypeOK
  <2>2. QuestionTypeOK'
    BY <1>9, <2>1 DEF Edit, Say, Undisputed, people, QuestionTypeOK
  <2>3. ApprovalFollowsGate'
    BY <1>9, <2>1 DEF Edit, Say, Undisputed, people, QuestionTypeOK, ApprovalFollowsGate
  <2>4. RejectionStands'
    BY <1>9, <2>1 DEF Edit, Say, Undisputed, people, QuestionTypeOK, RejectionStands
  <2>5. ReadAsRejected'
    BY <1>9 DEF Edit, Say, Undisputed, people, ReadAsRejected
  <2> QED
    BY <2>2, <2>3, <2>4, <2>5
<1> QED
  BY <1>1, <1>2, <1>3, <1>4, <1>5, <1>6, <1>7, <1>8, <1>9 DEF QuestionNext
-----------------------------------------------------------------------------
\* The paper

\* A verdict stays right about the questions a step leaves alone, when the
\* step notes those it changes.
LEMMA NotedChanges ==
  ASSUME TypeOK, JudgedRight, PassRight, NoteChanges,
         UNCHANGED <<built, check, paperQuality>>
  PROVE  JudgedRight' /\ PassRight'
<1>1. ASSUME NEW q \in Question, q \notin Changed
      PROVE  /\ q \in items' <=> q \in items
             /\ Defective(q)' <=> Defective(q)
  BY <1>1 DEF Changed, Defective
<1>2. built \subseteq Question /\ Changed \subseteq Question
  BY DEF TypeOK, Changed
<1>3. JudgedRight'
  <2> SUFFICES ASSUME NEW c \in Check, Judged(c)', (check[c].verdict)' = "pass",
                      NEW q \in built', q \notin moved'[c]
               PROVE  q \in items' /\ ~Defective(q)'
    BY DEF JudgedRight
  <2>1. Judged(c) /\ check[c].verdict = "pass" /\ q \in built
    BY DEF Judged
  <2>2. q \notin moved[c] /\ q \notin Changed
    BY <2>1 DEF NoteChanges
  <2> QED
    BY <1>1, <1>2, <2>1, <2>2 DEF JudgedRight
<1>4. PassRight'
  <2> SUFFICES ASSUME paperQuality' = "pass", NEW q \in built', q \notin drift'
               PROVE  q \in items' /\ ~Defective(q)'
    BY DEF PassRight
  <2>1. q \in built /\ q \notin drift /\ q \notin Changed
    BY DEF NoteChanges
  <2> QED
    BY <1>1, <1>2, <2>1 DEF PassRight
<1> QED
  BY <1>3, <1>4

\* Noting changes keeps the types of what is noted.
LEMMA NotedTypes ==
  ASSUME TypeOK, NoteChanges
  PROVE  /\ moved' \in [Check -> SUBSET Question]
         /\ drift' \in SUBSET Question
         /\ UNCHANGED overtaken
BY DEF TypeOK, NoteChanges, Changed

\* A check at work knows the status it read, and its verdict once it judged.
LEMMA CheckFields ==
  ASSUME TypeOK, NEW c \in Check, check[c] # NoCheck
  PROVE  /\ check[c] \in CheckStep
         /\ check[c].status \in {"draft", "published"}
         /\ Judged(c) => check[c].verdict \in Verdict
BY DEF TypeOK, CheckStep, Judged

\* Init establishes the paper's invariant.
LEMMA PaperStart == Init => TypeOK /\ QuestionInv /\ PaperInv
<1> SUFFICES ASSUME Init PROVE TypeOK /\ QuestionInv /\ PaperInv
  OBVIOUS
<1>1. QuestionInv
  BY QuestionStart DEF Init
<1>2. TypeOK
  BY <1>1 DEF Init, QuestionInv, TypeOK, PaperStatus, Quality
<1>3. PaperInv
  BY DEF Init, PaperInv, NotYetSaved, JudgedRight, Judged, PassRight, PublishingPassed,
         PublishedPassedUnlessOvertaken, WithdrawnStays, WithdrawnRead, CheckIdle
<1> QED
  BY <1>1, <1>2, <1>3

\* The questions' invariant looks at nothing else.
LEMMA QuestionsAlone ==
  ASSUME QuestionInv, UNCHANGED questionVars
  PROVE  QuestionInv'
BY DEF QuestionInv, questionVars, gate, people, QuestionTypeOK, ApprovalFollowsGate,
       RejectionStands, ReadAsRejected

\* Every step keeps the invariants.
LEMMA PaperKeeps ==
  TypeOK /\ QuestionInv /\ PaperInv /\ [Next]_vars => TypeOK' /\ QuestionInv' /\ PaperInv'
<1> SUFFICES ASSUME TypeOK, QuestionInv, PaperInv, [Next]_vars
             PROVE  TypeOK' /\ QuestionInv' /\ PaperInv'
  OBVIOUS
<1> USE DEF PaperInv
<1> DEFINE Goal == TypeOK' /\ QuestionInv' /\ PaperInv'
<1>1. CASE QuestionStep
  <2>1. QuestionInv'
    BY <1>1, QuestionKeeps DEF QuestionStep
  <2>2. TypeOK'
    BY <1>1, <2>1, NotedTypes DEF QuestionStep, paperVars, paperRow, TypeOK, QuestionInv
  <2>3. JudgedRight' /\ PassRight'
    BY <1>1, NotedChanges DEF QuestionStep, paperVars, paperRow
  <2>4. overtaken' = overtaken
    BY <1>1, NotedTypes DEF QuestionStep
  <2>5. PaperInv'
    BY <1>1, <2>3, <2>4 DEF QuestionStep, paperVars, paperRow, NotYetSaved, PublishingPassed,
         PublishedPassedUnlessOvertaken, WithdrawnStays, WithdrawnRead, CheckIdle
  <2> QED
    BY <2>1, <2>2, <2>5
<1>2. CASE BuildSelect
  <2>1. QuestionInv'
    BY <1>2, QuestionsAlone DEF BuildSelect
  <2>2. selection' \in SUBSET Question
    BY <1>2 DEF BuildSelect, Candidates, TypeOK, QuestionTypeOK
  <2>3. TypeOK'
    BY <1>2, <2>1, <2>2 DEF BuildSelect, paperRow, staleness, TypeOK, QuestionInv
  <2>4. PaperInv'
    BY <1>2 DEF BuildSelect, paperRow, staleness, questionVars, gate, NotYetSaved, JudgedRight,
         Judged, Defective, PassRight, PublishingPassed, PublishedPassedUnlessOvertaken,
         WithdrawnStays, WithdrawnRead, CheckIdle
  <2> QED
    BY <2>1, <2>3, <2>4
<1>3. CASE BuildSave
  <2>1. QuestionInv'
    BY <1>3, QuestionsAlone DEF BuildSave
  <2>2. TypeOK'
    BY <1>3, <2>1, NotedTypes DEF BuildSave, TypeOK, QuestionInv, PaperStatus
  <2>3. /\ paperStatus = "none" /\ paperQuality' = "unchecked"
        /\ CheckIdle /\ check' = check /\ publishing' = FALSE
    BY <1>3 DEF BuildSave, NotYetSaved, TypeOK
  <2>4. PaperInv'
    BY <1>3, <2>3 DEF BuildSave, NotYetSaved, JudgedRight, Judged, PassRight,
         PublishingPassed, PublishedPassedUnlessOvertaken, WithdrawnStays,
         WithdrawnRead, CheckIdle
  <2> QED
    BY <2>1, <2>2, <2>4
<1>4. ASSUME NEW c \in Check, CheckLoad(c) PROVE Goal
  <2>1. QuestionInv'
    BY <1>4, QuestionsAlone DEF CheckLoad
  <2>2. check' = [check EXCEPT ![c] = [at |-> "loaded", status |-> paperStatus]]
    BY <1>4 DEF CheckLoad
  <2>3. [at |-> "loaded", status |-> paperStatus] \in CheckStep
    BY <1>4 DEF CheckLoad, Saved, CheckStep
  <2>4. TypeOK'
    BY <1>4, <2>1, <2>2, <2>3 DEF CheckLoad, paperRow, staleness, TypeOK, QuestionInv
  <2>5. JudgedRight'
    <3>1. \A d \in Check : Judged(d)' => d # c /\ check'[d] = check[d]
      BY <2>2 DEF Judged, TypeOK
    <3> QED
      BY <1>4, <3>1 DEF CheckLoad, paperRow, staleness, questionVars, gate, JudgedRight,
           Judged, Defective
  <2>6. NotYetSaved' /\ PassRight' /\ PublishingPassed'
    BY <1>4 DEF CheckLoad, paperRow, staleness, questionVars, gate, Saved, NotYetSaved,
         PassRight, Defective, PublishingPassed
  <2>7. PublishedPassedUnlessOvertaken' /\ WithdrawnStays' /\ WithdrawnRead'
    BY <1>4, <2>2 DEF CheckLoad, paperRow, staleness, PublishedPassedUnlessOvertaken,
         WithdrawnStays, WithdrawnRead, TypeOK
  <2> QED
    BY <2>1, <2>4, <2>5, <2>6, <2>7
<1>5. ASSUME NEW c \in Check, CheckItems(c) PROVE Goal
  <2>1. QuestionInv'
    BY <1>5, QuestionsAlone DEF CheckItems
  <2>2. PICK verdict \in PaperVerdicts :
          check' = [check EXCEPT ![c] =
            [at |-> "judged", status |-> check[c].status, verdict |-> verdict]]
    BY <1>5 DEF CheckItems
  <2>3. verdict \in Verdict
    <3>1. setup.conclusions \in SUBSET Verdict
      BY SetupFields DEF TypeOK, QuestionTypeOK
    <3> QED
      BY <3>1 DEF PaperVerdicts, Verdict, Quality
  <2>4. verdict = "pass" => \A q \in built : q \in items /\ ~Defective(q)
    BY DEF PaperVerdicts
  <2>5. [at |-> "judged", status |-> check[c].status, verdict |-> verdict] \in CheckStep
    BY <1>5, <2>3, CheckFields DEF CheckItems, CheckStep
  <2>6. moved' = [moved EXCEPT ![c] = {}]
    BY <1>5 DEF CheckItems
  <2>7. TypeOK'
    BY <1>5, <2>1, <2>2, <2>5, <2>6 DEF CheckItems, paperRow, TypeOK, QuestionInv
  <2>8. JudgedRight'
    <3>1. ASSUME NEW d \in Check, d # c PROVE check'[d] = check[d] /\ moved'[d] = moved[d]
      BY <2>2, <2>6, <3>1 DEF TypeOK
    <3>2. check'[c].verdict = verdict
      BY <2>2 DEF TypeOK
    <3>3. UNCHANGED <<text, quality, alive, items, built>>
      BY <1>5 DEF CheckItems, paperRow, questionVars, gate
    <3>4. ASSUME NEW d \in Check, Judged(d)', check'[d].verdict = "pass",
                 NEW q \in built \ moved'[d]
          PROVE  q \in items /\ ~Defective(q)
      BY <2>4, <3>1, <3>2, <3>4 DEF JudgedRight, Judged
    <3> QED
      BY <3>3, <3>4 DEF JudgedRight, Defective
  <2>9. NotYetSaved' /\ PassRight' /\ PublishingPassed'
    BY <1>5 DEF CheckItems, paperRow, questionVars, gate, NotYetSaved, CheckIdle,
         PassRight, Defective, PublishingPassed
  <2>10. PublishedPassedUnlessOvertaken' /\ WithdrawnStays'
    BY <1>5 DEF CheckItems, paperRow, questionVars, PublishedPassedUnlessOvertaken,
         WithdrawnStays
  <2>11. WithdrawnRead'
    BY <1>5, <2>2 DEF CheckItems, questionVars, WithdrawnRead, TypeOK
  <2> QED
    BY <2>1, <2>7, <2>8, <2>9, <2>10, <2>11
<1>6. ASSUME NEW c \in Check, CheckWrite(c) PROVE Goal
  <2>1. QuestionInv'
    BY <1>6, QuestionsAlone DEF CheckWrite
  <2>2. /\ check' = [check EXCEPT ![c] = NoCheck]
        /\ moved' = [moved EXCEPT ![c] = {}]
        /\ UNCHANGED <<questionVars, selection, built, items, publishing, deleting, withdrawn>>
    BY <1>6 DEF CheckWrite
  <2>3. /\ Judged(c) /\ check[c] # NoCheck
        /\ check[c].verdict \in Verdict /\ check[c].status \in {"draft", "published"}
    BY <1>6, CheckFields DEF CheckWrite, Judged
  <2>4. \/ /\ Saved
           /\ paperQuality' = check[c].verdict
           /\ paperStatus' = IF check[c].verdict # "pass" THEN "draft" ELSE check[c].status
           /\ drift' = IF check[c].verdict = "pass" THEN moved[c] ELSE {}
           /\ overtaken' = (publishing /\ check[c].verdict # "pass")
        \/ UNCHANGED <<paperQuality, paperStatus, drift, overtaken>>
    BY <1>6 DEF CheckWrite, StatusAfter
  <2>5. TypeOK'
    BY <2>1, <2>2, <2>3, <2>4 DEF TypeOK, QuestionInv, PaperStatus, Verdict
  <2>6. paperStatus # "none"
    BY <2>3 DEF NotYetSaved, CheckIdle
  <2>7. \A d \in Check : check'[d] # NoCheck => d # c /\ check'[d] = check[d] /\ moved'[d] = moved[d]
    BY <2>2 DEF TypeOK
  <2>8. UNCHANGED <<text, quality, alive, setup>>
    BY <2>2 DEF questionVars, gate
  <2>9. JudgedRight'
    BY <2>2, <2>7, <2>8 DEF JudgedRight, Judged, Defective
  <2>10. PassRight'
    BY <2>2, <2>3, <2>4, <2>8 DEF JudgedRight, PassRight, Defective
  <2>12. NotYetSaved'
    <3>1. selection = {}
      BY <2>6 DEF NotYetSaved
    <3>2. paperStatus' # "none"
      BY <2>3, <2>4, <2>6
    <3> QED
      BY <2>2, <3>1, <3>2 DEF NotYetSaved
  <2>13. PublishingPassed'
    <3>1. CASE paperQuality' = check[c].verdict /\ overtaken' = (publishing /\ check[c].verdict # "pass")
      <4> SUFFICES ASSUME publishing, check[c].verdict # "pass" PROVE overtaken'
        BY <2>2, <3>1 DEF PublishingPassed
      <4> QED
        BY <3>1
    <3>2. CASE UNCHANGED <<paperQuality, overtaken>>
      BY <2>2, <3>2 DEF PublishingPassed
    <3> QED
      BY <2>4, <3>1, <3>2
  <2>14. PublishedPassedUnlessOvertaken'
    BY <2>4, <2>8 DEF PublishedPassedUnlessOvertaken
  <2>15. WithdrawnStays'
    BY <2>2, <2>3, <2>4, <2>8 DEF WithdrawnStays, WithdrawnRead
  <2>16. WithdrawnRead'
    BY <2>2, <2>7, <2>8 DEF WithdrawnRead
  <2> QED
    BY <2>1, <2>5, <2>9, <2>10, <2>12, <2>13, <2>14, <2>15, <2>16
<1>7. ASSUME NEW c \in Check, CheckFails(c) PROVE Goal
  <2>1. QuestionInv'
    BY <1>7, QuestionsAlone DEF CheckFails
  <2>2. check' = [check EXCEPT ![c] = NoCheck] /\ moved' = [moved EXCEPT ![c] = {}]
    BY <1>7 DEF CheckFails
  <2>3. TypeOK'
    BY <1>7, <2>1, <2>2 DEF CheckFails, paperRow, TypeOK, QuestionInv
  <2>4. \A d \in Check : check'[d] # NoCheck => d # c /\ check'[d] = check[d] /\ moved'[d] = moved[d]
    BY <2>2 DEF TypeOK
  <2>5. UNCHANGED <<text, quality, alive, setup, selection, paperRow, items, publishing, withdrawn, drift, overtaken>>
    BY <1>7 DEF CheckFails, questionVars, gate
  <2>6. JudgedRight'
    BY <2>4, <2>5 DEF paperRow, JudgedRight, Judged, Defective
  <2>7. CheckIdle => CheckIdle'
    BY <2>2 DEF CheckIdle, TypeOK
  <2>8. NotYetSaved' /\ PassRight' /\ PublishingPassed' /\ PublishedPassedUnlessOvertaken' /\ WithdrawnStays'
    BY <2>5, <2>7 DEF paperRow, NotYetSaved, PassRight, Defective, PublishingPassed,
         PublishedPassedUnlessOvertaken, WithdrawnStays
  <2>9. WithdrawnRead'
    BY <2>4, <2>5 DEF WithdrawnRead
  <2> QED
    BY <2>1, <2>3, <2>6, <2>8, <2>9
<1>8. CASE PublishRead
  <2>1. QuestionInv'
    BY <1>8, QuestionsAlone DEF PublishRead
  <2>2. /\ UNCHANGED <<text, quality, alive, setup, selection, paperRow, items, check, deleting,
                       withdrawn, staleness>>
        /\ Saved /\ paperQuality = "pass" /\ publishing' = TRUE
    BY <1>8 DEF PublishRead, questionVars, gate
  <2>3. TypeOK'
    BY <2>1, <2>2 DEF paperRow, staleness, TypeOK, QuestionInv
  <2>4. JudgedRight' /\ PassRight' /\ WithdrawnRead'
    BY <2>2 DEF paperRow, staleness, JudgedRight, Judged, Defective, PassRight, WithdrawnRead
  <2>5. NotYetSaved' /\ PublishingPassed' /\ PublishedPassedUnlessOvertaken' /\ WithdrawnStays'
    BY <2>2 DEF paperRow, Saved, NotYetSaved, PublishingPassed, CheckIdle,
         PublishedPassedUnlessOvertaken, WithdrawnStays
  <2> QED
    BY <2>1, <2>3, <2>4, <2>5
<1>9. CASE PublishWrite
  <2>1. QuestionInv'
    BY <1>9, QuestionsAlone DEF PublishWrite
  <2>2. /\ UNCHANGED <<text, quality, alive, setup, selection, built, paperQuality, items, check,
                       deleting, staleness>>
        /\ publishing /\ publishing' = FALSE
        /\ \/ Saved /\ paperStatus' = "published" /\ withdrawn' = FALSE
           \/ UNCHANGED <<paperStatus, withdrawn>>
    BY <1>9 DEF PublishWrite, questionVars, gate
  <2>3. TypeOK'
    BY <2>1, <2>2 DEF staleness, TypeOK, QuestionInv, PaperStatus
  <2>4. JudgedRight' /\ PassRight' /\ WithdrawnRead' /\ PublishingPassed'
    BY <2>2 DEF staleness, JudgedRight, Judged, Defective, PassRight, WithdrawnRead, PublishingPassed
  <2>5. NotYetSaved' /\ WithdrawnStays'
    BY <2>2 DEF Saved, NotYetSaved, CheckIdle, WithdrawnStays
  <2>6. PublishedPassedUnlessOvertaken'
    BY <2>2 DEF staleness, PublishingPassed, PublishedPassedUnlessOvertaken
  <2> QED
    BY <2>1, <2>3, <2>4, <2>5, <2>6
<1>10. CASE Withdraw
  <2>1. QuestionInv'
    BY <1>10, QuestionsAlone DEF Withdraw
  <2>2. /\ UNCHANGED <<text, quality, alive, setup, selection, built, paperQuality, items, check,
                       publishing, deleting, staleness>>
        /\ Saved /\ paperStatus' = "draft"
        /\ withdrawn' = (\A c \in Check : check[c] # NoCheck => check[c].status # "published")
    BY <1>10 DEF Withdraw, questionVars, gate
  <2>3. TypeOK'
    BY <2>1, <2>2 DEF staleness, TypeOK, QuestionInv, PaperStatus
  <2>4. JudgedRight' /\ PassRight' /\ PublishingPassed'
    BY <2>2 DEF staleness, JudgedRight, Judged, Defective, PassRight, PublishingPassed, CheckIdle
  <2>5. NotYetSaved' /\ PublishedPassedUnlessOvertaken' /\ WithdrawnStays' /\ WithdrawnRead'
    BY <2>2 DEF Saved, NotYetSaved, CheckIdle, PublishedPassedUnlessOvertaken,
         WithdrawnStays, WithdrawnRead
  <2> QED
    BY <2>1, <2>3, <2>4, <2>5
<1>11. CASE DeletePaper
  <2>1. QuestionInv'
    BY <1>11, QuestionsAlone DEF DeletePaper
  <2>2. /\ UNCHANGED <<setup, selection, built, paperQuality, check, publishing, deleting, withdrawn>>
        /\ Saved /\ paperStatus' = "deleted" /\ items' = {} /\ NoteChanges
    BY <1>11 DEF DeletePaper, questionVars
  <2>3. TypeOK'
    BY <2>1, <2>2, NotedTypes DEF TypeOK, QuestionInv, PaperStatus
  <2>4. JudgedRight' /\ PassRight'
    BY <2>2, NotedChanges
  <2>5. NotYetSaved' /\ PublishingPassed' /\ PublishedPassedUnlessOvertaken' /\ WithdrawnStays' /\ WithdrawnRead'
    BY <2>2, NotedTypes DEF Saved, NotYetSaved, CheckIdle, PublishingPassed, PublishedPassedUnlessOvertaken,
         WithdrawnStays, WithdrawnRead
  <2> QED
    BY <2>1, <2>3, <2>4, <2>5
<1>12. ASSUME NEW q \in Question, DeleteCount(q) PROVE Goal
  <2>1. QuestionInv'
    BY <1>12, QuestionsAlone DEF DeleteCount
  <2>2. /\ UNCHANGED <<text, quality, alive, setup, selection, paperRow, items, check, publishing,
                       withdrawn, staleness>>
        /\ deleting' \in [Question -> {"no", "used", "unused"}]
    BY <1>12 DEF DeleteCount, questionVars, gate, TypeOK
  <2>3. TypeOK'
    BY <2>1, <2>2 DEF paperRow, staleness, TypeOK, QuestionInv
  <2>4. PaperInv'
    BY <2>2 DEF paperRow, staleness, NotYetSaved, JudgedRight, Judged, Defective, PassRight,
         PublishingPassed, PublishedPassedUnlessOvertaken, WithdrawnStays,
         WithdrawnRead, CheckIdle
  <2> QED
    BY <2>1, <2>3, <2>4
<1>13. ASSUME NEW q \in Question, DeleteCommit(q) PROVE Goal
  <2>1. /\ UNCHANGED <<text, gate, view, people, setup, selection, paperRow, check, publishing, withdrawn>>
        /\ alive' = alive \ {q}
        /\ items' \in SUBSET items
        /\ deleting' = [deleting EXCEPT ![q] = "no"]
        /\ NoteChanges
    BY <1>13 DEF DeleteCommit
  <2>2. QuestionInv'
    BY <2>1 DEF QuestionInv, gate, people, QuestionTypeOK, ApprovalFollowsGate, RejectionStands,
         ReadAsRejected
  <2>3. TypeOK'
    BY <2>1, <2>2, NotedTypes DEF paperRow, TypeOK, QuestionInv
  <2>4. JudgedRight' /\ PassRight'
    BY <2>1, NotedChanges DEF paperRow
  <2>5. NotYetSaved' /\ PublishingPassed' /\ PublishedPassedUnlessOvertaken' /\ WithdrawnStays' /\ WithdrawnRead'
    BY <2>1, NotedTypes DEF paperRow, NotYetSaved, CheckIdle, PublishingPassed, PublishedPassedUnlessOvertaken,
         WithdrawnStays, WithdrawnRead
  <2> QED
    BY <2>2, <2>3, <2>4, <2>5
<1>14. CASE UNCHANGED vars
  <2>1. QuestionInv'
    BY <1>14, QuestionsAlone DEF vars
  <2>2. UNCHANGED <<text, quality, alive, setup, selection, paperRow, items, check, publishing,
                    deleting, withdrawn, staleness>>
    BY <1>14 DEF vars, questionVars, gate, paperVars
  <2>3. TypeOK'
    BY <2>1, <2>2 DEF paperRow, staleness, TypeOK, QuestionInv
  <2>4. PaperInv'
    BY <2>2 DEF paperRow, staleness, NotYetSaved, JudgedRight, Judged, Defective, PassRight,
         PublishingPassed, PublishedPassedUnlessOvertaken, WithdrawnStays,
         WithdrawnRead, CheckIdle
  <2> QED
    BY <2>1, <2>3, <2>4
<1> QED
  BY <1>1, <1>2, <1>3, <1>4, <1>5, <1>6, <1>7, <1>8, <1>9, <1>10, <1>11, <1>12, <1>13, <1>14
  DEF Next

-----------------------------------------------------------------------------
\* The three invariants hold together in every behaviour.
LEMMA InvariantsHold == Spec => [](TypeOK /\ QuestionInv /\ PaperInv)
<1>1. Init => TypeOK /\ QuestionInv /\ PaperInv
  BY PaperStart
<1>2. (TypeOK /\ QuestionInv /\ PaperInv) /\ [Next]_vars => (TypeOK /\ QuestionInv /\ PaperInv)'
  BY PaperKeeps
<1> QED
  BY <1>1, <1>2, PTL DEF Spec

\* Every variable keeps its type, whatever overlaps.
THEOREM TypeCorrect == Spec => []TypeOK
BY InvariantsHold, PTL

\* An approved question has passed, or a person approved it after the last
\* automatic verdict (auditOne's demotion), for any number of audits.
THEOREM ApprovalHolds == Spec => []ApprovalFollowsGate
<1>1. TypeOK /\ QuestionInv /\ PaperInv => ApprovalFollowsGate
  BY DEF QuestionInv
<1> QED
  BY <1>1, InvariantsHold, PTL

\* Only a person lifts a person's rejection, for any number of audits and
\* rechecks, but for one that had read the question before it was rejected
\* (auditOne's write of the status it read).
THEOREM RejectionHolds == Spec => []RejectionStands
<1>1. TypeOK /\ QuestionInv /\ PaperInv => RejectionStands
  BY DEF QuestionInv
<1> QED
  BY <1>1, InvariantsHold, PTL

\* checkPaper's pass is right about every question it was built with that has
\* not changed since the check read it, however many checks overlap.
THEOREM PassHolds == Spec => []PassMeansChecked
<1>1. TypeOK /\ QuestionInv /\ PaperInv => PassMeansChecked
  BY DEF PaperInv, PassRight, PassMeansChecked, Defective
<1> QED
  BY <1>1, InvariantsHold, PTL

\* A published paper has passed its last check, for any number of checks, unless
\* that check wrote between the two steps of UpdatePaper's publication.
THEOREM PublishedHolds == Spec => []PublishedPassedUnlessOvertaken
<1>1. TypeOK /\ QuestionInv /\ PaperInv => PublishedPassedUnlessOvertaken
  BY DEF PaperInv
<1> QED
  BY <1>1, InvariantsHold, PTL

\* A withdrawn paper stays withdrawn, for any number of checks, but for one that
\* had read it as published (checkPaper's write of the status it read).
THEOREM WithdrawnHolds == Spec => []WithdrawnStays
<1>1. TypeOK /\ QuestionInv /\ PaperInv => WithdrawnStays
  BY DEF PaperInv
<1> QED
  BY <1>1, InvariantsHold, PTL
=============================================================================
