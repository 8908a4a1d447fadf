---------------------------- MODULE ConverterTasks ----------------------------
(***************************************************************************)
(* The conversion protocol: Client.Convert of the backend                  *)
(* (internal/converter/client.go) against the task registry of the Python  *)
(* service (services/converter/app/tasks.py).                              *)
(*                                                                         *)
(* A call submits a document, polls the task it was given, fetches the     *)
(* result and releases the task in the background; it gives up when its    *)
(* context is cancelled, when its deadline passes, and on any failed       *)
(* request.  A request may be lost before or after the service acted on    *)
(* it.  The service keeps its tasks in memory, so a restart forgets them.  *)
(* Each call submits one task, which carries the call's name.              *)
(***************************************************************************)
EXTENDS Naturals, Sequences, FiniteSets

CONSTANTS Call,          \* calls of Convert
          Concurrency,   \* threads of the service's pool
          MaxRestarts    \* bound on restarts of the service

ASSUME ConcurrencyAssumption == Concurrency \in Nat \ {0}
ASSUME RestartsAssumption == MaxRestarts \in Nat

VARIABLES
    \* the client
    call,      \* where each call stands
    ctx,       \* whether its context was cancelled
    late,      \* whether its deadline has passed
    seen,      \* the status its last poll returned
    deletes,   \* cancel requests on their way
    \* the service
    tracked,   \* tasks in the registry
    taskStatus, flag, finished, result,   \* the fields of each task
    queue,     \* the pool's queue
    work,      \* where the pool stands with each task
    restarts

client == <<call, ctx, late, seen>>
fields == <<taskStatus, flag, finished, result>>
service == <<tracked, taskStatus, flag, finished, result, queue, work>>
taskVars == <<call, ctx, late, seen, deletes, tracked, taskStatus, flag,
          finished, result, queue, work, restarts>>

TaskStatus == {"queued", "processing", "completed", "failed", "cancelled"}
Terminal == {"completed", "failed", "cancelled"}
\* "empty" is the error for a success that carries no document.
Outcomes == {"document", "empty", "failed", "error", "cancelled", "timeout"}
CallStates == {"idle", "waiting", "replied", "fetching"} \cup Outcomes
WorkStates == {"none", "queued", "dropping", "checked", "converting", "storing", "ended"}

Busy == {c \in Call : work[c] \in {"dropping", "checked", "converting", "storing"}}
Open(c) == call[c] \in {"waiting", "replied", "fetching"}

\* The registry's lock is held across the two assignments that complete a task.
Unlocked == \A c \in Call : work[c] # "storing"

InitTasks ==
    /\ call = [c \in Call |-> "idle"]
    /\ ctx = [c \in Call |-> FALSE]
    /\ late = [c \in Call |-> FALSE]
    /\ seen = [c \in Call |-> "queued"]
    /\ deletes = {}
    /\ tracked = {}
    /\ taskStatus = [c \in Call |-> "queued"]
    /\ flag = [c \in Call |-> FALSE]
    /\ finished = [c \in Call |-> FALSE]
    /\ result = [c \in Call |-> FALSE]
    /\ queue = <<>>
    /\ work = [c \in Call |-> "none"]
    /\ restarts = 0

-------------------------------------------------------------------------------
(* The service.                                                            *)

\* TaskRegistry.submit: expired tasks are evicted (which finished tasks are old
\* enough is left open), then the task is registered and queued.
Register(c) ==
    /\ Unlocked
    /\ \E old \in SUBSET {d \in tracked : finished[d]} : tracked' = (tracked \ old) \cup {c}
    /\ queue' = Append(queue, c)
    /\ work' = [work EXCEPT ![c] = "queued"]
    /\ UNCHANGED fields

\* A thread takes the next task and looks at its flag without the lock.
Take(c) ==
    /\ queue # <<>> /\ Head(queue) = c
    /\ Cardinality(Busy) < Concurrency
    /\ queue' = Tail(queue)
    /\ work' = [work EXCEPT ![c] = IF flag[c] THEN "dropping" ELSE "checked"]
    /\ UNCHANGED <<client, deletes, tracked, fields, restarts>>

Finish(c, how) ==
    /\ Unlocked
    /\ taskStatus' = [taskStatus EXCEPT ![c] = how]
    /\ finished' = [finished EXCEPT ![c] = TRUE]
    /\ work' = [work EXCEPT ![c] = "ended"]
    /\ UNCHANGED <<client, deletes, tracked, flag, result, queue, restarts>>

\* Mutant: the thread does not come back from a task it drops.
DropHangs(c) ==
    /\ work[c] = "dropping"
    /\ taskStatus' = [taskStatus EXCEPT ![c] = "cancelled"]
    /\ UNCHANGED <<client, deletes, tracked, flag, finished, result, queue, work, restarts>>

DropTask(c) == work[c] = "dropping" /\ Finish(c, "cancelled")

Begin(c) ==
    /\ work[c] = "checked"
    /\ Unlocked
    /\ taskStatus' = [taskStatus EXCEPT ![c] = "processing"]
    /\ work' = [work EXCEPT ![c] = "converting"]
    /\ UNCHANGED <<client, deletes, tracked, flag, finished, result, queue, restarts>>

\* The engine raised an exception.
ConvertFails(c) == work[c] = "converting" /\ Finish(c, "failed")

\* Mutant: the status is assigned before the result.
StatusFirst(c) ==
    /\ work[c] = "converting"
    /\ Unlocked
    /\ taskStatus' = [taskStatus EXCEPT ![c] = "completed"]
    /\ work' = [work EXCEPT ![c] = "storing"]
    /\ UNCHANGED <<client, deletes, tracked, result, flag, finished, queue, restarts>>

\* The engine returned: the result is assigned first, the status after it.  A
\* reader that already holds the task takes no lock and may look in between.
StoreResult(c) ==
    /\ work[c] = "converting"
    /\ Unlocked
    /\ result' = [result EXCEPT ![c] = TRUE]
    /\ work' = [work EXCEPT ![c] = "storing"]
    /\ UNCHANGED <<client, deletes, tracked, taskStatus, flag, finished, queue, restarts>>

StoreStatus(c) ==
    /\ work[c] = "storing"
    /\ taskStatus' = [taskStatus EXCEPT ![c] = "completed"]
    /\ finished' = [finished EXCEPT ![c] = TRUE]
    /\ work' = [work EXCEPT ![c] = "ended"]
    /\ UNCHANGED <<client, deletes, tracked, flag, result, queue, restarts>>

\* Mutant: a task being converted is given its final status too.
CancelAnyTask(c) ==
    IF taskStatus[c] \in Terminal
    THEN /\ tracked' = tracked \ {c}
         /\ UNCHANGED <<taskStatus, flag, finished>>
    ELSE /\ flag' = [flag EXCEPT ![c] = TRUE]
         /\ taskStatus' = [taskStatus EXCEPT ![c] = "cancelled"]
         /\ finished' = [finished EXCEPT ![c] = TRUE]
         /\ UNCHANGED tracked

\* TaskRegistry.cancel: a finished task is forgotten, any other is flagged, and
\* one still queued is given its final status at once.
CancelTask(c) ==
    IF taskStatus[c] \in Terminal
    THEN /\ tracked' = tracked \ {c}
         /\ UNCHANGED <<taskStatus, flag, finished>>
    ELSE /\ flag' = [flag EXCEPT ![c] = TRUE]
         /\ taskStatus' = [taskStatus EXCEPT ![c] = IF @ = "queued" THEN "cancelled" ELSE @]
         /\ finished' = [finished EXCEPT ![c] = @ \/ taskStatus[c] = "queued"]
         /\ UNCHANGED tracked

\* A cancel request arrives; for a task no longer tracked it is a 404 nobody reads.
DeleteArrives(c) ==
    /\ c \in deletes
    /\ Unlocked
    /\ deletes' = deletes \ {c}
    /\ IF c \in tracked THEN CancelTask(c) ELSE UNCHANGED <<tracked, taskStatus, flag, finished>>
    /\ UNCHANGED <<client, result, queue, work, restarts>>

\* The service dies and comes back with an empty registry and an empty pool.
Restart ==
    /\ restarts < MaxRestarts
    /\ restarts' = restarts + 1
    /\ tracked' = {}
    /\ queue' = <<>>
    /\ work' = [c \in Call |-> IF work[c] = "none" THEN "none" ELSE "ended"]
    /\ UNCHANGED <<client, deletes, fields>>

-------------------------------------------------------------------------------
(* The client.                                                             *)

\* Client.Submit: the service took the upload, and either its answer arrived or
\* it did not; or the upload never got there.
Submit(c) ==
    /\ call[c] = "idle"
    /\ \/ /\ Register(c)
          /\ \E to \in {"waiting", "error"} : call' = [call EXCEPT ![c] = to]
       \/ /\ call' = [call EXCEPT ![c] = "error"]
          /\ UNCHANGED service
    /\ UNCHANGED <<ctx, late, seen, deletes, restarts>>

\* The ticker fired and the poll was answered.  A request on a dead context
\* fails, and so does one for a task the service no longer knows.
Poll(c) ==
    /\ call[c] = "waiting"
    /\ ~ctx[c]
    /\ c \in tracked
    /\ seen' = [seen EXCEPT ![c] = taskStatus[c]]
    /\ call' = [call EXCEPT ![c] = "replied"]
    /\ UNCHANGED <<ctx, late, deletes, service, restarts>>

Fetch(c) ==
    /\ call[c] = "fetching"
    /\ ~ctx[c]
    /\ c \in tracked
    /\ IF result[c]
       THEN /\ call' = [call EXCEPT ![c] = "document"]
            /\ deletes' = deletes \cup {c}
       ELSE /\ call' = [call EXCEPT ![c] = "empty"]
            /\ UNCHANGED deletes
    /\ UNCHANGED <<ctx, late, seen, service, restarts>>

\* A poll or a fetch fails: the call returns at once and cancels nothing.
RequestFails(c) ==
    /\ call[c] \in {"waiting", "fetching"}
    /\ call' = [call EXCEPT ![c] = "error"]
    /\ UNCHANGED <<ctx, late, seen, deletes, service, restarts>>

GiveUp(c, how) ==
    /\ call' = [call EXCEPT ![c] = how]
    /\ deletes' = deletes \cup {c}

\* The select of Convert found its context done rather than its ticker ready.
Abandon(c) ==
    /\ call[c] = "waiting"
    /\ ctx[c]
    /\ GiveUp(c, "cancelled")
    /\ UNCHANGED <<ctx, late, seen, service, restarts>>

Answer(c) == CASE seen[c] = "completed" -> "fetching"
               [] seen[c] \in {"failed", "cancelled"} -> "failed"
               [] OTHER -> "waiting"

\* Mutant: the deadline is not looked at.
ActPatient(c) ==
    /\ call[c] = "replied"
    /\ call' = [call EXCEPT ![c] = Answer(c)]
    /\ UNCHANGED <<ctx, late, seen, deletes, service, restarts>>

\* What Convert does with the status it was given.
Act(c) ==
    /\ call[c] = "replied"
    /\ IF seen[c] \notin Terminal /\ late[c]
       THEN GiveUp(c, "timeout")
       ELSE call' = [call EXCEPT ![c] = Answer(c)] /\ UNCHANGED deletes
    /\ UNCHANGED <<ctx, late, seen, service, restarts>>

CancelContext(c) ==
    /\ Open(c)
    /\ ctx' = [ctx EXCEPT ![c] = TRUE]
    /\ UNCHANGED <<call, late, seen, deletes, service, restarts>>

DeadlinePasses(c) ==
    /\ Open(c)
    /\ late' = [late EXCEPT ![c] = TRUE]
    /\ UNCHANGED <<call, ctx, seen, deletes, service, restarts>>

DeleteLost(c) ==
    /\ c \in deletes
    /\ deletes' = deletes \ {c}
    /\ UNCHANGED <<client, service, restarts>>

-------------------------------------------------------------------------------
ClientStep(c) == Poll(c) \/ Fetch(c) \/ RequestFails(c) \/ Abandon(c) \/ Act(c)

Engine(c) == ConvertFails(c) \/ StoreResult(c)

Thread(c) == Take(c) \/ DropTask(c) \/ Begin(c) \/ StoreStatus(c)

NextTask ==
    \/ \E c \in Call :
          \/ Submit(c) \/ ClientStep(c) \/ CancelContext(c) \/ DeadlinePasses(c)
          \/ Thread(c) \/ Engine(c) \/ DeleteArrives(c) \/ DeleteLost(c)
    \/ Restart

TasksSpec == InitTasks /\ [][NextTask]_taskVars

\* Every request ends by its timeout, time passes and the pool's threads run.
\* Nothing makes the engine return: it has no time limit.
FairTasksSpec ==
    /\ TasksSpec
    /\ \A c \in Call : /\ WF_taskVars(ClientStep(c))
                       /\ WF_taskVars(DeadlinePasses(c))
                       /\ WF_taskVars(Thread(c))

-------------------------------------------------------------------------------
(* Properties.                                                             *)

TasksTypeOK ==
    /\ call \in [Call -> CallStates]
    /\ ctx \in [Call -> BOOLEAN]
    /\ late \in [Call -> BOOLEAN]
    /\ seen \in [Call -> TaskStatus]
    /\ deletes \subseteq Call
    /\ tracked \subseteq Call
    /\ taskStatus \in [Call -> TaskStatus]
    /\ flag \in [Call -> BOOLEAN]
    /\ finished \in [Call -> BOOLEAN]
    /\ result \in [Call -> BOOLEAN]
    /\ queue \in Seq(Call)
    /\ work \in [Call -> WorkStates]
    /\ restarts \in 0..MaxRestarts

\* A call that is told its task completed finds a document: the status is read
\* without the lock, so this rests on the order of two assignments in _run.
NoEmptySuccess == \A c \in Call : call[c] # "empty"

\* Nobody cancels a task its caller still waits for, so no call is ever told its
\* task was cancelled: cancelling a stale task can only come after its return.
NeverToldCancelled == \A c \in Call : Open(c) => seen[c] # "cancelled" /\ ~flag[c]

\* A final status changes again only for a task cancelled between the check of a
\* thread that took it and that thread's first write.
FinalUnlessTaken ==
    [][\A c \in Call : taskStatus[c] \in Terminal /\ taskStatus'[c] # taskStatus[c] => work[c] = "checked"]_taskVars

\* The backend's view: every call returns once, and with a document only if one
\* was made.
OutcomeOf(c) ==
    CASE call[c] = "idle" -> "idle"
      [] Open(c) -> "running"
      [] call[c] = "document" -> "document"
      [] OTHER -> "failed"
Backend == INSTANCE ConversionCall WITH
    outcome <- [c \in Call |-> OutcomeOf(c)],
    converted <- {c \in Call : result[c]}
ImplementsCall == Backend!Spec

\* As long as the engine returns or raises, every task submitted is finished in
\* the end or forgotten by a restart: whatever callers that give up leave
\* behind, the pool's threads come back to the queue.
EngineReturns == \A c \in Call : WF_taskVars(Engine(c))
QueueMoves == EngineReturns => \A c \in Call : work[c] = "queued" ~> work[c] = "ended"

===============================================================================
