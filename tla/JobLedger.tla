------------------------------ MODULE JobLedger ------------------------------
(***************************************************************************)
(* What the job queue promises, without how: a ledger with one entry per   *)
(* job and at most one job in the hands of each worker.  JobQueue, which   *)
(* models pipeline/runner.go, implements it.                               *)
(*                                                                         *)
(* An entry is waiting, then held, then either waiting again or settled    *)
(* for good.  A holder can vanish (its process stops, or its last write    *)
(* is lost); the entry then stays held by nobody until some later boot     *)
(* reclaims it, if one ever does.                                          *)
(***************************************************************************)

CONSTANTS Job, Worker, NoJob

VARIABLES entry,    \* [Job -> Entry]
          holds     \* [Worker -> Job \cup {NoJob}]

ledgerVars == <<entry, holds>>

Settled == {"completed", "failed", "cancelled"}

Entry == {"absent", "queued", "processing"} \cup Settled

LedgerInit ==
  /\ entry = [j \in Job |-> "absent"]
  /\ holds = [w \in Worker |-> NoJob]

Submit(j) ==
  /\ entry[j] = "absent"
  /\ entry' = [entry EXCEPT ![j] = "queued"]
  /\ UNCHANGED holds

Take(w, j) ==
  /\ entry[j] = "queued"
  /\ holds[w] = NoJob
  /\ entry' = [entry EXCEPT ![j] = "processing"]
  /\ holds' = [holds EXCEPT ![w] = j]

\* Only the holder settles a job or gives it back, and doing so ends its hold.
Release(w, to) ==
  /\ holds[w] \in Job
  /\ entry[holds[w]] = "processing"
  /\ entry' = [entry EXCEPT ![holds[w]] = to]
  /\ holds' = [holds EXCEPT ![w] = NoJob]

\* One worker loses its hold, or all of them do: the entries do not change.
Vanish ==
  /\ \/ \E w \in Worker : holds' = [holds EXCEPT ![w] = NoJob]
     \/ holds' = [w \in Worker |-> NoJob]
  /\ UNCHANGED entry

\* Entries are reclaimed only while nobody holds anything.
Reclaim(S) ==
  /\ holds = [w \in Worker |-> NoJob]
  /\ \A j \in S : entry[j] = "processing"
  /\ entry' = [j \in Job |-> IF j \in S THEN "queued" ELSE entry[j]]
  /\ UNCHANGED holds

LedgerNext ==
  \/ \E j \in Job : Submit(j)
  \/ \E w \in Worker, j \in Job : Take(w, j)
  \/ \E w \in Worker, to \in Settled \cup {"queued"} : Release(w, to)
  \/ Vanish
  \/ \E S \in SUBSET Job : Reclaim(S)

LedgerSpec == LedgerInit /\ [][LedgerNext]_ledgerVars
=============================================================================
