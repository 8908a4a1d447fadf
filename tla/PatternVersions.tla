-------------------------- MODULE PatternVersions --------------------------
(***************************************************************************)
(* The versions of one exam's pattern (internal/handler/pattern.go and     *)
(* pipeline/pattern.go): a version is saved by hand or by an analysis job, *)
(* activated, edited, deleted, and read by paper builds, all at once; the  *)
(* exam may be deleted with all its versions (internal/handler/exam.go).   *)
(*                                                                         *)
(* Every request runs its statements in one PostgreSQL transaction at the  *)
(* default isolation, READ COMMITTED.  A statement sees the rows committed *)
(* when it starts and the transaction's own; it waits for a row another    *)
(* open transaction wrote, and looks at that row again afterwards: if its  *)
(* condition no longer holds the row is skipped.  Rows that others commit  *)
(* while it waits are not seen.  What a transaction has written and not    *)
(* yet committed is in its record (rows, made, struck, link).              *)
(***************************************************************************)
EXTENDS Integers, FiniteSets, FiniteSetsExt

CONSTANTS Req,        \* requests and job workers that may be open at once
          MaxRows,    \* bound on the versions ever created
          MaxBlocks,  \* bound on the section blocks told apart
          MaxRequests,\* bound on the requests of a behaviour
          Counts      \* question counts a request may bring (0: no section)
ASSUME PatternAssumption == MaxRows \in Nat \ {0} /\ MaxBlocks \in Nat /\ MaxRequests \in Nat /\ Counts \subseteq Nat

VARIABLES begun,    \* how many requests have begun
          exam,     \* whether the exam's row lives
          pattern,  \* committed exam_patterns rows, by id
          blocks,   \* committed living pattern_sections, a block per writing
          papers,   \* patterns that papers refer to
          req,      \* the open requests
          overlooked, \* history: versions with papers that no deletion has looked for
          raced     \* history: which kinds of overlap have happened
vars == <<begun, exam, pattern, blocks, papers, req, overlooked, raced>>

Id == 1..MaxRows
Row == [version : Id, active : BOOLEAN, total : Counts \union {0}, live : BOOLEAN]
Block == [pat : Id, n : 1..MaxBlocks, count : Counts]
Gone == [version |-> 1, active |-> FALSE, total |-> 0, live |-> FALSE] \* nobody reads a deleted row
Kinds == {"none", "save", "activate", "update", "delete", "exam", "build"}
PCs == {"idle", "read", "version", "deactivate", "clearing", "insert", "set",
        "pluck", "strike", "striking", "sections", "drop", "dropping", "count", "store", "commit"}
Idle == [kind |-> "none", pc |-> "idle", pat |-> 1, act |-> FALSE, count |-> 0, version |-> 0,
         todo |-> {}, doomed |-> {}, rows |-> <<>>, made |-> {}, struck |-> {}]

(***************************************************************************)
(* What a transaction sees, and the locks that make others wait.           *)
(***************************************************************************)
\* The rows of f, and those of g that f does not have.
Over(f, g) == [p \in DOMAIN f \union DOMAIN g |-> IF p \in DOMAIN f THEN f[p] ELSE g[p]]
Write(rows, p, w) == Over([x \in {p} |-> w], rows)
View(r) == Over(req[r].rows, pattern)
Living(view) == {p \in DOMAIN view : view[p].live}
SeenBlocks(r) == (blocks \ req[r].struck) \union req[r].made
RowLocked(r, p) == \E q \in Req \ {r} : p \in DOMAIN req[q].rows
BlockLocked(r, b) == \E q \in Req \ {r} : b \in req[q].struck
KnownBlocks == blocks \union UNION {req[q].made \union req[q].struck \union req[q].doomed : q \in Req}
FreeBlocks(p) == {k \in 1..MaxBlocks : \A b \in KnownBlocks : b.pat = p => b.n # k}
NewBlock(p, c) == IF c > 0 THEN {[pat |-> p, n |-> CHOOSE k \in FreeBlocks(p) : TRUE, count |-> c]} ELSE {}
FreeIds == Id \ (DOMAIN pattern \union UNION {DOMAIN req[q].rows : q \in Req})

RowsOf(S) == UNION {[T -> Row] : T \in SUBSET S}
Transaction == [kind : Kinds, pc : PCs, pat : Id, act : BOOLEAN, count : Counts \union {0}, version : Nat,
                todo : SUBSET Id, doomed : SUBSET Block, rows : RowsOf(Id), made : SUBSET Block, struck : SUBSET Block]
TypeOK == /\ begun \in 0..MaxRequests
          /\ exam \in BOOLEAN /\ pattern \in RowsOf(Id) /\ blocks \subseteq Block
          /\ papers \subseteq DOMAIN pattern /\ overlooked \subseteq DOMAIN pattern
          /\ req \in [Req -> Transaction] /\ raced \subseteq {"version", "active"}

Init == /\ begun = 0 /\ exam = TRUE /\ pattern = <<>> /\ blocks = {} /\ papers = {}
        /\ req = [r \in Req |-> Idle] /\ overlooked = {} /\ raced = {}

(***************************************************************************)
(* Requests.  What is checked before the transaction is part of Begin.     *)
(***************************************************************************)
Open == {q \in Req : req[q].pc # "idle"}
Activates(o) == o.act \/ o.kind = "activate"
Overlap(o) == UNION {
  {k \in {"version"} : o.kind = "save" /\ req[q].kind = "save"}
  \union {k \in {"active"} : \/ o.kind = "save" /\ Activates(req[q])
                             \/ req[q].kind = "save" /\ Activates(o)} : q \in Open}
Begin(r, o) == /\ req[r].pc = "idle"
               /\ begun < MaxRequests
               /\ begun' = begun + 1
               /\ req' = [req EXCEPT ![r] = o]
               /\ raced' = raced \union Overlap(o)
               /\ UNCHANGED <<exam, pattern, blocks, papers, overlooked>>

\* POST /exams/:id/patterns: a hand-entered version, of the sections with a
\* positive count.  Without one the insert of no sections is an error: Rollback.
CreatePattern(r) == exam /\ \E a \in BOOLEAN, c \in Counts \ {0} :
  Begin(r, [Idle EXCEPT !.kind = "save", !.pc = "version", !.act = a, !.count = c])

\* POST /exams/:id/patterns/analyze and the job it queues: the papers are read
\* first; a job none of whose papers can be read, or whose exam is gone when it
\* starts, saves nothing.  It does not look at the exam again.
AnalyzePattern(r) == exam /\ \E a \in BOOLEAN : Begin(r, [Idle EXCEPT !.kind = "save", !.pc = "read", !.act = a])
ReadPapers(r) == /\ req[r].pc = "read"
                 /\ \/ req' = [req EXCEPT ![r] = Idle]
                    \/ \E c \in Counts : req' = [req EXCEPT ![r].pc = "version", ![r].count = c]
                 /\ UNCHANGED <<begun, exam, pattern, blocks, papers, overlooked, raced>>

ActivatePattern(r) == \E p \in Living(pattern) :
  Begin(r, [Idle EXCEPT !.kind = "activate", !.pc = "deactivate", !.pat = p])
UpdatePattern(r) == \E p \in Living(pattern), a \in BOOLEAN, c \in Counts :
  Begin(r, [Idle EXCEPT !.kind = "update", !.pc = IF a THEN "deactivate" ELSE "set",
                        !.pat = p, !.act = a, !.count = c])
DeletePattern(r) == \E p \in Living(pattern) :
  Begin(r, [Idle EXCEPT !.kind = "delete", !.pc = "count", !.pat = p])
\* DELETE /exams/:id, which looks at nothing first.
DeleteExam(r) == Begin(r, [Idle EXCEPT !.kind = "exam", !.pc = "pluck"])
\* A paper build reads a version it is told, or the active one, and its sections.
LoadPattern(r) == exam /\ \E p \in Living(pattern) :
  /\ \E b \in blocks : b.pat = p
  /\ Begin(r, [Idle EXCEPT !.kind = "build", !.pc = "store", !.pat = p])

(***************************************************************************)
(* The statements.                                                         *)
(***************************************************************************)
At(r, pc) == req[r].pc = pc
Next1(r, o) == /\ req' = [req EXCEPT ![r] = o]
               /\ UNCHANGED <<begun, exam, pattern, blocks, papers, overlooked, raced>>
AfterClear(kind) == IF kind = "save" THEN "insert" ELSE "set"

\* Mutant: soft-deleted versions are left in but the maximum is not taken.
ReadVersionCount(r) == LET o == req[r] IN
  /\ At(r, "version")
  /\ Next1(r, [o EXCEPT !.version = 1 + Cardinality(Living(View(r))),
                        !.pc = IF o.act THEN "deactivate" ELSE "insert"])
ReadVersion(r) == LET o == req[r] IN
  /\ At(r, "version")
  /\ Next1(r, [o EXCEPT !.version = 1 + Max({0} \union {View(r)[p].version : p \in Living(View(r))}),
                        !.pc = IF o.act THEN "deactivate" ELSE "insert"])

\* Mutant: only the rows that look active to the statement are written.
DeactivateActive(r) == LET o == req[r]
                           seen == {p \in Living(View(r)) : View(r)[p].active} IN
  /\ At(r, "deactivate")
  /\ Next1(r, [o EXCEPT !.todo = seen, !.pc = IF seen = {} THEN AfterClear(o.kind) ELSE "clearing"])
\* UPDATE exam_patterns SET is_active = false WHERE exam_id = ?
Deactivate(r) == LET o == req[r] IN
  /\ At(r, "deactivate")
  /\ Next1(r, [o EXCEPT !.todo = Living(View(r)),
                        !.pc = IF Living(View(r)) = {} THEN AfterClear(o.kind) ELSE "clearing"])
ClearRow(r) == LET o == req[r] IN
  /\ At(r, "clearing")
  /\ \E p \in o.todo :
       /\ ~RowLocked(r, p)
       /\ Next1(r, [o EXCEPT !.todo = @ \ {p},
                             !.pc = IF o.todo = {p} THEN AfterClear(o.kind) ELSE @,
                             !.rows = IF View(r)[p].live THEN Write(@, p, [View(r)[p] EXCEPT !.active = FALSE])
                                                         ELSE @])

\* The new version and its sections, if it has any.
InsertPattern(r) == LET o == req[r] IN
  /\ At(r, "insert")
  /\ FreeIds # {} /\ o.version \in Id \* bounds: ids and versions end at MaxRows
  /\ LET p == CHOOSE p \in FreeIds : TRUE
         row == [version |-> o.version, active |-> o.act, total |-> o.count, live |-> TRUE]
     IN /\ FreeBlocks(p) # {} \* bound: MaxBlocks
        /\ Next1(r, [o EXCEPT !.rows = Write(@, p, row), !.made = NewBlock(p, o.count),
                              !.version = 0, !.count = 0, !.pc = "commit"])

\* Mutant: an edit leaves its row alone until its sections are written.
SetRowLate(r) == LET o == req[r]
                     row == View(r)[o.pat]
                     new == IF o.kind = "activate" THEN [row EXCEPT !.active = TRUE]
                        ELSE [row EXCEPT !.total = o.count, !.active = @ \/ o.act] IN
  \/ At(r, "set") /\ o.kind = "update" /\ Next1(r, [o EXCEPT !.pc = "strike"])
  \/ /\ At(r, "set") /\ o.kind = "activate" /\ ~RowLocked(r, o.pat)
     /\ Next1(r, [o EXCEPT !.rows = IF row.live THEN Write(@, o.pat, new) ELSE @, !.pc = "commit"])
  \/ /\ At(r, "commit") /\ o.kind = "update" /\ o.pat \notin DOMAIN o.rows /\ ~RowLocked(r, o.pat)
     /\ Next1(r, [o EXCEPT !.rows = IF row.live THEN Write(@, o.pat, new) ELSE @])
\* Mutant: an edit writes the flag it was sent.
SetRowFlag(r) == LET o == req[r]
                     row == View(r)[o.pat]
                     new == IF o.kind = "activate" THEN [row EXCEPT !.active = TRUE]
                            ELSE [row EXCEPT !.total = o.count, !.active = o.act] IN
  /\ At(r, "set")
  /\ ~RowLocked(r, o.pat)
  /\ Next1(r, [o EXCEPT !.rows = IF row.live THEN Write(@, o.pat, new) ELSE @,
                        !.pc = IF o.kind = "activate" THEN "commit" ELSE "strike"])
\* The row of an activation or an edit; none is written if it is deleted by now.
SetRow(r) == LET o == req[r]
                 row == View(r)[o.pat]
                 new == IF o.kind = "activate" THEN [row EXCEPT !.active = TRUE]
                        ELSE [row EXCEPT !.total = o.count, !.active = @ \/ o.act] IN
  /\ At(r, "set")
  /\ ~RowLocked(r, o.pat)
  /\ Next1(r, [o EXCEPT !.rows = IF row.live THEN Write(@, o.pat, new) ELSE @,
                        !.pc = IF o.kind = "activate" THEN "commit" ELSE "strike"])

\* The deletion of the exam takes the versions it sees, then their sections.
PluckVersions(r) == LET mine == Living(View(r)) IN
  /\ At(r, "pluck")
  /\ Next1(r, [req[r] EXCEPT !.todo = mine, !.pc = IF mine = {} THEN "drop" ELSE "strike"])

\* UPDATE pattern_sections SET deleted_at WHERE exam_pattern_id = ? (or IN ?)
Targets(o) == IF o.kind = "exam" THEN o.todo ELSE {o.pat}
AfterStrike(kind) == IF kind = "update" THEN "sections" ELSE "drop"
Strike(r) == LET o == req[r]
                 mine == {b \in SeenBlocks(r) : b.pat \in Targets(o)} IN
  /\ At(r, "strike")
  /\ Next1(r, [o EXCEPT !.doomed = mine, !.pc = IF mine = {} THEN AfterStrike(o.kind) ELSE "striking"])
StrikeBlock(r) == LET o == req[r] IN
  /\ At(r, "striking")
  /\ \E b \in o.doomed :
       /\ ~BlockLocked(r, b)
       /\ Next1(r, [o EXCEPT !.doomed = @ \ {b},
                             !.pc = IF o.doomed = {b} THEN AfterStrike(o.kind) ELSE @,
                             !.struck = IF b \in SeenBlocks(r) THEN @ \union {b} ELSE @])
NewSections(r) == LET o == req[r] IN
  /\ At(r, "sections") /\ FreeBlocks(o.pat) # {} \* bound: MaxBlocks
  /\ Next1(r, [o EXCEPT !.pc = "commit", !.made = NewBlock(o.pat, o.count)])

\* Mutant: the papers are not counted.
CountNothing(r) == At(r, "count") /\ Next1(r, [req[r] EXCEPT !.pc = "strike"])
\* A version that papers were built from is not deleted ...
CountPapers(r) == /\ At(r, "count")
                  /\ Next1(r, IF req[r].pat \in papers THEN Idle ELSE [req[r] EXCEPT !.pc = "strike"])
\* ... but the error of a count that fails is ignored, and none are found.
CountFails(r) == /\ At(r, "count")
                 /\ req' = [req EXCEPT ![r].pc = "strike"]
                 /\ overlooked' = overlooked \union {req[r].pat}
                 /\ UNCHANGED <<begun, exam, pattern, blocks, papers, raced>>
\* UPDATE exam_patterns SET deleted_at WHERE id = ? (or exam_id = ?)
Drop(r) == LET o == req[r]
               seen == IF o.kind = "exam" THEN Living(View(r)) ELSE Living(View(r)) \intersect {o.pat} IN
  /\ At(r, "drop")
  /\ Next1(r, [o EXCEPT !.todo = seen, !.pc = IF seen = {} THEN "commit" ELSE "dropping"])
DropRow(r) == LET o == req[r] IN
  /\ At(r, "dropping")
  /\ \E p \in o.todo :
       /\ ~RowLocked(r, p)
       /\ Next1(r, [o EXCEPT !.todo = @ \ {p},
                             !.pc = IF o.todo = {p} THEN "commit" ELSE @,
                             !.rows = IF View(r)[p].live THEN Write(@, p, Gone) ELSE @])

\* INSERT of a built paper, with the version it was planned from: it is not
\* looked at again, though it may be gone, or a deletion have counted its papers.
Counted(p) == \E q \in Req : req[q].kind = "delete" /\ req[q].pat = p /\ req[q].pc # "count"
StorePaper(r) == LET p == req[r].pat IN
  /\ At(r, "store")
  /\ papers' = papers \union {p}
  /\ req' = [req EXCEPT ![r] = Idle]
  /\ overlooked' = IF p \notin Living(pattern) \/ Counted(p) THEN overlooked \union {p} ELSE overlooked
  /\ UNCHANGED <<begun, exam, pattern, blocks, raced>>

Commit(r) == LET o == req[r] IN
  /\ At(r, "commit")
  /\ pattern' = Over(o.rows, pattern)
  /\ blocks' = SeenBlocks(r)
  /\ req' = [req EXCEPT ![r] = Idle]
  /\ exam' = (exam /\ o.kind # "exam")
  /\ overlooked' = IF o.kind = "exam" THEN overlooked \union DOMAIN o.rows ELSE overlooked
  /\ UNCHANGED <<begun, papers, raced>>
\* Any statement may fail (a lost connection, a deadlock the server breaks) and
\* a job may be cancelled: the transaction is rolled back.
Rollback(r) == /\ req[r].pc # "idle"
               /\ Next1(r, Idle)

\* DELETE of a paper frees the version it referred to.
DeletePaper == /\ \E p \in papers : papers' = papers \ {p}
               /\ UNCHANGED <<begun, exam, pattern, blocks, req, overlooked, raced>>

Next ==
  \/ \E r \in Req :
       \/ CreatePattern(r) \/ AnalyzePattern(r) \/ ReadPapers(r) \/ ActivatePattern(r)
       \/ UpdatePattern(r) \/ DeletePattern(r) \/ DeleteExam(r) \/ LoadPattern(r)
       \/ ReadVersion(r) \/ Deactivate(r) \/ ClearRow(r) \/ InsertPattern(r)
       \/ SetRow(r) \/ PluckVersions(r) \/ Strike(r) \/ StrikeBlock(r)
       \/ NewSections(r) \/ CountPapers(r) \/ CountFails(r) \/ Drop(r) \/ DropRow(r) \/ StorePaper(r)
       \/ Commit(r) \/ Rollback(r)
  \/ DeletePaper
Spec == Init /\ [][Next]_vars

(***************************************************************************)
(* Properties.                                                             *)
(***************************************************************************)
ActiveRows == {p \in Living(pattern) : pattern[p].active}

\* models/pattern.go: "exactly one version per exam is active at a time".
OneActive == \A p, q \in ActiveRows : p = q

\* Activations clear every row they see before they set one, and wait for each
\* other's rows, so they leave at most one active version unless a version was
\* being saved at the same time, whose row no other statement can see or lock.
OneActiveUnlessRaced == "active" \notin raced => OneActive

\* The number of a new version is one more than any living one, so no two living
\* versions have one number, unless they were being saved at the same time.
VersionsDistinctUnlessRaced ==
  "version" \notin raced => \A p, q \in Living(pattern) : p # q => pattern[p].version # pattern[q].version

\* "Question counts are the source of truth": a version's total is the sum of
\* its living sections' counts whenever it has any, whatever edits overlap.
TotalsMatchSections ==
  \A p \in Living(pattern) : LET mine == {b \in blocks : b.pat = p} IN
    mine # {} => \E b \in mine : mine = {b} /\ b.count = pattern[p].total

\* Papers keep their version for the record: a version they refer to is deleted
\* only after its papers could not be counted, by a deletion that had counted
\* before the paper was stored, or with the exam, which does not ask for papers.
UsedPatternsStay == papers \subseteq Living(pattern) \union overlooked

\* An exam that has an active version is left without one only by deleting that
\* version, or by activating one that another request has deleted meanwhile: the
\* others are cleared and no row is set.  No other overlap of activations, edits
\* and saves does it.
ActivatesGone(r) == /\ At(r, "commit") /\ Activates(req[r]) /\ req[r].kind # "save"
                    /\ req[r].pat \notin Living(pattern)
ActiveLostOnlyByDelete ==
  [][ActiveRows # {} /\ ActiveRows' = {}
       => \/ \E p \in ActiveRows : ~pattern'[p].live
          \/ \E r \in Req : ActivatesGone(r) /\ req'[r].pc = "idle"]_vars
=============================================================================
