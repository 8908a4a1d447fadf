----------------------- MODULE PatternVersionsProofs -----------------------
(***************************************************************************)
(* The properties of PatternVersions hold for any number of requests and   *)
(* versions.  IInv says what each open transaction has established about   *)
(* the committed rows and keeps while others commit:                       *)
(*   - what it has written is a copy of the committed row, but for what its*)
(*     request changes (RowsRight),                                        *)
(*   - the number it has read is above every living one (VersionAbove),    *)
(*   - an activation has written every living row it must clear (Cleared), *)
(*   - an edit or activation of a living row has written it (Held),        *)
(*   - an edit has struck every block of its row before it adds one        *)
(*     (SectionsRight),                                                    *)
(*   - no paper it should have seen refers to what it deletes (Uncounted). *)
(* VersionAbove and Cleared hold as long as nothing has overlapped that the*)
(* properties exclude.                                                     *)
(***************************************************************************)
EXTENDS PatternVersions, TLAPS, WellFoundedInduction

(***************************************************************************)
(* The invariant.                                                          *)
(***************************************************************************)
Steps(kind) ==
  CASE kind = "none" -> {"idle"}
    [] kind = "save" -> {"read", "version", "deactivate", "clearing", "insert", "commit"}
    [] kind = "activate" -> {"deactivate", "clearing", "set", "commit"}
    [] kind = "update" -> {"deactivate", "clearing", "set", "strike", "striking", "sections", "commit"}
    [] kind = "delete" -> {"count", "strike", "striking", "drop", "dropping", "commit"}
    [] kind = "exam" -> {"pluck", "strike", "striking", "drop", "dropping", "commit"}
    [] kind = "build" -> {"store"}
Shape(o) ==
  /\ o.pc \in Steps(o.kind)
  /\ o.pc \in {"deactivate", "clearing"} => Activates(o)
  /\ o.kind \in {"none", "delete", "exam", "build"} => ~o.act
  /\ o.pc \in {"idle", "read", "version", "deactivate", "pluck", "count", "store"} => DOMAIN o.rows = {}
  /\ o.pc \in {"insert", "set"} /\ ~Activates(o) => DOMAIN o.rows = {}
  /\ o.pc \in {"clearing", "dropping"} => o.todo \subseteq DOMAIN pattern
  /\ o.pc = "dropping" /\ o.kind = "delete" => o.todo \subseteq {o.pat}
  /\ o.kind \in {"activate", "update", "delete", "build"} => o.pat \in DOMAIN pattern
  /\ o.made # {} => o.pc = "commit" /\ o.kind \in {"save", "update"}

Fresh(o) == DOMAIN o.rows \ DOMAIN pattern
Edited(o) == o.kind \in {"activate", "update"} /\ o.pc \in {"strike", "striking", "sections", "commit"}
Copied(o, p) ==
  /\ o.rows[p].live /\ pattern[p].live /\ o.rows[p].version = pattern[p].version
  /\ o.rows[p].total = pattern[p].total \/ (o.kind = "update" /\ p = o.pat /\ Edited(o))
  /\ ~Activates(o) => o.kind = "update" /\ p = o.pat /\ (o.rows[p].active <=> pattern[p].active)
  /\ Activates(o) /\ o.rows[p].active => p = o.pat /\ Edited(o)
RowsRight(o) ==
  /\ \A p \in DOMAIN o.rows \intersect DOMAIN pattern :
       IF o.kind \in {"delete", "exam"} THEN ~o.rows[p].live /\ (o.kind = "delete" => p = o.pat)
       ELSE Copied(o, p)
  /\ \A p \in Fresh(o) : o.kind = "save" /\ o.pc = "commit" /\ o.rows[p].live /\ (o.rows[p].active <=> o.act)
  /\ \A p, q \in Fresh(o) : p = q
  /\ o.kind = "save" /\ o.pc = "commit" => Fresh(o) # {}

VersionAbove(o) ==
  "version" \notin raced /\ o.kind = "save" =>
    /\ o.pc \in {"deactivate", "clearing", "insert"} => \A x \in Living(pattern) : o.version > pattern[x].version
    /\ \A p \in Fresh(o), x \in Living(pattern) : o.rows[p].version > pattern[x].version
Cleared(o) ==
  "active" \notin raced /\ Activates(o) =>
    /\ o.pc = "clearing" => Living(pattern) \subseteq o.todo \union DOMAIN o.rows
    /\ o.pc \in {"insert", "set", "strike", "striking", "sections", "commit"} => Living(pattern) \subseteq DOMAIN o.rows
Held(o) == Edited(o) /\ o.pat \in Living(pattern) =>
             o.pat \in DOMAIN o.rows /\ (Activates(o) => o.rows[o.pat].active)
BlocksOf(p) == {b \in blocks : b.pat = p}
SectionsRight(o) ==
  /\ \A b, c \in o.made : b = c
  /\ o.kind = "save" => \A b \in o.made : b.pat \in Fresh(o) /\ b.count = o.rows[b.pat].total
  /\ o.kind = "update" => \A b \in o.made : b.pat = o.pat /\ b.count = o.count
  /\ o.kind = "update" /\ Edited(o) /\ o.pat \in DOMAIN o.rows =>
       /\ o.rows[o.pat].total = o.count
       /\ o.pc = "striking" => BlocksOf(o.pat) \subseteq o.struck \union o.doomed
       /\ o.pc \in {"sections", "commit"} => BlocksOf(o.pat) \subseteq o.struck
Uncounted(o) == o.kind = "delete" /\ o.pc # "count" => o.pat \notin papers \/ o.pat \in overlooked
Settled(o) == /\ Shape(o) /\ RowsRight(o) /\ VersionAbove(o) /\ Cleared(o) /\ Held(o) /\ SectionsRight(o)
Right(o) == /\ Shape(o) /\ RowsRight(o) /\ VersionAbove(o) /\ Cleared(o) /\ Held(o)
            /\ SectionsRight(o) /\ Uncounted(o)

Apart(o, other) ==
  /\ "version" \notin raced /\ o.kind = "save" => other.kind # "save"
  /\ "active" \notin raced /\ Activates(o) => other.kind # "save"
  /\ DOMAIN o.rows \intersect DOMAIN other.rows = {}
TotalsAgree == \A b \in blocks : /\ b.pat \in DOMAIN pattern
                                 /\ b.pat \in Living(pattern) =>
                                      b.count = pattern[b.pat].total /\ BlocksOf(b.pat) = {b}
Books == /\ OneActiveUnlessRaced /\ VersionsDistinctUnlessRaced /\ TotalsAgree /\ UsedPatternsStay
IInv == /\ TypeOK /\ Books
        /\ \A r \in Req : Right(req[r])
        /\ \A r, q \in Req : r # q => Apart(req[r], req[q])

(***************************************************************************)
(* Rows.                                                                   *)
(***************************************************************************)
LEMMA RowsType ==
  ASSUME NEW f
  PROVE  f \in RowsOf(Id) <=> /\ DOMAIN f \subseteq Id /\ f = [p \in DOMAIN f |-> f[p]]
                              /\ \A p \in DOMAIN f : f[p] \in Row
  BY DEF RowsOf

LEMMA NoRows == <<>> \in RowsOf(Id) /\ DOMAIN <<>> = {}
<1>1. DOMAIN <<>> = {}
  OBVIOUS
<1>2. <<>> \in [{} -> Row]
  OBVIOUS
<1> QED BY <1>1, <1>2 DEF RowsOf

LEMMA OverType ==
  ASSUME NEW f \in RowsOf(Id), NEW g \in RowsOf(Id)
  PROVE  Over(f, g) \in RowsOf(Id)
<1>1. /\ DOMAIN f \subseteq Id /\ DOMAIN g \subseteq Id
      /\ \A p \in DOMAIN f : f[p] \in Row
      /\ \A p \in DOMAIN g : g[p] \in Row
  BY RowsType
<1>2. Over(f, g) \in [DOMAIN f \union DOMAIN g -> Row]
  BY <1>1 DEF Over
<1>3. DOMAIN f \union DOMAIN g \in SUBSET Id
  BY <1>1
<1> QED BY <1>2, <1>3 DEF RowsOf

LEMMA WriteType ==
  ASSUME NEW f \in RowsOf(Id), NEW p \in Id, NEW w \in Row
  PROVE  /\ Write(f, p, w) \in RowsOf(Id) /\ DOMAIN Write(f, p, w) = DOMAIN f \union {p}
         /\ Write(f, p, w)[p] = w /\ \A x \in DOMAIN f \ {p} : Write(f, p, w)[x] = f[x]
<1>1. [x \in {p} |-> w] \in [{p} -> Row] /\ {p} \in SUBSET Id
  OBVIOUS
<1>2. [x \in {p} |-> w] \in RowsOf(Id)
  BY <1>1 DEF RowsOf
<1>3. Write(f, p, w) \in RowsOf(Id)
  BY <1>2, OverType DEF Write
<1> QED BY <1>3 DEF Write, Over

\* The row a statement of r sees.
LEMMA ViewRight ==
  ASSUME NEW r \in Req
  PROVE  /\ DOMAIN View(r) = DOMAIN req[r].rows \union DOMAIN pattern
         /\ \A p \in DOMAIN req[r].rows : View(r)[p] = req[r].rows[p]
         /\ \A p \in DOMAIN pattern \ DOMAIN req[r].rows : View(r)[p] = pattern[p]
  BY DEF View, Over

LEMMA ViewType ==
  ASSUME TypeOK, NEW r \in Req
  PROVE  View(r) \in RowsOf(Id) /\ \A p \in DOMAIN View(r) : p \in Id /\ View(r)[p] \in Row
<1>1. View(r) \in RowsOf(Id)
  BY OverType DEF View, TypeOK, Transaction
<1> QED BY <1>1, RowsType

LEMMA LargestVersion ==
  ASSUME NEW S \in SUBSET Nat, NEW n \in Nat, S # {}, \A x \in S : x <= n
  PROVE  Max(S) \in S /\ \A y \in S : Max(S) >= y
<1> DEFINE T == {n - x : x \in S}
<1>1. T \subseteq Nat
  <2>1. ASSUME NEW x \in S PROVE n - x \in Nat
    <3>1. x \in Nat /\ x <= n
      OBVIOUS
    <3> QED BY <3>1
  <2> QED BY <2>1
<1>2. T # {}
  OBVIOUS
<1>3. PICK t \in T : \A y \in T : ~(<<y, t>> \in OpToRel(<, Nat))
  BY <1>1, <1>2, NatLessThanWellFounded, WFMin
<1>4. \A y \in T : ~(y < t)
  BY <1>1, <1>3 DEF OpToRel
<1>5. PICK x \in S : t = n - x
  OBVIOUS
<1>6. ASSUME NEW y \in S PROVE x >= y
  <2>1. n - y \in T
    OBVIOUS
  <2>2. ~(n - y < n - x)
    BY <1>4, <1>5, <2>1
  <2> QED BY <2>2
<1> QED BY <1>6 DEF Max

(***************************************************************************)
(* Steps that commit nothing.                                              *)
(***************************************************************************)
\* What a transaction has established stands while nothing is committed.
LEMMA StillRight ==
  ASSUME UNCHANGED <<pattern, blocks, papers>>, overlooked \subseteq overlooked', raced \subseteq raced', NEW r \in Req, Right(req'[r])
  PROVE  Right(req[r])'
<1> DEFINE o == req'[r]
<1>1. Shape(req[r])'
  BY DEF Right, Shape, Activates
<1>2. RowsRight(req[r])'
  BY DEF Right, RowsRight, Fresh, Copied, Edited, Activates
<1>3. VersionAbove(req[r])'
  BY DEF Right, VersionAbove, Fresh, Living
<1>4. Cleared(req[r])'
  BY DEF Right, Cleared, Activates, Living
<1>5. Held(req[r])'
  BY DEF Right, Held, Edited, Activates, Living
<1>6. SectionsRight(req[r])'
  BY DEF Right, SectionsRight, Fresh, Edited, BlocksOf
<1>7. Uncounted(req[r])'
  BY DEF Right, Uncounted
<1> QED BY <1>1, <1>2, <1>3, <1>4, <1>5, <1>6, <1>7 DEF Right

LEMMA StillBooked ==
  ASSUME Books, UNCHANGED <<pattern, blocks, papers>>, overlooked \subseteq overlooked', raced \subseteq raced'
  PROVE  Books'
<1>1. OneActiveUnlessRaced' /\ VersionsDistinctUnlessRaced' /\ UsedPatternsStay'
  BY DEF Books, OneActiveUnlessRaced, OneActive, ActiveRows, VersionsDistinctUnlessRaced, UsedPatternsStay, Living
<1>2. TotalsAgree'
  BY DEF Books, TotalsAgree, Living, BlocksOf
<1> QED BY <1>1, <1>2 DEF Books

\* A step of r alone: it is enough to look at its own transaction.
LEMMA OwnStep ==
  ASSUME IInv, NEW r \in Req, NEW o \in Transaction, Next1(r, o), Right(o),
         o.kind \in {"none", req[r].kind}, Activates(o) => Activates(req[r]),
         \A q \in Req \ {r} : DOMAIN o.rows \intersect DOMAIN req[q].rows = {}
  PROVE  IInv'
<1>1. req' = [req EXCEPT ![r] = o] /\ UNCHANGED <<begun, exam, pattern, blocks, papers, overlooked, raced>>
  BY DEF Next1
<1>2. TypeOK'
  BY <1>1 DEF IInv, TypeOK
<1>3. Books'
  BY <1>1, StillBooked DEF IInv
<1>4. req'[r] = o /\ \A q \in Req \ {r} : req'[q] = req[q]
  BY <1>1 DEF IInv, TypeOK
<1>5. ASSUME NEW q \in Req PROVE Right(req[q])'
  <2>1. Right(req'[q])
    BY <1>4 DEF IInv
  <2> QED BY <1>1, <2>1, StillRight
<1>6. ASSUME NEW p \in Req, NEW q \in Req, p # q PROVE Apart(req[p], req[q])'
  <2>1. Apart(req[p], req[q]) /\ Apart(req[q], req[p])
    BY <1>6 DEF IInv
  <2>2. CASE p # r /\ q # r
    BY <1>1, <1>4, <2>1, <2>2 DEF Apart, Activates
  <2>3. CASE p = r
    BY <1>1, <1>4, <1>6, <2>1, <2>3 DEF Apart, Activates
  <2>4. CASE q = r
    BY <1>1, <1>4, <1>6, <2>1, <2>4 DEF Apart, Activates
  <2> QED BY <2>2, <2>3, <2>4
<1> QED BY <1>2, <1>3, <1>5, <1>6 DEF IInv

\* A transaction that has touched nothing yet.
LEMMA IdleRight == Idle \in Transaction /\ Right(Idle) /\ DOMAIN Idle.rows = {} /\ ~Activates(Idle)
<1>1. Idle \in Transaction
  BY NoRows, PatternAssumption DEF Idle, Transaction, Kinds, PCs, Id
<1>2. DOMAIN Idle.rows = {}
  BY NoRows DEF Idle
<1>3. ~Activates(Idle)
  BY DEF Idle, Activates
<1>4. Shape(Idle)
  BY <1>2, <1>3 DEF Shape, Steps, Idle, Activates
<1>5. RowsRight(Idle) /\ VersionAbove(Idle) /\ Cleared(Idle)
  BY <1>2, <1>3 DEF RowsRight, Fresh, VersionAbove, Cleared, Idle
<1>6. Held(Idle) /\ SectionsRight(Idle) /\ Uncounted(Idle)
  BY DEF Held, Edited, SectionsRight, Uncounted, Idle
<1> QED BY <1>1, <1>2, <1>3, <1>4, <1>5, <1>6 DEF Right

LEMMA RollbackStep == ASSUME IInv, NEW r \in Req, Rollback(r) PROVE IInv'
  BY IdleRight, OwnStep DEF Rollback, Idle

LEMMA Initially == Init => IInv
<1> SUFFICES ASSUME Init PROVE IInv
  OBVIOUS
<1>1. pattern \in RowsOf(Id) /\ DOMAIN pattern = {}
  BY NoRows DEF Init
<1>2. TypeOK
  BY <1>1, IdleRight, PatternAssumption DEF TypeOK, Init
<1>3. Books
  BY <1>1 DEF Books, OneActiveUnlessRaced, OneActive, ActiveRows, VersionsDistinctUnlessRaced, UsedPatternsStay, TotalsAgree, Living, Init
<1>4. \A r, q \in Req : r # q => Apart(req[r], req[q])
  BY IdleRight DEF Apart, Init, Idle
<1> QED BY <1>2, <1>3, <1>4, IdleRight DEF IInv, Init

(***************************************************************************)
(* Requests begin.                                                         *)
(***************************************************************************)
LEMMA IdleOrOpen ==
  ASSUME IInv, NEW q \in Req
  PROVE  /\ req[q] \in Transaction /\ Right(req[q]) /\ req[q].rows \in RowsOf(Id)
         /\ req[q].kind = "none" <=> q \notin Open
<1>1. req[q] \in Transaction /\ Right(req[q]) /\ req[q].rows \in RowsOf(Id)
  BY DEF IInv, TypeOK, Transaction
<1>2. req[q].pc \in Steps(req[q].kind) /\ req[q].kind \in Kinds
  BY <1>1 DEF Right, Shape, Transaction
<1>3. req[q].kind = "none" <=> req[q].pc = "idle"
  BY <1>2 DEF Steps, Kinds
<1> QED BY <1>1, <1>3 DEF Open

LEMMA BeginStep ==
  ASSUME IInv, NEW r \in Req, NEW o \in Transaction, Begin(r, o), Right(o), DOMAIN o.rows = {}
  PROVE  IInv'
<1>1. /\ req' = [req EXCEPT ![r] = o] /\ raced' = raced \union Overlap(o) /\ begun' = begun + 1 /\ begun < MaxRequests
      /\ UNCHANGED <<exam, pattern, blocks, papers, overlooked>> /\ r \notin Open
  BY DEF Begin, Open
<1>2. TypeOK'
  <2>1. raced' \subseteq {"version", "active"}
    BY <1>1 DEF IInv, TypeOK, Overlap
  <2>2. begun' \in 0..MaxRequests
    BY <1>1, PatternAssumption DEF IInv, TypeOK
  <2> QED BY <1>1, <2>1, <2>2 DEF IInv, TypeOK
<1>3. raced \subseteq raced'
  BY <1>1
<1>4. Books'
  BY <1>1, <1>3, StillBooked DEF IInv
<1>5. req'[r] = o /\ \A q \in Req \ {r} : req'[q] = req[q]
  BY <1>1 DEF IInv, TypeOK
<1>6. ASSUME NEW q \in Req PROVE Right(req[q])'
  <2>1. Right(req'[q])
    BY <1>5 DEF IInv
  <2> QED BY <1>1, <1>3, <2>1, StillRight
<1>7. ASSUME NEW q \in Req \ {r} PROVE Apart(o, req[q])' /\ Apart(req[q], o)'
  <2>1. q \in Open \/ req[q].kind = "none"
    BY IdleOrOpen
  <2>3. "version" \notin raced' /\ q \in Open => ~(o.kind = "save" /\ req[q].kind = "save")
    BY <1>1 DEF Overlap
  <2>4. "active" \notin raced' /\ q \in Open =>
           ~(o.kind = "save" /\ Activates(req[q])) /\ ~(req[q].kind = "save" /\ Activates(o))
    BY <1>1 DEF Overlap
  <2>5. ~Activates(req[q]) \/ req[q].kind # "none"
    BY IdleOrOpen DEF Right, Shape, Activates
  <2>6. req'[q] = req[q] /\ DOMAIN o.rows \intersect DOMAIN req[q].rows = {}
    BY <1>5
  <2> QED BY <2>1, <2>3, <2>4, <2>5, <2>6 DEF Apart, Activates
<1>8. ASSUME NEW p \in Req, NEW q \in Req, p # q PROVE Apart(req[p], req[q])'
  <2>1. CASE p # r /\ q # r
    BY <1>3, <1>5, <1>8, <2>1 DEF IInv, Apart, Activates
  <2>2. CASE p = r
    BY <1>5, <1>7, <1>8, <2>2 DEF Apart, Activates
  <2>3. CASE q = r
    BY <1>5, <1>7, <1>8, <2>3 DEF Apart, Activates
  <2> QED BY <2>1, <2>2, <2>3
<1> QED BY <1>2, <1>4, <1>6, <1>8 DEF IInv

LEMMA NewRight ==
  ASSUME NEW o \in Transaction, Shape(o), DOMAIN o.rows = {}, o.made = {},
         o.pc \in {"read", "version", "deactivate", "set", "pluck", "count", "store"},
         o.kind = "save" => o.pc \in {"read", "version"},
         o.pc = "set" => ~Activates(o)
  PROVE  Right(o)
<1>1. RowsRight(o) /\ VersionAbove(o) /\ Cleared(o)
  BY DEF RowsRight, Fresh, VersionAbove, Cleared
<1>2. Held(o) /\ SectionsRight(o)
  BY DEF Held, Edited, SectionsRight
<1>3. Uncounted(o)
  BY DEF Uncounted, Shape, Steps
<1> QED BY <1>1, <1>2, <1>3 DEF Right

LEMMA RequestStep ==
  ASSUME IInv, NEW r \in Req,
         \/ CreatePattern(r) \/ AnalyzePattern(r) \/ ActivatePattern(r)
         \/ UpdatePattern(r) \/ DeletePattern(r) \/ DeleteExam(r) \/ LoadPattern(r)
  PROVE  IInv'
<1>1. /\ DOMAIN Idle.rows = {} /\ Idle \in Transaction
      /\ \A p \in Living(pattern) : p \in Id /\ p \in DOMAIN pattern
  BY IdleRight, RowsType DEF Living, IInv, TypeOK
<1>2. CASE CreatePattern(r)
  <2>1. PICK a \in BOOLEAN, c \in Counts \ {0} :
          Begin(r, [Idle EXCEPT !.kind = "save", !.pc = "version", !.act = a, !.count = c])
    BY <1>2 DEF CreatePattern
  <2> DEFINE o == [Idle EXCEPT !.kind = "save", !.pc = "version", !.act = a, !.count = c]
  <2>2. o \in Transaction /\ o.kind = "save" /\ o.pc = "version" /\ o.rows = Idle.rows /\ o.made = {}
    BY <1>1 DEF Idle, Transaction, Kinds, PCs
  <2>3. Begin(r, o)
    BY <2>1
  <2> HIDE DEF o
  <2>4. Shape(o)
    BY <1>1, <2>2 DEF Shape, Steps, Activates
  <2>5. Right(o)
    BY <1>1, <2>2, <2>4, NewRight DEF Activates
  <2> QED BY <1>1, <2>2, <2>3, <2>5, BeginStep
<1>3. CASE AnalyzePattern(r)
  <2>1. PICK a \in BOOLEAN : Begin(r, [Idle EXCEPT !.kind = "save", !.pc = "read", !.act = a])
    BY <1>3 DEF AnalyzePattern
  <2> DEFINE o == [Idle EXCEPT !.kind = "save", !.pc = "read", !.act = a]
  <2>2. o \in Transaction /\ o.kind = "save" /\ o.pc = "read" /\ o.rows = Idle.rows /\ o.made = {}
    BY <1>1 DEF Idle, Transaction, Kinds, PCs
  <2>3. Begin(r, o)
    BY <2>1
  <2> HIDE DEF o
  <2>4. Shape(o)
    BY <1>1, <2>2 DEF Shape, Steps, Activates
  <2>5. Right(o)
    BY <1>1, <2>2, <2>4, NewRight DEF Activates
  <2> QED BY <1>1, <2>2, <2>3, <2>5, BeginStep
<1>4. CASE ActivatePattern(r)
  <2>1. PICK p \in Living(pattern) : Begin(r, [Idle EXCEPT !.kind = "activate", !.pc = "deactivate", !.pat = p])
    BY <1>4 DEF ActivatePattern
  <2> DEFINE o == [Idle EXCEPT !.kind = "activate", !.pc = "deactivate", !.pat = p]
  <2>2. /\ o \in Transaction /\ o.kind = "activate" /\ o.pc = "deactivate" /\ o.pat = p
        /\ o.rows = Idle.rows /\ o.made = {}
    BY <1>1 DEF Idle, Transaction, Kinds, PCs
  <2>3. Begin(r, o)
    BY <2>1
  <2> HIDE DEF o
  <2>4. Shape(o)
    BY <1>1, <2>2 DEF Shape, Steps, Activates
  <2>5. Right(o)
    BY <1>1, <2>2, <2>4, NewRight DEF Activates
  <2> QED BY <1>1, <2>2, <2>3, <2>5, BeginStep
<1>5. CASE UpdatePattern(r)
  <2>1. PICK p \in Living(pattern), a \in BOOLEAN, c \in Counts :
          Begin(r, [Idle EXCEPT !.kind = "update", !.pc = IF a THEN "deactivate" ELSE "set",
                                !.pat = p, !.act = a, !.count = c])
    BY <1>5 DEF UpdatePattern
  <2> DEFINE o == [Idle EXCEPT !.kind = "update", !.pc = IF a THEN "deactivate" ELSE "set",
                               !.pat = p, !.act = a, !.count = c]
  <2>2. /\ o \in Transaction /\ o.kind = "update" /\ o.pc = IF a THEN "deactivate" ELSE "set"
        /\ o.pat = p /\ o.act = a /\ o.rows = Idle.rows /\ o.made = {}
    BY <1>1 DEF Idle, Transaction, Kinds, PCs
  <2>3. Begin(r, o)
    BY <2>1
  <2> HIDE DEF o
  <2>4. Shape(o)
    BY <1>1, <2>2 DEF Shape, Steps, Activates
  <2>5. Right(o)
    BY <1>1, <2>2, <2>4, NewRight DEF Activates
  <2> QED BY <1>1, <2>2, <2>3, <2>5, BeginStep
<1>6. CASE DeletePattern(r)
  <2>1. PICK p \in Living(pattern) : Begin(r, [Idle EXCEPT !.kind = "delete", !.pc = "count", !.pat = p])
    BY <1>6 DEF DeletePattern
  <2> DEFINE o == [Idle EXCEPT !.kind = "delete", !.pc = "count", !.pat = p]
  <2>2. /\ o \in Transaction /\ o.kind = "delete" /\ o.pc = "count" /\ o.pat = p /\ ~o.act
        /\ o.rows = Idle.rows /\ o.made = {}
    BY <1>1 DEF Idle, Transaction, Kinds, PCs
  <2>3. Begin(r, o)
    BY <2>1
  <2> HIDE DEF o
  <2>4. Shape(o)
    BY <1>1, <2>2 DEF Shape, Steps, Activates
  <2>5. Right(o)
    BY <1>1, <2>2, <2>4, NewRight DEF Activates
  <2> QED BY <1>1, <2>2, <2>3, <2>5, BeginStep
<1>7. CASE LoadPattern(r)
  <2>1. PICK p \in Living(pattern) : Begin(r, [Idle EXCEPT !.kind = "build", !.pc = "store", !.pat = p])
    BY <1>7 DEF LoadPattern
  <2> DEFINE o == [Idle EXCEPT !.kind = "build", !.pc = "store", !.pat = p]
  <2>2. /\ o \in Transaction /\ o.kind = "build" /\ o.pc = "store" /\ o.pat = p /\ ~o.act
        /\ o.rows = Idle.rows /\ o.made = {}
    BY <1>1 DEF Idle, Transaction, Kinds, PCs
  <2>3. Begin(r, o)
    BY <2>1
  <2> HIDE DEF o
  <2>4. Shape(o)
    BY <1>1, <2>2 DEF Shape, Steps, Activates
  <2>5. Right(o)
    BY <1>1, <2>2, <2>4, NewRight DEF Activates
  <2> QED BY <1>1, <2>2, <2>3, <2>5, BeginStep
<1>8. CASE DeleteExam(r)
  <2> DEFINE o == [Idle EXCEPT !.kind = "exam", !.pc = "pluck"]
  <2>1. /\ o \in Transaction /\ o.kind = "exam" /\ o.pc = "pluck" /\ ~o.act
        /\ o.rows = Idle.rows /\ o.made = {}
    BY <1>1 DEF Idle, Transaction, Kinds, PCs
  <2>2. Begin(r, o)
    BY <1>8 DEF DeleteExam
  <2> HIDE DEF o
  <2>3. Shape(o)
    BY <1>1, <2>1 DEF Shape, Steps, Activates
  <2>4. Right(o)
    BY <1>1, <2>1, <2>3, NewRight DEF Activates
  <2> QED BY <1>1, <2>1, <2>2, <2>4, BeginStep
<1> QED BY <1>2, <1>3, <1>4, <1>5, <1>6, <1>7, <1>8

(***************************************************************************)
(* Statements.                                                             *)
(***************************************************************************)
LEMMA ReadPapersStep == ASSUME IInv, NEW r \in Req, ReadPapers(r) PROVE IInv'
<1> DEFINE o == req[r]
<1>1. o \in Transaction /\ Right(o) /\ o.pc = "read" /\ o.kind = "save"
  BY IdleOrOpen DEF ReadPapers, Right, Shape, Steps, Transaction, Kinds
<1>2. CASE req' = [req EXCEPT ![r] = Idle]
  <2>1. Next1(r, Idle) /\ Idle.kind = "none"
    BY <1>2 DEF ReadPapers, Next1, Idle
  <2> QED BY <2>1, IdleRight, OwnStep
<1>3. ASSUME NEW c \in Counts, req' = [req EXCEPT ![r].pc = "version", ![r].count = c] PROVE IInv'
  <2> DEFINE n == [o EXCEPT !.pc = "version", !.count = c]
  <2>1. /\ n \in Transaction /\ n.kind = "save" /\ n.pc = "version" /\ n.act = o.act
        /\ n.rows = o.rows /\ n.made = o.made
    BY <1>1 DEF Transaction, PCs
  <2>2. DOMAIN n.rows = {} /\ n.made = {} /\ (Activates(n) => Activates(o))
    BY <1>1, <2>1 DEF Right, Shape, Activates
  <2>3. Next1(r, n)
    BY <1>3 DEF ReadPapers, Next1, IInv, TypeOK
  <2> HIDE DEF n
  <2>4. Shape(n)
    BY <2>1, <2>2 DEF Shape, Steps
  <2>5. Right(n)
    BY <2>1, <2>2, <2>4, NewRight
  <2> QED BY <1>1, <2>1, <2>2, <2>3, <2>5, OwnStep
<1> QED BY <1>2, <1>3 DEF ReadPapers

LEMMA ReadVersionStep == ASSUME IInv, NEW r \in Req, ReadVersion(r) PROVE IInv'
<1> DEFINE o == req[r]
           V == {View(r)[p].version : p \in Living(View(r))}
           m == Max({0} \union V)
           n == [o EXCEPT !.version = 1 + m, !.pc = IF o.act THEN "deactivate" ELSE "insert"]
<1>1. o \in Transaction /\ Right(o) /\ o.pc = "version" /\ o.kind = "save"
  BY IdleOrOpen DEF ReadVersion, At, Right, Shape, Steps, Transaction, Kinds
<1>2. DOMAIN o.rows = {} /\ o.made = {}
  BY <1>1 DEF Right, Shape
<1>3. DOMAIN View(r) = DOMAIN pattern /\ \A p \in DOMAIN pattern : View(r)[p] = pattern[p]
  BY <1>2, ViewRight
<1>4. \A p \in DOMAIN View(r) : View(r)[p].version \in 1..MaxRows
  BY ViewType DEF IInv, Row, Id
<1>5. {0} \union V \subseteq Nat /\ \A x \in {0} \union V : x <= MaxRows
  BY <1>4, PatternAssumption DEF Living
<1> HIDE DEF V
<1>6. m \in Nat /\ \A y \in V : m >= y
  <2> DEFINE S == {0} \union V
  <2>1. S \in SUBSET Nat /\ S # {} /\ (\A x \in S : x <= MaxRows) /\ MaxRows \in Nat
    BY <1>5, PatternAssumption
  <2>2. V \subseteq S
    OBVIOUS
  <2> HIDE DEF S
  <2>3. Max(S) \in S /\ \A y \in S : Max(S) >= y
    BY <2>1, LargestVersion
  <2>4. Max(S) \in Nat /\ \A y \in V : Max(S) >= y
    BY <2>1, <2>2, <2>3
  <2> QED BY <2>4 DEF S
<1> HIDE DEF m
<1>7. /\ n \in Transaction /\ n.kind = "save" /\ n.pc = (IF o.act THEN "deactivate" ELSE "insert")
      /\ n.act = o.act /\ n.rows = o.rows /\ n.made = o.made /\ n.version = 1 + m
  <2>1. 1 + m \in Nat /\ (IF o.act THEN "deactivate" ELSE "insert") \in PCs
    BY <1>6 DEF PCs
  <2>2. n \in Transaction
    BY <1>1, <2>1 DEF Transaction
  <2> QED BY <1>1, <2>2 DEF Transaction
<1>8. \A x \in Living(pattern) : n.version > pattern[x].version
  <2> TAKE x \in Living(pattern)
  <2>1. pattern[x].version \in V /\ pattern[x].version \in Nat
    BY <1>3, <1>4 DEF V, Living
  <2> QED BY <1>6, <1>7, <2>1
<1>9. Right(n)
  <2>1. Shape(n) /\ RowsRight(n) /\ VersionAbove(n) /\ Cleared(n)
    BY <1>1, <1>2, <1>7, <1>8 DEF Shape, Steps, RowsRight, Fresh, VersionAbove, Cleared, Activates
  <2>2. Held(n) /\ SectionsRight(n) /\ Uncounted(n)
    BY <1>2, <1>7 DEF Held, Edited, SectionsRight, Uncounted
  <2> QED BY <2>1, <2>2 DEF Right
<1>10. Next1(r, n) /\ (Activates(n) => Activates(o))
  BY <1>1, <1>7 DEF ReadVersion, V, m, Activates
<1> QED BY <1>1, <1>2, <1>7, <1>9, <1>10, OwnStep

LEMMA DeactivateStep == ASSUME IInv, NEW r \in Req, Deactivate(r) PROVE IInv'
<1> DEFINE o == req[r]
           S == Living(View(r))
           n == [o EXCEPT !.todo = S, !.pc = IF S = {} THEN AfterClear(o.kind) ELSE "clearing"]
<1>1. o \in Transaction /\ Right(o) /\ o.pc = "deactivate" /\ Next1(r, n)
  BY IdleOrOpen DEF Deactivate, At
<1>2. DOMAIN o.rows = {} /\ o.made = {} /\ Activates(o) /\ o.kind \in {"save", "activate", "update"}
  BY <1>1 DEF Right, Shape, Steps, Transaction, Kinds
<1>3. S = Living(pattern)
  BY <1>2, ViewRight DEF Living
<1>4. S \subseteq Id
  BY ViewType DEF IInv, Living
<1> HIDE DEF S
<1>5. /\ n \in Transaction /\ n.kind = o.kind /\ n.act = o.act /\ n.rows = o.rows /\ n.made = {} /\ n.todo = S
      /\ n.version = o.version /\ n.pat = o.pat /\ (S # {} => n.pc = "clearing")
      /\ S = {} => n.pc = IF o.kind = "save" THEN "insert" ELSE "set"
  <2>1. (IF S = {} THEN AfterClear(o.kind) ELSE "clearing") \in PCs
    BY DEF PCs, AfterClear
  <2>2. n \in Transaction
    BY <1>1, <1>4, <2>1 DEF Transaction
  <2> QED BY <1>1, <1>2, <2>2 DEF Transaction, AfterClear
<1> HIDE DEF n
<1>6. Shape(n)
  BY <1>1, <1>2, <1>3, <1>5 DEF Right, Shape, Steps, Activates, Living
<1>7. RowsRight(n) /\ VersionAbove(n) /\ Cleared(n)
  BY <1>1, <1>2, <1>3, <1>5 DEF Right, RowsRight, Fresh, VersionAbove, Cleared
<1>8. Held(n) /\ SectionsRight(n) /\ Uncounted(n)
  BY <1>1, <1>2, <1>5 DEF Right, Held, Edited, SectionsRight, Uncounted
<1>9. Right(n) /\ (Activates(n) => Activates(o))
  BY <1>5, <1>6, <1>7, <1>8 DEF Right, Activates
<1> QED BY <1>1, <1>2, <1>5, <1>9, OwnStep

LEMMA ClearRowStep == ASSUME IInv, NEW r \in Req, ClearRow(r) PROVE IInv'
<1> DEFINE o == req[r]
<1>1. o \in Transaction /\ Right(o) /\ o.pc = "clearing" /\ o.rows \in RowsOf(Id)
  BY IdleOrOpen DEF ClearRow, At
<1>2. /\ o.made = {} /\ Activates(o) /\ o.kind \in {"save", "activate", "update"}
      /\ o.todo \subseteq DOMAIN pattern /\ Fresh(o) = {}
      /\ \A p \in DOMAIN o.rows : p \in DOMAIN pattern /\ Copied(o, p) /\ ~o.rows[p].active
  <2>1. /\ o.made = {} /\ Activates(o) /\ o.kind \in {"save", "activate", "update"}
        /\ o.todo \subseteq DOMAIN pattern /\ Fresh(o) = {}
    BY <1>1 DEF Right, Shape, Steps, Transaction, Kinds, RowsRight
  <2>2. \A p \in DOMAIN o.rows : p \in DOMAIN pattern /\ Copied(o, p)
    BY <1>1, <2>1 DEF Right, RowsRight, Fresh
  <2> QED BY <1>1, <2>1, <2>2 DEF Copied, Edited
<1>3. PICK p \in o.todo :
        /\ ~RowLocked(r, p)
        /\ Next1(r, [o EXCEPT !.todo = @ \ {p}, !.pc = IF o.todo = {p} THEN AfterClear(o.kind) ELSE @,
                      !.rows = IF View(r)[p].live THEN Write(@, p, [View(r)[p] EXCEPT !.active = FALSE]) ELSE @])
  BY DEF ClearRow
<1> DEFINE row == View(r)[p]
           w == [row EXCEPT !.active = FALSE]
           R == IF row.live THEN Write(o.rows, p, w) ELSE o.rows
           pc == IF o.todo = {p} THEN AfterClear(o.kind) ELSE o.pc
           n == [o EXCEPT !.todo = @ \ {p}, !.pc = pc, !.rows = R]
<1>4. p \in Id /\ p \in DOMAIN pattern /\ row \in Row
  BY <1>1, <1>2, ViewRight, ViewType DEF IInv, Transaction
<1>5. row.live => pattern[p].live /\ row.version = pattern[p].version /\ row.total = pattern[p].total
  BY <1>1, <1>2, <1>4, ViewRight DEF Copied, Edited
<1>6. ~row.live => p \notin Living(pattern)
  BY <1>2, <1>4, ViewRight DEF Copied, Living
<1>7. w \in Row /\ w.live = row.live /\ w.version = row.version /\ w.total = row.total /\ ~w.active
  BY <1>4 DEF Row
<1>8. R = (IF row.live THEN Write(o.rows, p, w) ELSE o.rows) /\ row.live \in BOOLEAN
  BY <1>4 DEF Row
<1> HIDE DEF row, w, R
<1>9. /\ R \in RowsOf(Id) /\ DOMAIN R = DOMAIN o.rows \union (IF row.live THEN {p} ELSE {})
      /\ \A x \in DOMAIN R : IF row.live /\ x = p THEN R[x] = w ELSE x \in DOMAIN o.rows /\ R[x] = o.rows[x]
  <2>1. CASE row.live
    <3>1. R = Write(o.rows, p, w)
      BY <1>8, <2>1
    <3>2. o.rows \in RowsOf(Id) /\ p \in Id /\ w \in Row
      BY <1>1, <1>4, <1>7
    <3>3. /\ Write(o.rows, p, w) \in RowsOf(Id) /\ DOMAIN Write(o.rows, p, w) = DOMAIN o.rows \union {p}
          /\ Write(o.rows, p, w)[p] = w /\ \A x \in DOMAIN o.rows \ {p} : Write(o.rows, p, w)[x] = o.rows[x]
      BY <3>2, WriteType
    <3> QED BY <2>1, <3>1, <3>3
  <2>2. CASE ~row.live
    <3>1. R = o.rows
      BY <1>8, <2>2
    <3> QED BY <1>1, <2>2, <3>1
  <2> QED BY <2>1, <2>2
<1>10. \A q \in Req \ {r} : DOMAIN R \intersect DOMAIN req[q].rows = {}
  BY <1>3, <1>9 DEF RowLocked, IInv, Apart
<1>11. Next1(r, n)
  BY <1>3 DEF row, w, R
<1>12. pc \in PCs /\ (o.todo = {p} => pc = IF o.kind = "save" THEN "insert" ELSE "set") /\ (o.todo # {p} => pc = "clearing")
  BY <1>1, <1>2 DEF AfterClear, PCs
<1> HIDE DEF pc
<1>13. /\ n \in Transaction /\ n.kind = o.kind /\ n.act = o.act /\ n.rows = R /\ n.made = {} /\ n.todo = o.todo \ {p}
       /\ n.version = o.version /\ n.pat = o.pat /\ n.pc = pc
  <2>1. n \in Transaction
    BY <1>1, <1>9, <1>12 DEF Transaction
  <2> QED BY <1>1, <1>2, <2>1 DEF Transaction
<1> HIDE DEF n
<1>14. Activates(n) /\ Shape(n)
  BY <1>1, <1>2, <1>12, <1>13 DEF Right, Shape, Steps, Activates
<1>15. RowsRight(n)
  <2>1. Fresh(n) = {}
    BY <1>2, <1>4, <1>9, <1>13 DEF Fresh
  <2>2. ASSUME NEW x \in DOMAIN R PROVE Copied(n, x)
    <3>1. CASE row.live /\ x = p /\ R[x] = w
      BY <1>5, <1>7, <1>13, <1>14, <3>1 DEF Copied
    <3>2. CASE x \in DOMAIN o.rows /\ R[x] = o.rows[x]
      BY <1>1, <1>2, <1>13, <1>14, <3>2 DEF Copied, Edited
    <3> QED BY <1>9, <3>1, <3>2
  <2> QED BY <1>2, <1>12, <1>13, <2>1, <2>2 DEF RowsRight
<1>16. VersionAbove(n)
  BY <1>1, <1>2, <1>4, <1>9, <1>12, <1>13 DEF Right, VersionAbove, Fresh
<1>17. Cleared(n)
  BY <1>1, <1>2, <1>6, <1>9, <1>12, <1>13 DEF Right, Cleared
<1>18. Held(n) /\ SectionsRight(n) /\ Uncounted(n)
  BY <1>1, <1>2, <1>12, <1>13 DEF Right, Held, Edited, SectionsRight, Uncounted
<1>19. Right(n)
  BY <1>14, <1>15, <1>16, <1>17, <1>18 DEF Right
<1> QED BY <1>2, <1>10, <1>11, <1>13, <1>19, OwnStep

LEMMA SetRowStep == ASSUME IInv, NEW r \in Req, SetRow(r) PROVE IInv'
<1> DEFINE o == req[r]
           row == View(r)[o.pat]
           w == IF o.kind = "activate" THEN [row EXCEPT !.active = TRUE]
                ELSE [row EXCEPT !.total = o.count, !.active = @ \/ o.act]
           R == IF row.live THEN Write(o.rows, o.pat, w) ELSE o.rows
           pc == IF o.kind = "activate" THEN "commit" ELSE "strike"
           n == [o EXCEPT !.rows = R, !.pc = pc]
<1>1. /\ o \in Transaction /\ Right(o) /\ o.pc = "set" /\ o.rows \in RowsOf(Id)
      /\ o.kind \in {"activate", "update"} /\ o.pat \in DOMAIN pattern /\ o.made = {}
  BY IdleOrOpen DEF SetRow, At, Right, Shape, Steps, Transaction, Kinds
<1>2. /\ \A x \in DOMAIN o.rows : x \in DOMAIN pattern /\ Copied(o, x)
      /\ ~Edited(o) /\ (~Activates(o) => DOMAIN o.rows = {}) /\ (Activates(o) <=> o.kind = "activate" \/ o.act)
  BY <1>1 DEF Right, Shape, RowsRight, Fresh, Edited, Activates
<1>3. ~RowLocked(r, o.pat) /\ Next1(r, n)
  BY DEF SetRow
<1>4. o.pat \in Id /\ row \in Row /\ o.count \in Counts \union {0} /\ o.act \in BOOLEAN
  BY <1>1, ViewRight, ViewType DEF IInv, Transaction
<1>5. /\ row.live <=> pattern[o.pat].live
      /\ row.live => row.version = pattern[o.pat].version /\ row.total = pattern[o.pat].total
      /\ ~Activates(o) => row = pattern[o.pat]
      /\ ~row.live => o.pat \notin DOMAIN o.rows
  <2>1. CASE o.pat \in DOMAIN o.rows
    <3>1. row = o.rows[o.pat] /\ Copied(o, o.pat) /\ Activates(o)
      BY <1>2, <2>1, ViewRight
    <3> HIDE DEF row
    <3> QED BY <1>2, <2>1, <3>1 DEF Copied
  <2>2. CASE o.pat \notin DOMAIN o.rows
    <3>1. row = pattern[o.pat]
      BY <1>1, <2>2, ViewRight
    <3> HIDE DEF row
    <3> QED BY <2>2, <3>1
  <2> QED BY <2>1, <2>2
<1>6. /\ w \in Row /\ w.live = row.live /\ w.version = row.version
      /\ o.kind = "activate" => w.total = row.total /\ w.active
      /\ o.kind = "update" => w.total = o.count /\ (w.active <=> row.active \/ o.act)
  <2>1. CASE o.kind = "activate"
    BY <1>4, <2>1 DEF Row
  <2>2. CASE o.kind = "update"
    BY <1>4, <2>2 DEF Row
  <2> QED BY <1>1, <2>1, <2>2
<1>7. R = (IF row.live THEN Write(o.rows, o.pat, w) ELSE o.rows) /\ row.live \in BOOLEAN
  BY <1>4 DEF Row
<1>8. pc \in PCs /\ (o.kind = "activate" => pc = "commit") /\ (o.kind = "update" => pc = "strike")
  BY DEF PCs
<1> HIDE DEF row, w, R, pc
<1>9. /\ R \in RowsOf(Id) /\ DOMAIN R = DOMAIN o.rows \union (IF row.live THEN {o.pat} ELSE {})
      /\ row.live => R[o.pat] = w
      /\ \A x \in DOMAIN R \ {o.pat} : x \in DOMAIN o.rows /\ R[x] = o.rows[x]
  <2>1. CASE row.live
    <3>1. R = Write(o.rows, o.pat, w)
      BY <1>7, <2>1
    <3>2. o.rows \in RowsOf(Id) /\ o.pat \in Id /\ w \in Row
      BY <1>1, <1>4, <1>6
    <3>3. /\ Write(o.rows, o.pat, w) \in RowsOf(Id) /\ DOMAIN Write(o.rows, o.pat, w) = DOMAIN o.rows \union {o.pat}
          /\ Write(o.rows, o.pat, w)[o.pat] = w
          /\ \A x \in DOMAIN o.rows \ {o.pat} : Write(o.rows, o.pat, w)[x] = o.rows[x]
      BY <3>2, WriteType
    <3> QED BY <2>1, <3>1, <3>3
  <2>2. CASE ~row.live
    <3>1. R = o.rows
      BY <1>7, <2>2
    <3> QED BY <1>1, <2>2, <3>1
  <2> QED BY <2>1, <2>2
<1>10. \A q \in Req \ {r} : DOMAIN R \intersect DOMAIN req[q].rows = {}
  BY <1>3, <1>9 DEF RowLocked, IInv, Apart
<1>11. /\ n \in Transaction /\ n.kind = o.kind /\ n.act = o.act /\ n.rows = R /\ n.made = {} /\ n.count = o.count
       /\ n.version = o.version /\ n.pat = o.pat /\ n.pc = pc /\ (Activates(n) <=> Activates(o))
  <2>1. n \in Transaction
    BY <1>1, <1>8, <1>9 DEF Transaction
  <2> QED BY <1>1, <2>1 DEF Transaction, Activates
<1> HIDE DEF n
<1>12. Edited(n) /\ Shape(n)
  BY <1>1, <1>8, <1>11 DEF Shape, Steps, Edited
<1>13. RowsRight(n)
  <2>1. DOMAIN R \subseteq DOMAIN pattern
    BY <1>1, <1>2, <1>9
  <2>2. ASSUME NEW x \in DOMAIN R PROVE Copied(n, x)
    <3>1. CASE x = o.pat
      <4>1. row.live /\ R[x] = w
        BY <1>5, <1>9, <3>1
      <4> QED BY <1>1, <1>2, <1>5, <1>6, <1>11, <1>12, <3>1, <4>1 DEF Copied
    <3>2. CASE x # o.pat
      <4>1. x \in DOMAIN o.rows /\ R[x] = o.rows[x]
        BY <1>9, <3>2
      <4> QED BY <1>1, <1>2, <1>11, <1>12, <4>1 DEF Copied
    <3> QED BY <3>1, <3>2
  <2> QED BY <1>1, <1>11, <2>1, <2>2 DEF RowsRight, Fresh
<1>14. VersionAbove(n) /\ Cleared(n)
  BY <1>1, <1>8, <1>9, <1>11 DEF Right, VersionAbove, Cleared
<1>15. Held(n) /\ SectionsRight(n)
  <2>1. Held(n)
    BY <1>1, <1>2, <1>5, <1>6, <1>9, <1>11 DEF Held, Living
  <2>2. o.kind = "update" /\ o.pat \in DOMAIN R => R[o.pat].total = o.count
    BY <1>5, <1>6, <1>9
  <2> QED BY <1>1, <1>8, <1>11, <2>1, <2>2 DEF SectionsRight
<1>16. Uncounted(n)
  BY <1>1, <1>11 DEF Right, Uncounted
<1>17. Right(n)
  BY <1>12, <1>13, <1>14, <1>15, <1>16 DEF Right
<1> QED BY <1>10, <1>11, <1>17, <1>3, OwnStep

\* What an edit or a deletion has established by writing its rows, it keeps.
LEMMA SameRows ==
  ASSUME NEW o, NEW n, Right(o), o.kind \in {"update", "delete", "exam"},
         o.pc \in {"pluck", "strike", "striking", "sections", "drop"},
         n.kind = o.kind, n.act = o.act, n.rows = o.rows, n.pat = o.pat, n.pc \in Steps(n.kind),
         n.pc \in {"strike", "striking", "sections", "drop", "dropping", "commit"},
         n.pc = "dropping" => n.todo \subseteq DOMAIN pattern /\ (n.kind = "delete" => n.todo \subseteq {n.pat}),
         n.made = {} \/ (n.pc = "commit" /\ n.kind = "update")
  PROVE  Shape(n) /\ RowsRight(n) /\ VersionAbove(n) /\ Cleared(n) /\ Held(n) /\ Uncounted(n)
<1>1. Shape(n) /\ (Edited(n) <=> Edited(o)) /\ (Activates(n) <=> Activates(o))
  BY DEF Right, Shape, Steps, Edited, Activates
<1>2. RowsRight(n)
  BY <1>1 DEF Right, RowsRight, Fresh, Copied
<1>3. VersionAbove(n) /\ Cleared(n)
  <2>1. /\ Activates(n) => o.kind = "update"
        /\ o.kind = "update" => o.pc \in {"strike", "striking", "sections"}
    BY DEF Right, Shape, Steps, Activates
  <2> QED BY <1>1, <2>1 DEF Right, VersionAbove, Cleared
<1>4. Held(n) /\ Uncounted(n)
  BY <1>1 DEF Right, Held, Uncounted
<1> QED BY <1>1, <1>2, <1>3, <1>4

LEMMA PluckVersionsStep == ASSUME IInv, NEW r \in Req, PluckVersions(r) PROVE IInv'
<1> DEFINE o == req[r]
           mine == Living(View(r))
           pc == IF mine = {} THEN "drop" ELSE "strike"
           n == [o EXCEPT !.todo = mine, !.pc = pc]
<1>1. o \in Transaction /\ Right(o) /\ o.pc = "pluck" /\ o.kind = "exam" /\ o.made = {}
  BY IdleOrOpen DEF PluckVersions, At, Right, Shape, Steps, Transaction, Kinds
<1>2. Next1(r, n) /\ mine \subseteq Id
  BY ViewType DEF PluckVersions, IInv, Living
<1>3. pc \in PCs /\ pc \in Steps(o.kind) /\ pc \in {"strike", "drop"}
  BY <1>1 DEF PCs, Steps
<1> HIDE DEF mine, pc
<1>4. /\ n \in Transaction /\ n.kind = o.kind /\ n.act = o.act /\ n.rows = o.rows /\ n.made = {} /\ n.pat = o.pat
      /\ n.pc = pc
  <2>1. n \in Transaction
    BY <1>1, <1>2, <1>3 DEF Transaction
  <2> QED BY <1>1, <2>1 DEF Transaction
<1> HIDE DEF n
<1>5. Shape(n) /\ RowsRight(n) /\ VersionAbove(n) /\ Cleared(n) /\ Held(n) /\ Uncounted(n)
  BY <1>1, <1>3, <1>4, SameRows
<1>6. SectionsRight(n)
  BY <1>1, <1>4 DEF SectionsRight
<1>7. Right(n) /\ (Activates(n) => Activates(o)) /\ \A q \in Req \ {r} : DOMAIN n.rows \intersect DOMAIN req[q].rows = {}
  BY <1>4, <1>5, <1>6 DEF Right, Activates, IInv, Apart
<1> QED BY <1>2, <1>4, <1>7, OwnStep

LEMMA StrikeStep == ASSUME IInv, NEW r \in Req, Strike(r) PROVE IInv'
<1> DEFINE o == req[r]
           mine == {b \in SeenBlocks(r) : b.pat \in Targets(o)}
           pc == IF mine = {} THEN AfterStrike(o.kind) ELSE "striking"
           n == [o EXCEPT !.doomed = mine, !.pc = pc]
<1>1. o \in Transaction /\ Right(o) /\ o.pc = "strike" /\ o.kind \in {"update", "delete", "exam"} /\ o.made = {}
  BY IdleOrOpen DEF Strike, At, Right, Shape, Steps, Transaction, Kinds
<1>2. Next1(r, n)
  BY DEF Strike
<1>3. mine \subseteq Block /\ (o.kind = "update" => BlocksOf(o.pat) \subseteq o.struck \union mine)
  BY <1>1 DEF SeenBlocks, BlocksOf, Targets, IInv, TypeOK
<1>4. pc \in PCs /\ pc \in Steps(o.kind) /\ pc \in {"striking", "sections", "drop"} /\ (pc # "striking" => mine = {})
  BY <1>1 DEF PCs, Steps, AfterStrike
<1> HIDE DEF mine, pc
<1>5. /\ n \in Transaction /\ n.kind = o.kind /\ n.act = o.act /\ n.rows = o.rows /\ n.made = {} /\ n.pat = o.pat
      /\ n.count = o.count /\ n.struck = o.struck /\ n.doomed = mine /\ n.pc = pc
  <2>1. n \in Transaction
    BY <1>1, <1>3, <1>4 DEF Transaction
  <2> QED BY <1>1, <2>1 DEF Transaction
<1> HIDE DEF n
<1>6. Shape(n) /\ RowsRight(n) /\ VersionAbove(n) /\ Cleared(n) /\ Held(n) /\ Uncounted(n)
  BY <1>1, <1>4, <1>5, SameRows
<1>7. SectionsRight(n)
  BY <1>1, <1>3, <1>4, <1>5 DEF Right, SectionsRight, Edited
<1>8. Right(n) /\ (Activates(n) => Activates(o)) /\ \A q \in Req \ {r} : DOMAIN n.rows \intersect DOMAIN req[q].rows = {}
  BY <1>5, <1>6, <1>7 DEF Right, Activates, IInv, Apart
<1> QED BY <1>2, <1>5, <1>8, OwnStep

LEMMA StrikeBlockStep == ASSUME IInv, NEW r \in Req, StrikeBlock(r) PROVE IInv'
<1> DEFINE o == req[r]
<1>1. o \in Transaction /\ Right(o) /\ o.pc = "striking" /\ o.kind \in {"update", "delete", "exam"} /\ o.made = {}
  BY IdleOrOpen DEF StrikeBlock, At, Right, Shape, Steps, Transaction, Kinds
<1>2. PICK b \in o.doomed :
        Next1(r, [o EXCEPT !.doomed = @ \ {b},
                  !.pc = IF o.doomed = {b} THEN AfterStrike(o.kind) ELSE @,
                  !.struck = IF b \in SeenBlocks(r) THEN @ \union {b} ELSE @])
  BY DEF StrikeBlock
<1> DEFINE pc == IF o.doomed = {b} THEN AfterStrike(o.kind) ELSE o.pc
           S == IF b \in SeenBlocks(r) THEN o.struck \union {b} ELSE o.struck
           n == [o EXCEPT !.doomed = @ \ {b}, !.pc = pc, !.struck = S]
<1>3. Next1(r, n)
  BY <1>2
<1>4. S \subseteq Block /\ o.struck \subseteq S /\ (b \in blocks => b \in S)
  BY <1>1 DEF SeenBlocks, Transaction
<1>5. pc \in PCs /\ pc \in Steps(o.kind) /\ pc \in {"striking", "sections", "drop"} /\ (pc # "striking" => o.doomed = {b})
  BY <1>1 DEF PCs, Steps, AfterStrike
<1> HIDE DEF S, pc
<1>6. /\ n \in Transaction /\ n.kind = o.kind /\ n.act = o.act /\ n.rows = o.rows /\ n.made = {} /\ n.pat = o.pat
      /\ n.count = o.count /\ n.struck = S /\ n.doomed = o.doomed \ {b} /\ n.pc = pc
  <2>1. n \in Transaction
    BY <1>1, <1>4, <1>5 DEF Transaction
  <2> QED BY <1>1, <2>1 DEF Transaction
<1> HIDE DEF n
<1>7. Shape(n) /\ RowsRight(n) /\ VersionAbove(n) /\ Cleared(n) /\ Held(n) /\ Uncounted(n)
  BY <1>1, <1>5, <1>6, SameRows
<1>8. SectionsRight(n)
  BY <1>1, <1>4, <1>5, <1>6 DEF Right, SectionsRight, Edited, BlocksOf
<1>9. Right(n) /\ (Activates(n) => Activates(o)) /\ \A q \in Req \ {r} : DOMAIN n.rows \intersect DOMAIN req[q].rows = {}
  BY <1>6, <1>7, <1>8 DEF Right, Activates, IInv, Apart
<1> QED BY <1>3, <1>6, <1>9, OwnStep

LEMMA BlockType ==
  ASSUME NEW p \in Id, NEW c \in Counts \union {0}, FreeBlocks(p) # {}
  PROVE  /\ NewBlock(p, c) \subseteq Block
         /\ \A b \in NewBlock(p, c) : b.pat = p /\ b.count = c /\ b \notin KnownBlocks
         /\ \A b, d \in NewBlock(p, c) : b = d
<1> DEFINE k == CHOOSE k \in FreeBlocks(p) : TRUE
<1>1. k \in FreeBlocks(p)
  OBVIOUS
<1>2. k \in 1..MaxBlocks /\ \A b \in KnownBlocks : b.pat = p => b.n # k
  BY <1>1 DEF FreeBlocks
<1>3. c > 0 => c \in Counts
  BY PatternAssumption
<1>4. NewBlock(p, c) = IF c > 0 THEN {[pat |-> p, n |-> k, count |-> c]} ELSE {}
  BY DEF NewBlock
<1> HIDE DEF k
<1> QED BY <1>2, <1>3, <1>4 DEF Block

LEMMA NewSectionsStep == ASSUME IInv, NEW r \in Req, NewSections(r) PROVE IInv'
<1> DEFINE o == req[r]
           m == NewBlock(o.pat, o.count)
           n == [o EXCEPT !.pc = "commit", !.made = m]
<1>1. o \in Transaction /\ Right(o) /\ o.pc = "sections" /\ o.kind = "update" /\ o.made = {}
  BY IdleOrOpen DEF NewSections, At, Right, Shape, Steps, Transaction, Kinds
<1>2. Next1(r, n) /\ FreeBlocks(o.pat) # {} /\ o.pat \in Id /\ o.count \in Counts \union {0}
  BY <1>1 DEF NewSections, Transaction
<1>3. m \subseteq Block /\ (\A b \in m : b.pat = o.pat /\ b.count = o.count) /\ \A b, d \in m : b = d
  BY <1>2, BlockType
<1> HIDE DEF m
<1>4. /\ n \in Transaction /\ n.kind = o.kind /\ n.act = o.act /\ n.rows = o.rows /\ n.made = m /\ n.pat = o.pat
      /\ n.count = o.count /\ n.struck = o.struck /\ n.pc = "commit"
  <2>1. n \in Transaction
    BY <1>1, <1>3 DEF Transaction, PCs
  <2> QED BY <1>1, <2>1 DEF Transaction
<1> HIDE DEF n
<1>5. n.pc \in Steps(n.kind)
  BY <1>1, <1>4 DEF Steps
<1>6. Shape(n) /\ RowsRight(n) /\ VersionAbove(n) /\ Cleared(n) /\ Held(n) /\ Uncounted(n)
  BY <1>1, <1>4, <1>5, SameRows
<1>7. SectionsRight(n)
  BY <1>1, <1>3, <1>4 DEF Right, SectionsRight, Edited
<1>8. Right(n) /\ (Activates(n) => Activates(o)) /\ \A q \in Req \ {r} : DOMAIN n.rows \intersect DOMAIN req[q].rows = {}
  BY <1>4, <1>6, <1>7 DEF Right, Activates, IInv, Apart
<1> QED BY <1>2, <1>4, <1>8, OwnStep

LEMMA CountPapersStep == ASSUME IInv, NEW r \in Req, CountPapers(r) PROVE IInv'
<1> DEFINE o == req[r]
           n == [o EXCEPT !.pc = "strike"]
<1>1. /\ o \in Transaction /\ Right(o) /\ o.pc = "count" /\ o.kind = "delete" /\ o.made = {}
      /\ DOMAIN o.rows = {} /\ ~o.act /\ o.pat \in DOMAIN pattern
  BY IdleOrOpen DEF CountPapers, At, Right, Shape, Steps, Transaction, Kinds
<1>2. CASE o.pat \in papers
  BY <1>2, IdleRight, OwnStep DEF CountPapers, Idle
<1>3. CASE o.pat \notin papers
  <2>1. Next1(r, n)
    BY <1>3 DEF CountPapers
  <2>2. /\ n \in Transaction /\ n.kind = "delete" /\ ~n.act /\ n.rows = o.rows /\ n.made = {} /\ n.pat = o.pat
        /\ n.pc = "strike"
    BY <1>1 DEF Transaction, PCs
  <2> HIDE DEF n
  <2>3. Shape(n) /\ RowsRight(n) /\ VersionAbove(n) /\ Cleared(n)
    BY <1>1, <2>2 DEF Shape, Steps, Activates, RowsRight, Fresh, VersionAbove, Cleared
  <2>4. Held(n) /\ SectionsRight(n) /\ Uncounted(n)
    BY <1>3, <2>2 DEF Held, Edited, SectionsRight, Uncounted
  <2>5. Right(n) /\ ~Activates(n)
    BY <2>2, <2>3, <2>4 DEF Right, Activates
  <2> QED BY <1>1, <2>1, <2>2, <2>5, OwnStep
<1> QED BY <1>2, <1>3

LEMMA DropStep == ASSUME IInv, NEW r \in Req, Drop(r) PROVE IInv'
<1> DEFINE o == req[r]
           L == Living(View(r))
           seen == IF o.kind = "exam" THEN L ELSE L \intersect {o.pat}
           pc == IF seen = {} THEN "commit" ELSE "dropping"
           n == [o EXCEPT !.todo = seen, !.pc = pc]
<1>1. /\ o \in Transaction /\ Right(o) /\ o.pc = "drop" /\ o.kind \in {"delete", "exam"} /\ o.made = {}
      /\ DOMAIN o.rows \subseteq DOMAIN pattern
  BY IdleOrOpen DEF Drop, At, Right, Shape, Steps, Transaction, Kinds, RowsRight, Fresh
<1>2. Next1(r, n)
  BY DEF Drop
<1>3. L \subseteq Id /\ L \subseteq DOMAIN pattern
  BY <1>1, ViewRight, ViewType DEF IInv, Living
<1>4. seen \subseteq Id /\ seen \subseteq DOMAIN pattern /\ (o.kind = "delete" => seen \subseteq {o.pat})
  BY <1>3
<1>5. pc \in PCs /\ pc \in Steps(o.kind) /\ pc \in {"dropping", "commit"}
  BY <1>1 DEF PCs, Steps
<1> HIDE DEF seen, pc, L
<1>6. /\ n \in Transaction /\ n.kind = o.kind /\ n.act = o.act /\ n.rows = o.rows /\ n.made = {} /\ n.pat = o.pat
      /\ n.pc = pc /\ n.todo = seen
  <2>1. n \in Transaction
    BY <1>1, <1>4, <1>5 DEF Transaction
  <2> QED BY <1>1, <2>1 DEF Transaction
<1> HIDE DEF n
<1>7. Shape(n) /\ RowsRight(n) /\ VersionAbove(n) /\ Cleared(n) /\ Held(n) /\ Uncounted(n)
  BY <1>1, <1>4, <1>5, <1>6, SameRows
<1>8. SectionsRight(n)
  BY <1>1, <1>6 DEF SectionsRight
<1>9. Right(n) /\ (Activates(n) => Activates(o)) /\ \A q \in Req \ {r} : DOMAIN n.rows \intersect DOMAIN req[q].rows = {}
  BY <1>6, <1>7, <1>8 DEF Right, Activates, IInv, Apart
<1> QED BY <1>2, <1>6, <1>9, OwnStep

LEMMA DropRowStep == ASSUME IInv, NEW r \in Req, DropRow(r) PROVE IInv'
<1> DEFINE o == req[r]
           w == Gone
<1>1. /\ o \in Transaction /\ Right(o) /\ o.pc = "dropping" /\ o.kind \in {"delete", "exam"} /\ o.made = {}
      /\ o.rows \in RowsOf(Id) /\ ~o.act /\ o.todo \subseteq DOMAIN pattern /\ o.todo \subseteq Id
      /\ o.kind = "delete" => o.pat \in DOMAIN pattern /\ o.todo \subseteq {o.pat}
  BY IdleOrOpen DEF DropRow, At, Right, Shape, Steps, Transaction, Kinds
<1>2. \A x \in DOMAIN o.rows : x \in DOMAIN pattern /\ ~o.rows[x].live /\ (o.kind = "delete" => x = o.pat)
  BY <1>1 DEF Right, RowsRight, Fresh
<1>3. PICK p \in o.todo :
        /\ ~RowLocked(r, p)
        /\ Next1(r, [o EXCEPT !.todo = @ \ {p}, !.pc = IF o.todo = {p} THEN "commit" ELSE @,
                      !.rows = IF View(r)[p].live THEN Write(@, p, w) ELSE @])
  BY DEF DropRow
<1> DEFINE row == View(r)[p]
           R == IF row.live THEN Write(o.rows, p, w) ELSE o.rows
           pc == IF o.todo = {p} THEN "commit" ELSE o.pc
           n == [o EXCEPT !.todo = @ \ {p}, !.pc = pc, !.rows = R]
<1>4. w \in Row /\ ~w.live
  BY PatternAssumption DEF Gone, Row, Id
<1>5. p \in Id /\ p \in DOMAIN pattern /\ (o.kind = "delete" => p = o.pat)
  BY <1>1
<1> HIDE DEF w
<1>6. /\ R \in RowsOf(Id) /\ DOMAIN R \subseteq DOMAIN o.rows \union {p}
      /\ \A x \in DOMAIN R : x \in DOMAIN pattern /\ ~R[x].live /\ (o.kind = "delete" => x = o.pat)
  <2>1. CASE row.live
    <3>1. R = Write(o.rows, p, w)
      BY <2>1
    <3> HIDE DEF R, row
    <3>2. /\ Write(o.rows, p, w) \in RowsOf(Id)
          /\ DOMAIN Write(o.rows, p, w) = DOMAIN o.rows \union {p}
          /\ Write(o.rows, p, w)[p] = w
          /\ \A x \in DOMAIN o.rows \ {p} : Write(o.rows, p, w)[x] = o.rows[x]
      <4>1. o.rows \in RowsOf(Id) /\ p \in Id /\ w \in Row
        BY <1>1, <1>4, <1>5
      <4> QED BY <4>1, WriteType
    <3> QED BY <1>2, <1>4, <1>5, <3>1, <3>2
  <2>2. CASE ~row.live
    <3>1. R = o.rows
      BY <2>2
    <3> QED BY <1>1, <1>2, <3>1
  <2> QED BY <2>1, <2>2
<1>7. Next1(r, n)
  BY <1>3
<1>8. pc \in PCs /\ pc \in {"dropping", "commit"} /\ pc \in Steps(o.kind)
  BY <1>1 DEF PCs, Steps
<1> HIDE DEF row, R, pc
<1>9. /\ n \in Transaction /\ n.kind = o.kind /\ ~n.act /\ n.rows = R /\ n.made = {} /\ n.pat = o.pat /\ n.pc = pc
      /\ n.todo \subseteq o.todo
  <2>1. n \in Transaction
    BY <1>1, <1>6, <1>8 DEF Transaction
  <2> QED BY <1>1, <2>1 DEF Transaction
<1> HIDE DEF n
<1>10. Shape(n) /\ ~Activates(n) /\ ~Edited(n)
  BY <1>1, <1>8, <1>9 DEF Shape, Activates, Edited
<1>11. RowsRight(n) /\ VersionAbove(n) /\ Cleared(n)
  BY <1>1, <1>6, <1>9, <1>10 DEF RowsRight, Fresh, VersionAbove, Cleared
<1>12. Held(n) /\ SectionsRight(n) /\ Uncounted(n)
  BY <1>1, <1>9, <1>10 DEF Right, Held, SectionsRight, Uncounted
<1>13. Right(n)
  BY <1>10, <1>11, <1>12 DEF Right
<1>14. \A q \in Req \ {r} : DOMAIN n.rows \intersect DOMAIN req[q].rows = {}
  BY <1>3, <1>6, <1>9 DEF RowLocked, IInv, Apart
<1> QED BY <1>7, <1>9, <1>10, <1>13, <1>14, OwnStep

LEMMA InsertPatternStep == ASSUME IInv, NEW r \in Req, InsertPattern(r) PROVE IInv'
<1> DEFINE o == req[r]
           p == CHOOSE p \in FreeIds : TRUE
           w == [version |-> o.version, active |-> o.act, total |-> o.count, live |-> TRUE]
           R == Write(o.rows, p, w)
           m == NewBlock(p, o.count)
           n == [o EXCEPT !.rows = R, !.made = m, !.version = 0, !.count = 0, !.pc = "commit"]
<1>1. /\ o \in Transaction /\ Right(o) /\ o.pc = "insert" /\ o.kind = "save" /\ o.made = {}
      /\ o.rows \in RowsOf(Id)
  BY IdleOrOpen DEF InsertPattern, At, Right, Shape, Steps, Transaction, Kinds
<1>2. \A x \in DOMAIN o.rows : x \in DOMAIN pattern /\ Copied(o, x)
  BY <1>1 DEF Right, RowsRight, Fresh
<1>3. Next1(r, n) /\ FreeIds # {} /\ FreeBlocks(p) # {} /\ o.version \in Id
  BY DEF InsertPattern
<1>4. p \in Id /\ p \notin DOMAIN pattern /\ \A q \in Req : p \notin DOMAIN req[q].rows
  BY <1>3 DEF FreeIds
<1>5. o.count \in Counts \union {0} /\ o.act \in BOOLEAN
  BY <1>1 DEF Transaction
<1>6. w \in Row /\ w.live /\ w.version = o.version /\ w.total = o.count /\ (w.active <=> o.act)
  BY <1>3, <1>5 DEF Row
<1> HIDE DEF w, p
<1>7. /\ R \in RowsOf(Id) /\ DOMAIN R = DOMAIN o.rows \union {p} /\ R[p] = w
      /\ \A x \in DOMAIN o.rows : R[x] = o.rows[x]
  <2>1. o.rows \in RowsOf(Id) /\ p \in Id /\ w \in Row
    BY <1>1, <1>4, <1>6
  <2>2. R \in RowsOf(Id)
    BY <2>1, WriteType
  <2> QED BY <1>4, <2>2 DEF Write, Over
<1>8. m \subseteq Block /\ (\A b \in m : b.pat = p /\ b.count = o.count) /\ \A b, d \in m : b = d
  BY <1>3, <1>4, <1>5, BlockType
<1> HIDE DEF R, m
<1>9. /\ n \in Transaction /\ n.kind = "save" /\ n.act = o.act /\ n.rows = R /\ n.made = m /\ n.pc = "commit"
      /\ (Activates(n) <=> Activates(o)) /\ ~Edited(n) /\ ~Edited(o)
  <2>1. n \in Transaction
    BY <1>1, <1>7, <1>8 DEF Transaction, PCs
  <2> QED BY <1>1, <2>1 DEF Transaction, Activates, Edited
<1> HIDE DEF n
<1>10. Shape(n)
  BY <1>9 DEF Shape, Steps
<1>11. Fresh(n) = {p}
  BY <1>2, <1>4, <1>7, <1>9 DEF Fresh
<1>12. RowsRight(n)
  <2>1. ASSUME NEW x \in DOMAIN R \intersect DOMAIN pattern PROVE Copied(n, x)
    <3>1. Copied(o, x) /\ R[x] = o.rows[x]
      BY <1>2, <1>4, <1>7
    <3> QED BY <1>1, <1>9, <3>1 DEF Copied
  <2> QED BY <1>6, <1>7, <1>9, <1>11, <2>1 DEF RowsRight
<1>13. VersionAbove(n)
  BY <1>1, <1>6, <1>7, <1>9, <1>11 DEF Right, VersionAbove
<1>14. Cleared(n)
  BY <1>1, <1>7, <1>9 DEF Right, Cleared
<1>15. Held(n) /\ SectionsRight(n) /\ Uncounted(n)
  BY <1>6, <1>7, <1>8, <1>9, <1>11 DEF Held, SectionsRight, Uncounted
<1>16. Right(n)
  BY <1>10, <1>12, <1>13, <1>14, <1>15 DEF Right
<1>17. \A q \in Req \ {r} : DOMAIN n.rows \intersect DOMAIN req[q].rows = {}
  BY <1>4, <1>7, <1>9 DEF IInv, Apart
<1> QED BY <1>1, <1>3, <1>9, <1>16, <1>17, OwnStep

(***************************************************************************)
(* Papers.                                                                 *)
(***************************************************************************)
\* Nothing but the use of versions changes, and requests that have written
\* nothing go on or end.
LEMMA PapersStep ==
  ASSUME IInv, UNCHANGED <<begun, exam, pattern, blocks, raced>>, req' \in [Req -> Transaction],
         papers' \subseteq DOMAIN pattern, overlooked \subseteq overlooked', overlooked' \subseteq DOMAIN pattern,
         papers' \subseteq Living(pattern) \union overlooked',
         \A q \in Req : \/ req'[q] = req[q]
                        \/ /\ Settled(req'[q]) /\ DOMAIN req'[q].rows = {} /\ ~Activates(req'[q])
                           /\ req'[q].kind \in {"none", req[q].kind},
         \A q \in Req : req'[q].kind = "delete" /\ req'[q].pc # "count" =>
                          req'[q].pat \notin papers' \/ req'[q].pat \in overlooked'
  PROVE  IInv'
<1>1. TypeOK' /\ pattern' = pattern /\ blocks' = blocks /\ raced' = raced
  BY DEF IInv, TypeOK
<1>2. Books'
  <2>1. OneActiveUnlessRaced' /\ VersionsDistinctUnlessRaced' /\ TotalsAgree'
    BY <1>1 DEF IInv, Books, OneActiveUnlessRaced, OneActive, ActiveRows, VersionsDistinctUnlessRaced, TotalsAgree, Living, BlocksOf
  <2>2. UsedPatternsStay'
    BY <1>1 DEF UsedPatternsStay, Living
  <2> QED BY <2>1, <2>2 DEF Books
<1>3. ASSUME NEW q \in Req PROVE Right(req[q])'
  <2> DEFINE o == req'[q]
  <2>1. Settled(o)
    BY DEF IInv, Right, Settled
  <2>2. (Shape(req[q]) /\ RowsRight(req[q]))'
    BY <1>1, <2>1 DEF Settled, Shape, RowsRight, Fresh, Copied, Edited, Activates
  <2>3. (VersionAbove(req[q]) /\ Cleared(req[q]))'
    BY <1>1, <2>1 DEF Settled, VersionAbove, Cleared, Fresh, Activates, Living
  <2>4. (Held(req[q]) /\ SectionsRight(req[q]))'
    BY <1>1, <2>1 DEF Settled, Held, SectionsRight, Fresh, Edited, Activates, Living, BlocksOf
  <2>5. Uncounted(req[q])'
    BY DEF Uncounted
  <2> QED BY <2>2, <2>3, <2>4, <2>5 DEF Right
<1>4. ASSUME NEW p \in Req, NEW q \in Req, p # q PROVE Apart(req[p], req[q])'
  <2>1. Apart(req[p], req[q])
    BY <1>4 DEF IInv
  <2>2. /\ \/ req'[p] = req[p]
           \/ /\ DOMAIN req'[p].rows = {} /\ ~Activates(req'[p])
              /\ req'[p].kind \in {"none", req[p].kind}
        /\ \/ req'[q] = req[q]
           \/ /\ DOMAIN req'[q].rows = {} /\ ~Activates(req'[q])
              /\ req'[q].kind \in {"none", req[q].kind}
    OBVIOUS
  <2>3. /\ DOMAIN req'[p].rows \intersect DOMAIN req'[q].rows = {}
        /\ Activates(req'[p]) => Activates(req[p])
        /\ req'[p].kind \in {"none", req[p].kind} /\ req'[q].kind \in {"none", req[q].kind}
    BY <2>1, <2>2 DEF Apart
  <2> QED BY <1>1, <2>1, <2>3 DEF Apart, Activates
<1> QED BY <1>1, <1>2, <1>3, <1>4 DEF IInv

LEMMA IdleSettled == Settled(Idle) /\ DOMAIN Idle.rows = {} /\ ~Activates(Idle) /\ Idle.kind = "none"
  BY IdleRight DEF Settled, Right, Idle

LEMMA StorePaperStep == ASSUME IInv, NEW r \in Req, StorePaper(r) PROVE IInv'
<1> DEFINE o == req[r]
<1>1. o \in Transaction /\ Right(o) /\ o.pc = "store" /\ o.kind = "build"
  BY IdleOrOpen DEF StorePaper, At, Right, Shape, Steps, Transaction, Kinds
<1>2. /\ papers' = papers \union {o.pat} /\ req' = [req EXCEPT ![r] = Idle]
      /\ UNCHANGED <<begun, exam, pattern, blocks, raced>>
      /\ overlooked' = IF o.pat \notin Living(pattern) \/ Counted(o.pat) THEN overlooked \union {o.pat} ELSE overlooked
  BY DEF StorePaper
<1>3. o.pat \in DOMAIN pattern /\ papers \subseteq Living(pattern) \union overlooked
  BY <1>1 DEF Right, Shape, IInv, Books, UsedPatternsStay
<1>4. /\ papers' \subseteq DOMAIN pattern /\ overlooked \subseteq overlooked' /\ overlooked' \subseteq DOMAIN pattern
      /\ req' \in [Req -> Transaction] /\ papers' \subseteq Living(pattern) \union overlooked'
  BY <1>2, <1>3, IdleRight DEF IInv, TypeOK
<1>5. req'[r] = Idle /\ \A q \in Req \ {r} : req'[q] = req[q]
  BY <1>2 DEF IInv, TypeOK
<1>6. ASSUME NEW q \in Req, req'[q].kind = "delete", req'[q].pc # "count"
      PROVE  req'[q].pat \notin papers' \/ req'[q].pat \in overlooked'
  <2>1. q # r /\ req'[q] = req[q]
    BY <1>5, <1>6, IdleSettled
  <2>2. req[q].pat \notin papers \/ req[q].pat \in overlooked
    BY <1>6, <2>1 DEF IInv, Right, Uncounted
  <2>3. req[q].pat = o.pat => Counted(o.pat)
    BY <1>6, <2>1 DEF Counted
  <2> QED BY <1>2, <2>1, <2>2, <2>3
<1>7. \A q \in Req : \/ req'[q] = req[q]
                     \/ /\ Settled(req'[q]) /\ DOMAIN req'[q].rows = {} /\ ~Activates(req'[q])
                        /\ req'[q].kind \in {"none", req[q].kind}
  BY <1>5, IdleSettled
<1> QED BY <1>2, <1>4, <1>6, <1>7, PapersStep

LEMMA CountFailsStep == ASSUME IInv, NEW r \in Req, CountFails(r) PROVE IInv'
<1> DEFINE o == req[r]
           n == [o EXCEPT !.pc = "strike"]
<1>1. /\ o \in Transaction /\ Right(o) /\ o.pc = "count" /\ o.kind = "delete" /\ o.made = {}
      /\ DOMAIN o.rows = {} /\ ~o.act /\ o.pat \in DOMAIN pattern
  BY IdleOrOpen DEF CountFails, At, Right, Shape, Steps, Transaction, Kinds
<1>2. /\ req' = [req EXCEPT ![r] = n] /\ overlooked' = overlooked \union {o.pat}
      /\ UNCHANGED <<begun, exam, pattern, blocks, papers, raced>>
  BY DEF CountFails, IInv, TypeOK
<1>3. /\ n \in Transaction /\ n.kind = "delete" /\ ~n.act /\ n.rows = o.rows /\ n.made = {} /\ n.pat = o.pat
      /\ n.pc = "strike"
  BY <1>1 DEF Transaction, PCs
<1> HIDE DEF n
<1>4. Shape(n) /\ RowsRight(n) /\ VersionAbove(n) /\ Cleared(n) /\ Held(n) /\ SectionsRight(n) /\ ~Activates(n)
  BY <1>1, <1>3 DEF Shape, Steps, Activates, RowsRight, Fresh, VersionAbove, Cleared, Held, Edited, SectionsRight
<1>5. req'[r] = n /\ (\A q \in Req \ {r} : req'[q] = req[q]) /\ req' \in [Req -> Transaction]
  BY <1>2, <1>3 DEF IInv, TypeOK
<1>6. /\ papers' \subseteq DOMAIN pattern /\ overlooked \subseteq overlooked' /\ overlooked' \subseteq DOMAIN pattern
      /\ papers' \subseteq Living(pattern) \union overlooked'
  BY <1>1, <1>2 DEF IInv, TypeOK, Books, UsedPatternsStay
<1>7. \A q \in Req : \/ req'[q] = req[q]
                     \/ /\ Settled(req'[q]) /\ DOMAIN req'[q].rows = {} /\ ~Activates(req'[q])
                        /\ req'[q].kind \in {"none", req[q].kind}
  BY <1>1, <1>3, <1>4, <1>5 DEF Settled
<1>8. ASSUME NEW q \in Req, req'[q].kind = "delete", req'[q].pc # "count"
      PROVE  req'[q].pat \notin papers' \/ req'[q].pat \in overlooked'
  BY <1>2, <1>3, <1>5, <1>8 DEF IInv, Right, Uncounted
<1> QED BY <1>2, <1>5, <1>6, <1>7, <1>8, PapersStep

LEMMA DeletePaperStep == ASSUME IInv, DeletePaper PROVE IInv'
<1>1. papers' \subseteq papers /\ req' = req /\ UNCHANGED <<begun, exam, pattern, blocks, overlooked, raced>>
  BY DEF DeletePaper
<1>2. papers' \subseteq DOMAIN pattern /\ req' \in [Req -> Transaction] /\ overlooked' \subseteq DOMAIN pattern
      /\ papers' \subseteq Living(pattern) \union overlooked'
  BY <1>1 DEF IInv, TypeOK, Books, UsedPatternsStay
<1>3. \A q \in Req : req'[q].kind = "delete" /\ req'[q].pc # "count" =>
                        req'[q].pat \notin papers' \/ req'[q].pat \in overlooked'
  BY <1>1 DEF IInv, Right, Uncounted
<1> QED BY <1>1, <1>2, <1>3, PapersStep

(***************************************************************************)
(* Commits.                                                                *)
(***************************************************************************)
LEMMA Committing ==
  ASSUME IInv, NEW r \in Req, Commit(r)
  PROVE  LET o == req[r] IN
         /\ o \in Transaction /\ Right(o) /\ o.pc = "commit" /\ o.kind \in {"save", "activate", "update", "delete", "exam"}
         /\ DOMAIN pattern' = DOMAIN o.rows \union DOMAIN pattern
         /\ \A x \in DOMAIN pattern' : pattern'[x] = IF x \in DOMAIN o.rows THEN o.rows[x] ELSE pattern[x]
         /\ blocks' = (blocks \ o.struck) \union o.made
         /\ req' = [req EXCEPT ![r] = Idle] /\ UNCHANGED <<begun, papers, raced>>
         /\ overlooked' = IF o.kind = "exam" THEN overlooked \union DOMAIN o.rows ELSE overlooked
<1>1. req[r] \in Transaction /\ Right(req[r]) /\ req[r].pc = "commit"
  BY IdleOrOpen DEF Commit, At
<1>2. req[r].kind \in {"save", "activate", "update", "delete", "exam"}
  BY <1>1 DEF Right, Shape, Steps, Transaction, Kinds
<1>3. pattern' = Over(req[r].rows, pattern) /\ blocks' = (blocks \ req[r].struck) \union req[r].made
  BY DEF Commit, SeenBlocks
<1>4. /\ DOMAIN pattern' = DOMAIN req[r].rows \union DOMAIN pattern
      /\ \A x \in DOMAIN pattern' : pattern'[x] = IF x \in DOMAIN req[r].rows THEN req[r].rows[x] ELSE pattern[x]
  BY <1>3 DEF Over
<1> QED BY <1>1, <1>2, <1>3, <1>4 DEF Commit

\* What a commit does to the living rows.
LEMMA LivingAfter ==
  ASSUME IInv, NEW r \in Req, Commit(r)
  PROVE  LET o == req[r] IN
         /\ Living(pattern)' \subseteq Living(pattern) \union Fresh(o)
         /\ Fresh(o) \subseteq Living(pattern)'
         /\ Fresh(o) # {} => o.kind = "save"
         /\ \A x \in Living(pattern)' \ Fresh(o) : x \in DOMAIN pattern /\ pattern'[x].version = pattern[x].version
         /\ o.kind \notin {"delete", "exam"} => Living(pattern) \subseteq Living(pattern)'
         /\ o.kind = "delete" => Living(pattern) \ {o.pat} \subseteq Living(pattern)'
         /\ o.kind = "exam" => Living(pattern) \ DOMAIN o.rows \subseteq Living(pattern)'
<1> DEFINE o == req[r]
<1>1. /\ Right(o) /\ DOMAIN pattern' = DOMAIN o.rows \union DOMAIN pattern
      /\ \A x \in DOMAIN pattern' : pattern'[x] = IF x \in DOMAIN o.rows THEN o.rows[x] ELSE pattern[x]
  BY Committing
<1>2. /\ \A x \in Fresh(o) : o.rows[x].live /\ o.kind = "save"
      /\ \A x \in DOMAIN o.rows \intersect DOMAIN pattern :
           IF o.kind \in {"delete", "exam"} THEN ~o.rows[x].live /\ (o.kind = "delete" => x = o.pat)
           ELSE o.rows[x].live /\ pattern[x].live /\ o.rows[x].version = pattern[x].version
  BY <1>1 DEF Right, RowsRight, Copied
<1>3. Fresh(o) = DOMAIN o.rows \ DOMAIN pattern
  BY DEF Fresh
<1>4. Living(pattern)' = {x \in DOMAIN pattern' : pattern'[x].live} /\ Living(pattern) = {x \in DOMAIN pattern : pattern[x].live}
  BY DEF Living
<1> HIDE DEF o
<1>5. Fresh(o) \subseteq Living(pattern)' /\ (Fresh(o) # {} => o.kind = "save")
  BY <1>1, <1>2, <1>3, <1>4
<1>6. ASSUME NEW x \in Living(pattern)', x \notin Fresh(o)
      PROVE  x \in Living(pattern) /\ x \in DOMAIN pattern /\ pattern'[x].version = pattern[x].version
  BY <1>1, <1>2, <1>3, <1>4, <1>6
<1>7. ASSUME NEW x \in Living(pattern),
             o.kind \in {"delete", "exam"} => IF o.kind = "delete" THEN x # o.pat ELSE x \notin DOMAIN o.rows
      PROVE  x \in Living(pattern)'
  BY <1>1, <1>2, <1>3, <1>4, <1>7
<1>8. /\ Living(pattern)' \subseteq Living(pattern) \union Fresh(o)
      /\ \A x \in Living(pattern)' \ Fresh(o) : x \in DOMAIN pattern /\ pattern'[x].version = pattern[x].version
  BY <1>6
<1>9. /\ o.kind \notin {"delete", "exam"} => Living(pattern) \subseteq Living(pattern)'
      /\ o.kind = "delete" => Living(pattern) \ {o.pat} \subseteq Living(pattern)'
      /\ o.kind = "exam" => Living(pattern) \ DOMAIN o.rows \subseteq Living(pattern)'
  BY <1>7
<1> QED BY <1>5, <1>8, <1>9 DEF o

\* What it does to the active ones.
LEMMA ActiveAfter ==
  ASSUME IInv, NEW r \in Req, Commit(r)
  PROVE  LET o == req[r] IN
         /\ ~Activates(o) => ActiveRows' \subseteq ActiveRows
         /\ ~Activates(o) /\ o.kind \notin {"delete", "exam"} => ActiveRows \subseteq ActiveRows'
         /\ Activates(o) /\ "active" \notin raced => \A p, q \in ActiveRows' : p = q
         /\ Activates(o) /\ (o.kind = "save" \/ o.pat \in Living(pattern)) => ActiveRows' # {}
         /\ o.kind \in {"delete", "exam"} => \A p \in ActiveRows \ ActiveRows' : ~pattern'[p].live
<1> DEFINE o == req[r]
<1>1. /\ Right(o) /\ DOMAIN pattern' = DOMAIN o.rows \union DOMAIN pattern
      /\ \A x \in DOMAIN pattern' : pattern'[x] = IF x \in DOMAIN o.rows THEN o.rows[x] ELSE pattern[x]
      /\ o.pc = "commit" /\ o.kind \in {"save", "activate", "update", "delete", "exam"}
  BY Committing
<1>2. /\ ActiveRows' = {x \in DOMAIN pattern' : pattern'[x].live /\ pattern'[x].active}
      /\ ActiveRows = {x \in DOMAIN pattern : pattern[x].live /\ pattern[x].active}
  BY DEF ActiveRows, Living
<1>3. /\ \A x \in Fresh(o) : o.kind = "save" /\ o.rows[x].live /\ (o.rows[x].active <=> o.act)
      /\ \A x, y \in Fresh(o) : x = y
      /\ o.kind = "save" => Fresh(o) # {}
      /\ \A x \in DOMAIN o.rows \intersect DOMAIN pattern :
           IF o.kind \in {"delete", "exam"} THEN ~o.rows[x].live ELSE Copied(o, x)
  BY <1>1 DEF Right, RowsRight
<1>4. /\ Fresh(o) = DOMAIN o.rows \ DOMAIN pattern
      /\ Activates(o) <=> o.act \/ o.kind = "activate"
      /\ Edited(o) <=> o.kind \in {"activate", "update"}
      /\ o.kind \in {"delete", "exam"} => ~Activates(o)
  BY <1>1 DEF Fresh, Activates, Edited, Right, Shape
<1>5. \A x \in DOMAIN o.rows : Copied(o, x) =>
        /\ o.rows[x].live /\ pattern[x].live
        /\ ~Activates(o) => (o.rows[x].active <=> pattern[x].active)
        /\ Activates(o) /\ o.rows[x].active => x = o.pat /\ Edited(o)
  BY DEF Copied
<1>6. /\ Activates(o) /\ "active" \notin raced => Living(pattern) \subseteq DOMAIN o.rows
      /\ Activates(o) /\ Edited(o) /\ o.pat \in Living(pattern) =>
           o.pat \in DOMAIN o.rows \intersect DOMAIN pattern /\ o.rows[o.pat].active
  <2>1. Activates(o) /\ "active" \notin raced => Living(pattern) \subseteq DOMAIN o.rows
    BY <1>1 DEF Right, Cleared
  <2>2. Activates(o) /\ Edited(o) /\ o.pat \in Living(pattern) => o.pat \in DOMAIN o.rows /\ o.rows[o.pat].active
    BY <1>1 DEF Right, Held
  <2> QED BY <2>1, <2>2 DEF Living
<1>7. Living(pattern) = {x \in DOMAIN pattern : pattern[x].live}
  BY DEF Living
<1> HIDE DEF o
<1>8. ~Activates(o) => ActiveRows' \subseteq ActiveRows
  BY <1>1, <1>2, <1>3, <1>4, <1>5
<1>9. ~Activates(o) /\ o.kind \notin {"delete", "exam"} => ActiveRows \subseteq ActiveRows'
  BY <1>1, <1>2, <1>3, <1>4, <1>5
<1>10. ASSUME Activates(o), "active" \notin raced, NEW p \in ActiveRows', NEW q \in ActiveRows' PROVE p = q
  <2>1. ASSUME NEW x \in ActiveRows'
        PROVE  IF o.kind = "save" THEN x \in Fresh(o) ELSE x = o.pat
    <3>1. x \in DOMAIN o.rows /\ o.rows[x].active
      BY <1>1, <1>2, <1>6, <1>7, <1>10
    <3> QED BY <1>1, <1>3, <1>4, <1>5, <1>10, <3>1
  <2> QED BY <1>3, <2>1
<1>11. ASSUME Activates(o), o.kind = "save" \/ o.pat \in Living(pattern) PROVE ActiveRows' # {}
  <2>1. CASE o.kind = "save"
    BY <1>1, <1>2, <1>3, <1>4, <1>11, <2>1
  <2>2. CASE o.kind # "save"
    <3>1. o.pat \in DOMAIN o.rows \intersect DOMAIN pattern /\ o.rows[o.pat].active
      BY <1>1, <1>4, <1>6, <1>11, <2>2
    <3>2. o.rows[o.pat].live
      BY <1>3, <1>4, <1>5, <1>11, <3>1
    <3> QED BY <1>1, <1>2, <3>1, <3>2
  <2> QED BY <2>1, <2>2
<1>12. o.kind \in {"delete", "exam"} => \A p \in ActiveRows \ ActiveRows' : ~pattern'[p].live
  BY <1>1, <1>2, <1>3
<1> QED BY <1>8, <1>9, <1>10, <1>11, <1>12 DEF o

\* What it does to the sections.
LEMMA TotalsAfter == ASSUME IInv, NEW r \in Req, Commit(r) PROVE TotalsAgree'
<1> DEFINE o == req[r]
<1>1. /\ Right(o) /\ DOMAIN pattern' = DOMAIN o.rows \union DOMAIN pattern
      /\ \A x \in DOMAIN pattern' : pattern'[x] = IF x \in DOMAIN o.rows THEN o.rows[x] ELSE pattern[x]
      /\ blocks' = (blocks \ o.struck) \union o.made
      /\ o.pc = "commit" /\ o.kind \in {"save", "activate", "update", "delete", "exam"}
  BY Committing
<1>2. /\ Living(pattern)' \subseteq Living(pattern) \union Fresh(o)
      /\ Fresh(o) = DOMAIN o.rows \ DOMAIN pattern /\ Living(pattern) \subseteq DOMAIN pattern
  BY LivingAfter DEF Fresh, Living
<1>3. \A b \in blocks : /\ b.pat \in DOMAIN pattern
                        /\ b.pat \in Living(pattern) =>
                             b.count = pattern[b.pat].total /\ \A d \in blocks : d.pat = b.pat => d = b
  BY DEF IInv, Books, TotalsAgree, BlocksOf
<1>4. \A b, d \in o.made : b = d
  BY <1>1 DEF Right, SectionsRight
<1>5. ASSUME NEW b \in o.made
      PROVE  \/ b.pat \in Fresh(o) /\ b.count = o.rows[b.pat].total
             \/ /\ b.pat = o.pat /\ o.pat \in DOMAIN pattern
                /\ o.pat \in Living(pattern) =>
                     /\ o.pat \in DOMAIN o.rows /\ b.count = o.rows[o.pat].total
                     /\ \A d \in blocks : d.pat = o.pat => d \in o.struck
  <2>1. CASE o.kind = "save"
    BY <1>1, <2>1 DEF Right, SectionsRight
  <2>2. CASE o.kind = "update"
    <3>1. Edited(o) /\ o.pat \in DOMAIN pattern
      BY <1>1, <2>2 DEF Edited, Right, Shape
    <3>2. b.pat = o.pat /\ b.count = o.count
      BY <1>1, <2>2 DEF Right, SectionsRight
    <3>3. o.pat \in Living(pattern) => o.pat \in DOMAIN o.rows
      BY <1>1, <3>1 DEF Right, Held
    <3>4. o.pat \in DOMAIN o.rows => o.rows[o.pat].total = o.count /\ BlocksOf(o.pat) \subseteq o.struck
      BY <1>1, <2>2, <3>1 DEF Right, SectionsRight
    <3> QED BY <3>1, <3>2, <3>3, <3>4 DEF BlocksOf
  <2>3. o.kind \in {"save", "update"}
    BY <1>1 DEF Right, Shape
  <2> QED BY <2>1, <2>2, <2>3
<1>6. ASSUME NEW b \in blocks \ o.struck, b.pat \in Living(pattern)', b.pat \in DOMAIN o.rows
      PROVE  o.rows[b.pat].total = pattern[b.pat].total
  <2>1. b.pat \in DOMAIN pattern /\ o.rows[b.pat].live
    BY <1>1, <1>3, <1>6 DEF Living
  <2>2. Copied(o, b.pat)
    BY <1>1, <1>6, <2>1 DEF Right, RowsRight
  <2>3. CASE o.kind = "update" /\ b.pat = o.pat /\ Edited(o)
    BY <1>1, <1>6, <2>3 DEF Right, SectionsRight, BlocksOf
  <2> QED BY <2>2, <2>3 DEF Copied
<1> HIDE DEF o
<1>7. \A b \in blocks' : b.pat \in DOMAIN pattern'
  BY <1>1, <1>2, <1>3, <1>5
<1>8. ASSUME NEW b \in blocks', b.pat \in Living(pattern)'
      PROVE  b.count = pattern'[b.pat].total /\ \A d \in blocks' : d.pat = b.pat => d = b
  <2>1. CASE b \in o.made
    <3>1. CASE b.pat \in Fresh(o)
      <4>1. b.pat \notin DOMAIN pattern /\ b.pat \in DOMAIN o.rows
        BY <1>2, <3>1
      <4>2. b.count = o.rows[b.pat].total
        BY <1>5, <2>1, <4>1
      <4>3. pattern'[b.pat] = o.rows[b.pat]
        BY <1>1, <4>1
      <4>4. ASSUME NEW d \in blocks', d.pat = b.pat PROVE d = b
        BY <1>1, <1>3, <1>4, <2>1, <4>1, <4>4
      <4> QED BY <4>2, <4>3, <4>4
    <3>2. CASE b.pat \notin Fresh(o)
      <4>1. /\ b.pat = o.pat /\ o.pat \in DOMAIN o.rows /\ b.count = o.rows[o.pat].total
            /\ \A d \in blocks : d.pat = o.pat => d \in o.struck
        BY <1>2, <1>5, <1>8, <2>1, <3>2
      <4> QED BY <1>1, <1>4, <2>1, <4>1
    <3> QED BY <3>1, <3>2
  <2>2. CASE b \in blocks \ o.struck
    <3>1. b.pat \in DOMAIN pattern /\ b.pat \in Living(pattern)
      BY <1>2, <1>3, <1>8, <2>2
    <3>2. b.count = pattern[b.pat].total /\ \A d \in blocks : d.pat = b.pat => d = b
      BY <1>3, <2>2, <3>1
    <3>3. b.count = pattern'[b.pat].total
      BY <1>1, <1>6, <1>8, <2>2, <3>1, <3>2
    <3>4. ASSUME NEW d \in o.made, d.pat = b.pat PROVE FALSE
      BY <1>2, <1>5, <2>2, <3>1, <3>4
    <3> QED BY <1>1, <3>2, <3>3, <3>4
  <2> QED BY <1>1, <1>8, <2>1, <2>2
<1> QED BY <1>7, <1>8 DEF TotalsAgree, BlocksOf

LEMMA BooksAfter == ASSUME IInv, NEW r \in Req, Commit(r) PROVE Books'
<1> DEFINE o == req[r]
<1>1. Right(o) /\ UNCHANGED <<papers, raced>> /\ o.pc = "commit"
      /\ DOMAIN pattern' = DOMAIN o.rows \union DOMAIN pattern
      /\ \A x \in DOMAIN pattern' : pattern'[x] = IF x \in DOMAIN o.rows THEN o.rows[x] ELSE pattern[x]
  BY Committing
<1>2. OneActiveUnlessRaced'
  <2>1. OneActiveUnlessRaced
    BY DEF IInv, Books
  <2>2. ~Activates(o) => ActiveRows' \subseteq ActiveRows
    BY ActiveAfter
  <2>3. Activates(o) /\ "active" \notin raced => \A p, q \in ActiveRows' : p = q
    BY ActiveAfter
  <2> QED BY <1>1, <2>1, <2>2, <2>3 DEF OneActiveUnlessRaced, OneActive
<1>3. VersionsDistinctUnlessRaced'
  <2>1. /\ Living(pattern)' \subseteq Living(pattern) \union Fresh(o)
        /\ \A x \in Living(pattern)' \ Fresh(o) : x \in DOMAIN pattern /\ pattern'[x].version = pattern[x].version
        /\ \A x \in Fresh(o) : o.kind = "save" /\ x \in DOMAIN o.rows
        /\ \A x, y \in Fresh(o) : x = y
    BY <1>1, LivingAfter DEF Right, RowsRight, Fresh
  <2>2. "version" \notin raced => \A p \in Fresh(o), x \in Living(pattern) : o.rows[p].version > pattern[x].version
    BY <1>1, <2>1 DEF Right, VersionAbove
  <2>3. \A x \in Living(pattern) : pattern[x].version \in Int
    BY RowsType DEF IInv, TypeOK, Living, Row, Id
  <2>4. "version" \notin raced => \A p, q \in Living(pattern) : p # q => pattern[p].version # pattern[q].version
    BY DEF IInv, Books, VersionsDistinctUnlessRaced
  <2>5. \A x \in Fresh(o) : pattern'[x] = o.rows[x]
    BY <1>1, <2>1
  <2> HIDE DEF o
  <2>6. ASSUME "version" \notin raced, NEW p \in Living(pattern)', NEW q \in Living(pattern)', p # q
        PROVE  pattern'[p].version # pattern'[q].version
    <3>1. CASE p \in Fresh(o)
      <4>1. q \in Living(pattern) /\ q \notin Fresh(o)
        BY <2>1, <2>6, <3>1
      <4>2. o.rows[p].version > pattern[q].version /\ pattern'[q].version = pattern[q].version
        BY <2>1, <2>2, <2>6, <3>1, <4>1
      <4>3. ~(pattern[q].version > pattern[q].version)
        BY <2>3, <4>1
      <4> QED BY <2>5, <3>1, <4>2, <4>3
    <3>2. CASE q \in Fresh(o)
      <4>1. p \in Living(pattern) /\ p \notin Fresh(o)
        BY <2>1, <2>6, <3>2
      <4>2. o.rows[q].version > pattern[p].version /\ pattern'[p].version = pattern[p].version
        BY <2>1, <2>2, <2>6, <3>2, <4>1
      <4>3. ~(pattern[p].version > pattern[p].version)
        BY <2>3, <4>1
      <4> QED BY <2>5, <3>2, <4>2, <4>3
    <3>3. CASE p \notin Fresh(o) /\ q \notin Fresh(o)
      BY <2>1, <2>4, <2>6, <3>3
    <3> QED BY <3>1, <3>2, <3>3
  <2> QED BY <1>1, <2>6 DEF VersionsDistinctUnlessRaced
<1>4. UsedPatternsStay'
  <2>1. papers \subseteq Living(pattern) \union overlooked /\ overlooked \subseteq overlooked'
    BY Committing DEF IInv, Books, UsedPatternsStay
  <2>2. /\ o.kind \notin {"delete", "exam"} => Living(pattern) \subseteq Living(pattern)'
        /\ o.kind = "delete" => Living(pattern) \ {o.pat} \subseteq Living(pattern)'
        /\ o.kind = "exam" => Living(pattern) \ DOMAIN o.rows \subseteq Living(pattern)'
    BY LivingAfter
  <2>3. o.kind = "delete" => o.pat \notin papers \/ o.pat \in overlooked
    BY <1>1 DEF Right, Uncounted
  <2>4. o.kind = "exam" => DOMAIN o.rows \subseteq overlooked'
    BY Committing
  <2> QED BY <1>1, <2>1, <2>2, <2>3, <2>4 DEF UsedPatternsStay
<1> QED BY <1>2, <1>3, <1>4, TotalsAfter DEF Books

\* What another transaction has established survives the commit.
LEMMA OthersAfter == ASSUME IInv, NEW r \in Req, Commit(r), NEW q \in Req \ {r} PROVE Right(req[q])'
<1> DEFINE o == req[r]
           t == req[q]
<1>1. /\ Right(o) /\ DOMAIN pattern' = DOMAIN o.rows \union DOMAIN pattern
      /\ \A x \in DOMAIN pattern' : pattern'[x] = IF x \in DOMAIN o.rows THEN o.rows[x] ELSE pattern[x]
      /\ blocks' = (blocks \ o.struck) \union o.made /\ UNCHANGED <<papers, raced>>
      /\ overlooked \subseteq overlooked' /\ o.pc = "commit" /\ o.kind \in {"save", "activate", "update", "delete", "exam"}
  BY Committing
<1>2. req'[q] = t /\ Right(t)
  <2>1. req' = [req EXCEPT ![r] = Idle]
    BY Committing
  <2> QED BY <2>1 DEF IInv, TypeOK
<1>3. Apart(o, t) /\ Apart(t, o)
  BY DEF IInv
<1>4. /\ Living(pattern)' \subseteq Living(pattern) \union Fresh(o)
      /\ Fresh(o) # {} => o.kind = "save"
      /\ \A x \in Living(pattern)' \ Fresh(o) : x \in DOMAIN pattern /\ pattern'[x].version = pattern[x].version
      /\ Fresh(o) = DOMAIN o.rows \ DOMAIN pattern
  BY LivingAfter DEF Fresh
<1>5. DOMAIN o.rows \intersect DOMAIN t.rows = {}
  BY <1>3 DEF Apart
<1>6. Fresh(req[q])' = Fresh(t)
  BY <1>1, <1>2, <1>5 DEF Fresh
<1>7. \A x \in DOMAIN t.rows \intersect DOMAIN pattern' : x \in DOMAIN pattern /\ pattern'[x] = pattern[x]
  BY <1>1, <1>5
<1>8. Edited(req[q])' = Edited(t) /\ Activates(req[q])' = Activates(t)
  BY <1>2 DEF Edited, Activates
<1>9. Shape(req[q])'
  BY <1>1, <1>2, <1>8 DEF Right, Shape
<1>10. RowsRight(req[q])'
  <2>1. \A x \in DOMAIN t.rows \intersect DOMAIN pattern' : Copied(t, x) => Copied(req[q], x)'
    BY <1>2, <1>7, <1>8 DEF Copied
  <2> QED BY <1>2, <1>6, <1>7, <2>1 DEF Right, RowsRight
<1>11. VersionAbove(req[q])'
  <2>1. "version" \notin raced /\ t.kind = "save" => o.kind # "save"
    BY <1>3 DEF Apart
  <2>2. "version" \notin raced /\ t.kind = "save" =>
          \A x \in Living(pattern)' : x \in Living(pattern) /\ pattern'[x].version = pattern[x].version
    BY <1>4, <2>1
  <2> QED BY <1>1, <1>2, <1>6, <2>2 DEF Right, VersionAbove
<1>12. Cleared(req[q])'
  <2>1. "active" \notin raced /\ Activates(t) => Living(pattern)' \subseteq Living(pattern)
    BY <1>3, <1>4 DEF Apart
  <2> QED BY <1>1, <1>2, <1>8, <2>1 DEF Right, Cleared
<1>13. t.kind \in {"activate", "update"} => t.pat \in DOMAIN pattern
  BY <1>2 DEF Right, Shape
<1>14. Held(req[q])'
  <2>1. Edited(t) /\ t.pat \in Living(pattern)' => t.pat \in Living(pattern)
    BY <1>4, <1>13 DEF Edited
  <2> QED BY <1>2, <1>8, <2>1 DEF Right, Held
<1>15. SectionsRight(req[q])'
  <2>1. ASSUME t.kind = "update", t.pat \in DOMAIN t.rows, NEW b \in o.made PROVE b.pat # t.pat
    <3>1. t.pat \in DOMAIN pattern /\ pattern[t.pat].live
      BY <1>2, <1>13, <2>1 DEF Right, RowsRight, Copied
    <3>2. CASE o.kind = "save"
      <4>1. b.pat \in Fresh(o)
        BY <1>1, <3>2 DEF Right, SectionsRight
      <4> QED BY <1>4, <3>1, <4>1
    <3>3. CASE o.kind = "update"
      <4>1. b.pat = o.pat /\ Edited(o)
        BY <1>1, <3>3 DEF Right, SectionsRight, Edited
      <4>2. o.pat \in Living(pattern) => o.pat \in DOMAIN o.rows
        BY <1>1, <4>1 DEF Right, Held
      <4> QED BY <1>5, <2>1, <3>1, <4>1, <4>2 DEF Living
    <3>4. o.kind \in {"save", "update"}
      BY <1>1 DEF Right, Shape
    <3> QED BY <3>2, <3>3, <3>4
  <2>2. t.kind = "update" /\ t.pat \in DOMAIN t.rows => BlocksOf(req[q].pat)' \subseteq BlocksOf(t.pat)
    BY <1>1, <1>2, <2>1 DEF BlocksOf
  <2> QED BY <1>2, <1>6, <1>8, <2>2 DEF Right, SectionsRight
<1>16. Uncounted(req[q])'
  BY <1>1, <1>2 DEF Right, Uncounted
<1> QED BY <1>9, <1>10, <1>11, <1>12, <1>14, <1>15, <1>16 DEF Right

LEMMA CommitStep == ASSUME IInv, NEW r \in Req, Commit(r) PROVE IInv'
<1> DEFINE o == req[r]
<1>1. /\ o \in Transaction /\ pattern' = Over(o.rows, pattern) /\ blocks' = (blocks \ o.struck) \union o.made
      /\ DOMAIN pattern' = DOMAIN o.rows \union DOMAIN pattern
      /\ req' = [req EXCEPT ![r] = Idle] /\ UNCHANGED <<begun, papers, raced>>
      /\ overlooked' \subseteq overlooked \union DOMAIN o.rows /\ exam' \in BOOLEAN
  BY Committing DEF Commit, IInv, TypeOK
<1>2. TypeOK'
  <2>1. o.rows \in RowsOf(Id) /\ o.made \subseteq Block /\ pattern \in RowsOf(Id)
    BY <1>1 DEF Transaction, IInv, TypeOK
  <2>2. pattern' \in RowsOf(Id)
    BY <1>1, <2>1, OverType
  <2>3. Idle \in Transaction
    BY IdleRight
  <2> QED BY <1>1, <2>1, <2>2, <2>3 DEF IInv, TypeOK
<1>3. req'[r] = Idle /\ \A q \in Req \ {r} : req'[q] = req[q]
  BY <1>1 DEF IInv, TypeOK
<1>4. /\ Idle.kind = "none" /\ Idle.pc = "idle" /\ DOMAIN Idle.rows = {} /\ Idle.made = {} /\ ~Idle.act
  BY IdleRight DEF Idle
<1>5. Right(req[r])'
  <2>1. (Shape(req[r]) /\ RowsRight(req[r]) /\ VersionAbove(req[r]) /\ Cleared(req[r]))'
    BY <1>3, <1>4 DEF Shape, Steps, Activates, RowsRight, Fresh, VersionAbove, Cleared
  <2>2. (Held(req[r]) /\ SectionsRight(req[r]) /\ Uncounted(req[r]))'
    BY <1>3, <1>4 DEF Held, Edited, SectionsRight, Uncounted
  <2> QED BY <2>1, <2>2 DEF Right
<1>6. \A q \in Req : Right(req[q])'
  BY <1>5, OthersAfter
<1>7. ASSUME NEW p \in Req, NEW q \in Req, p # q PROVE Apart(req[p], req[q])'
  <2>1. Apart(req[p], req[q])
    BY <1>7 DEF IInv
  <2>2. CASE p = r
    BY <1>3, <1>4, <2>2 DEF Apart, Activates
  <2>3. CASE q = r
    BY <1>3, <1>4, <2>3 DEF Apart
  <2>4. CASE p # r /\ q # r
    BY <1>1, <1>3, <2>1, <2>4 DEF Apart, Activates
  <2> QED BY <2>2, <2>3, <2>4
<1> QED BY <1>2, <1>6, <1>7, BooksAfter DEF IInv

(***************************************************************************)
(* Theorems.                                                               *)
(***************************************************************************)
LEMMA Stuttering == ASSUME IInv, UNCHANGED vars PROVE IInv'
<1>1. UNCHANGED <<begun, exam, pattern, blocks, papers, req, overlooked, raced>>
  BY DEF vars
<1>2. TypeOK'
  BY <1>1 DEF IInv, TypeOK
<1>3. Books'
  BY <1>1, StillBooked DEF IInv
<1>4. ASSUME NEW q \in Req PROVE Right(req[q])'
  <2>1. Right(req'[q])
    BY <1>1 DEF IInv
  <2> QED BY <1>1, <2>1, StillRight
<1>5. ASSUME NEW p \in Req, NEW q \in Req, p # q PROVE Apart(req[p], req[q])'
  BY <1>1, <1>5 DEF IInv, Apart, Activates
<1> QED BY <1>2, <1>3, <1>4, <1>5 DEF IInv

LEMMA Inductive == IInv /\ [Next]_vars => IInv'
<1> SUFFICES ASSUME IInv, [Next]_vars PROVE IInv'
  OBVIOUS
<1>1. ASSUME NEW r \in Req,
             \/ CreatePattern(r) \/ AnalyzePattern(r) \/ ActivatePattern(r)
             \/ UpdatePattern(r) \/ DeletePattern(r) \/ DeleteExam(r) \/ LoadPattern(r)
      PROVE  IInv'
  BY <1>1, RequestStep
<1>2. ASSUME NEW r \in Req, ReadPapers(r) \/ ReadVersion(r) \/ Deactivate(r) \/ ClearRow(r) PROVE IInv'
  BY <1>2, ReadPapersStep, ReadVersionStep, DeactivateStep, ClearRowStep
<1>3. ASSUME NEW r \in Req, InsertPattern(r) \/ SetRow(r) \/ Strike(r) \/ StrikeBlock(r) \/ NewSections(r) PROVE IInv'
  BY <1>3, InsertPatternStep, SetRowStep, StrikeStep, StrikeBlockStep, NewSectionsStep
<1>4. ASSUME NEW r \in Req,
             \/ PluckVersions(r) \/ CountPapers(r) \/ CountFails(r) \/ Drop(r) \/ DropRow(r)
             \/ StorePaper(r) \/ Commit(r) \/ Rollback(r)
      PROVE  IInv'
  BY <1>4, PluckVersionsStep, CountPapersStep, CountFailsStep, DropStep, DropRowStep, StorePaperStep, CommitStep, RollbackStep
<1>5. CASE DeletePaper
  BY <1>5, DeletePaperStep
<1>6. CASE UNCHANGED vars
  BY <1>6, Stuttering
<1> QED BY <1>1, <1>2, <1>3, <1>4, <1>5, <1>6 DEF Next

LEMMA Invariance == Spec => []IInv
  BY Initially, Inductive, PTL DEF Spec

\* Every row, block and open transaction has its type, whatever is under way.
THEOREM TypeCorrect == Spec => []TypeOK
<1>1. IInv => TypeOK
  BY DEF IInv
<1> QED BY <1>1, Invariance, PTL

\* Two versions are active only after a save overlapped an activation, however
\* many activations and edits overlap each other.
THEOREM AtMostOneActive == Spec => []OneActiveUnlessRaced
<1>1. IInv => OneActiveUnlessRaced
  BY DEF IInv, Books
<1> QED BY <1>1, Invariance, PTL

\* Two living versions have one number only after two saves overlapped.
THEOREM VersionsStayDistinct == Spec => []VersionsDistinctUnlessRaced
<1>1. IInv => VersionsDistinctUnlessRaced
  BY DEF IInv, Books
<1> QED BY <1>1, Invariance, PTL

\* A version's total agrees with its sections whatever overlaps: an edit holds
\* the version's row from before it replaces the sections until it commits.
THEOREM TotalsStayRight == Spec => []TotalsMatchSections
<1>1. IInv => TotalsMatchSections
  <2> SUFFICES ASSUME IInv, NEW p \in Living(pattern), {b \in blocks : b.pat = p} # {}
               PROVE  \E b \in {b \in blocks : b.pat = p} :
                        {d \in blocks : d.pat = p} = {b} /\ b.count = pattern[p].total
    BY DEF TotalsMatchSections
  <2>1. PICK b \in blocks : b.pat = p
    OBVIOUS
  <2>2. b.count = pattern[p].total /\ BlocksOf(p) = {b}
    BY <2>1 DEF IInv, Books, TotalsAgree
  <2> QED BY <2>1, <2>2 DEF BlocksOf
<1> QED BY <1>1, Invariance, PTL

\* A version that a paper refers to lives, unless its papers could not be counted,
\* the paper was stored after they were, or the whole exam was deleted.
THEOREM UsedVersionsLive == Spec => []UsedPatternsStay
<1>1. IInv => UsedPatternsStay
  BY DEF IInv, Books
<1> QED BY <1>1, Invariance, PTL

\* An exam loses its active version only with the deletion of that version, or to
\* the activation of one deleted meanwhile: any other activation or save that
\* clears the others sets one in the same transaction.
THEOREM ActiveKept == Spec => ActiveLostOnlyByDelete
<1> DEFINE Kept == ActiveRows # {} /\ ActiveRows' = {}
                     => \/ \E p \in ActiveRows : ~pattern'[p].live
                        \/ \E r \in Req : ActivatesGone(r) /\ req'[r].pc = "idle"
<1>1. IInv /\ [Next]_vars => [Kept]_vars
  <2> SUFFICES ASSUME IInv, [Next]_vars, ActiveRows # {}, ActiveRows' = {}
               PROVE  \/ \E p \in ActiveRows : ~pattern'[p].live
                      \/ \E r \in Req : ActivatesGone(r) /\ req'[r].pc = "idle"
    OBVIOUS
  <2>1. pattern' # pattern
    BY DEF ActiveRows, Living
  <2>2. PICK r \in Req : Commit(r)
    BY <2>1 DEF Next, vars, CreatePattern, AnalyzePattern, ReadPapers, ActivatePattern, UpdatePattern,
                DeletePattern, DeleteExam, LoadPattern, Begin, ReadVersion, Deactivate, ClearRow, InsertPattern,
                SetRow, PluckVersions, Strike, StrikeBlock, NewSections, CountPapers, CountFails, Drop, DropRow,
                StorePaper, Rollback, Next1, DeletePaper
  <2>3. req'[r].pc = "idle" /\ req[r].pc = "commit"
    BY <2>2 DEF Commit, At, IInv, TypeOK, Idle
  <2>4. CASE Activates(req[r])
    <3>1. req[r].kind # "save" /\ req[r].pat \notin Living(pattern)
      BY <2>2, <2>4, ActiveAfter
    <3> QED BY <2>3, <2>4, <3>1 DEF ActivatesGone, At
  <2>5. CASE ~Activates(req[r])
    <3>1. req[r].kind \in {"delete", "exam"}
      BY <2>2, <2>5, ActiveAfter
    <3> QED BY <2>2, <3>1, ActiveAfter
  <2> QED BY <2>4, <2>5
<1> QED BY <1>1, Invariance, PTL DEF Spec, ActiveLostOnlyByDelete
=============================================================================
