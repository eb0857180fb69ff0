--------------------------- MODULE DocPipelineProofs ---------------------------
(***************************************************************************)
(* Theorems about DocPipeline, for any file, window, bound and fault: that *)
(* its rows belong together and its windows hold; then what ties the tasks *)
(* of a document to its rows and its status (who holds a page, what each   *)
(* status says of the tasks), and with it that nothing is assembled before *)
(* its pages are finished, read twice, or forgotten.                       *)
(*                                                                         *)
(* Then what becomes of the document: pages_done and pages_failed are kept *)
(* apart from the rows they count, by finishers that crash, retry and      *)
(* overlap, and no page is counted twice; where no task of a parse dies    *)
(* every page is counted once.  And DocPipeline implements DocLifecycle:   *)
(* whatever tasks, housekeeping and requests do to a document, its status  *)
(* and its pages move only along the lifecycle.                            *)
(***************************************************************************)
EXTENDS DocPipeline, MCDocPipeline, FiniteSetTheorems, TLAPS

-----------------------------------------------------------------------------
(* Counting pages.                                                         *)

LEMMA PagesFinite ==
    ASSUME NEW S \in SUBSET Page
    PROVE  IsFiniteSet(S) /\ Cardinality(S) \in 0..N
<1>1. IsFiniteSet(Page) /\ Cardinality(Page) = N
  BY FS_Interval, SizeAssumption DEF Page
<1>2. IsFiniteSet(S) /\ Cardinality(S) <= N
  BY <1>1, FS_Subset
<1> QED
  BY <1>2, FS_CardinalityType, SizeAssumption

LEMMA SubsetCount ==
    ASSUME NEW S \in SUBSET Page, NEW T \in SUBSET S
    PROVE  Cardinality(T) <= Cardinality(S)
BY PagesFinite, FS_Subset

LEMMA UnionCount ==
    ASSUME NEW S \in SUBSET Page, NEW T \in SUBSET Page
    PROVE  Cardinality(S \cup T) <= Cardinality(S) + Cardinality(T)
<1>1. IsFiniteSet(S) /\ IsFiniteSet(T) /\ S \cap T \in SUBSET Page
  BY PagesFinite
<1>2. Cardinality(S \cap T) \in 0..N /\ Cardinality(S) \in 0..N /\ Cardinality(T) \in 0..N
  BY <1>1, PagesFinite
<1> QED
  BY <1>1, <1>2, FS_Union, SizeAssumption

(* The rank of a page tells it apart within its set: a claim of "the n     *)
(* first pages" takes at most n.                                           *)
LEMMA RankType ==
    ASSUME NEW S \in SUBSET Page, NEW p \in Page
    PROVE  Rank(p, S) \in 0..N
BY PagesFinite DEF Rank

LEMMA RankIncreases ==
    ASSUME NEW S \in SUBSET Page, NEW p \in S, NEW q \in S, p < q
    PROVE  Rank(p, S) < Rank(q, S)
<1> DEFINE A == {x \in S : x < p}
           B == {x \in S : x < q}
<1>0. S \subseteq Int /\ p \in Int /\ q \in Int
  BY SizeAssumption DEF Page
<1>1. A \in SUBSET B /\ B \in SUBSET Page /\ p \in B /\ p \notin A
  <2>1. A \subseteq B
    <3>1. ASSUME NEW x \in S, x < p PROVE x < q
      BY <1>0, <3>1
    <3> QED
      BY <3>1
  <2>2. p \in B /\ p \notin A
    BY <1>0
  <2>3. B \subseteq Page
    OBVIOUS
  <2> QED
    BY <2>1, <2>2, <2>3
<1>2. Cardinality(A) <= Cardinality(B) /\ Cardinality(A) # Cardinality(B)
  BY <1>1, PagesFinite, FS_Subset
<1>3. Cardinality(A) \in 0..N /\ Cardinality(B) \in 0..N
  BY <1>1, PagesFinite
<1> QED
  BY <1>2, <1>3, SizeAssumption DEF Rank

LEMMA FirstPages ==
    ASSUME NEW S \in SUBSET Page, NEW n \in Int
    PROVE  Cardinality({p \in S : Rank(p, S) < n}) <= IF n > 0 THEN n ELSE 0
<1> DEFINE T == {p \in S : Rank(p, S) < n}
           f == [p \in T |-> Rank(p, S)]
<1>1. T \in SUBSET Page
  OBVIOUS
<1>2. CASE n > 0
  <2>1. f \in [T -> 0..(n-1)]
    BY <1>1, RankType, SizeAssumption
  <2>2. ASSUME NEW p \in T, NEW q \in T, f[p] = f[q] PROVE p = q
    <3>1. p \in Page /\ q \in Page /\ Rank(p, S) = Rank(q, S)
      BY <1>1, <2>2
    <3>2. Rank(p, S) \in 0..N
      BY <3>1, RankType
    <3>3. ~(p < q) /\ ~(q < p)
      BY <3>1, <3>2, RankIncreases, SizeAssumption
    <3> QED
      BY <3>1, <3>3, SizeAssumption DEF Page
  <2>3. f \in Injection(T, 0..(n-1))
    BY <2>1, <2>2 DEF Injection, IsInjective
  <2>4. IsFiniteSet(0..(n-1)) /\ Cardinality(0..(n-1)) = n
    BY <1>2, FS_Interval
  <2> QED
    BY <1>2, <2>3, <2>4, FS_Injection
<1>3. CASE ~(n > 0)
  <2>1. T = {}
    BY <1>1, <1>3, RankType, SizeAssumption
  <2> QED
    BY <1>3, <2>1, FS_EmptySet
<1> QED
  BY <1>2, <1>3

-----------------------------------------------------------------------------
(* Type correctness: what the helpers of an action return.                 *)

LEMMA EnqueueType ==
    ASSUME NEW new, NEW T, WellFormed(new), WellFormed(T)
    PROVE  WellFormed(Enqueue(new, T))
BY DEF Enqueue, WellFormed

LEMMA TaskType ==
    ASSUME NEW t \in Tasks
    PROVE  /\ Restart(t) \in Tasks /\ Restart(t).typ = t.typ /\ Restart(t).gen = t.gen
           /\ \A u \in Archived(t) : u \in Tasks /\ u.typ = t.typ /\ u.gen = t.gen
<1>1. Restart(t) \in Tasks /\ Restart(t).typ = t.typ /\ Restart(t).gen = t.gen
  <2>1. t.try + 1 \in Nat /\ {} \in SUBSET Page /\ "queued" \in Steps
    BY DEF Tasks, Steps
  <2> QED
    BY <2>1 DEF Tasks, Restart
<1> DEFINE a == [t EXCEPT !.pc = "archived", !.try = 0, !.todo = {}, !.left = {}]
<1>2. a \in Tasks /\ a.typ = t.typ /\ a.gen = t.gen
  BY DEF Tasks, Steps
<1>3. \A u \in Archived(t) : u = a
  BY DEF Archived
<1> QED
  BY <1>1, <1>2, <1>3

LEMMA ErroredType ==
    ASSUME WellFormed(tasks), NEW t \in tasks
    PROVE  WellFormed(Archived(t)) /\ WellFormed(Errored(t))
<1>1. t \in Tasks /\ (t.typ # "delete" => t.gen \in Gen)
  BY DEF WellFormed
<1>2. WellFormed(Archived(t)) /\ WellFormed({Restart(t)})
  BY <1>1, TaskType DEF WellFormed
<1> QED
  BY <1>2 DEF Errored

LEMMA OthersType ==
    ASSUME WellFormed(tasks), NEW t, NEW U, WellFormed(U)
    PROVE  WellFormed(Others(t)) /\ WellFormed(Others(t) \cup U)
BY DEF WellFormed, Others

LEMMA PutType ==
    ASSUME TypeOK, NEW t, NEW u \in Tasks, u.gen \in Gen
    PROVE  WellFormed(Others(t) \cup {u})
<1>1. WellFormed({u})
  BY DEF WellFormed
<1> QED
  BY <1>1, OthersType DEF TypeOK

LEMMA SpendType ==
    ASSUME used \in Used, NEW b \in {"crash", "stale", "stray", "req"}, Spend(b)
    PROVE  used' \in Used
BY DEF Used, Spend

LEMMA GotoType ==
    ASSUME TypeOK, NEW t \in tasks, NEW pc \in Steps, Goto(t, pc)
    PROVE  WellFormed(tasks') /\ used' \in Used
<1>1. WellFormed({[t EXCEPT !.pc = pc]})
  <2>1. t \in Tasks /\ (t.typ # "delete" => t.gen \in Gen)
    BY DEF TypeOK, WellFormed
  <2>2. [t EXCEPT !.pc = pc] \in Tasks /\ [t EXCEPT !.pc = pc].typ = t.typ /\ [t EXCEPT !.pc = pc].gen = t.gen
    BY <2>1 DEF Tasks
  <2> QED
    BY <2>1, <2>2 DEF WellFormed
<1> QED
  BY <1>1, OthersType DEF Goto, TypeOK

LEMMA ErrorType ==
    ASSUME TypeOK, NEW t \in tasks, Error(t) \/ DeadLetter(t)
    PROVE  WellFormed(tasks') /\ used' \in Used
BY ErroredType, OthersType DEF Error, DeadLetter, TypeOK

LEMMA AckType ==
    ASSUME TypeOK, NEW t \in tasks, NEW new, WellFormed(new), Ack(t, new)
    PROVE  WellFormed(tasks') /\ used' \in Used
<1>1. WellFormed(Others(t)) /\ WellFormed(Others(t) \cup Errored(t))
  BY ErroredType, OthersType DEF TypeOK
<1>2. CASE tasks' = Enqueue(new, Others(t)) /\ UNCHANGED used
  BY <1>1, <1>2, EnqueueType DEF TypeOK
<1>3. CASE tasks' = Enqueue(new, Others(t) \cup Errored(t)) /\ Spend("crash")
  BY <1>1, <1>3, EnqueueType, SpendType DEF TypeOK
<1> QED
  BY <1>2, <1>3 DEF Ack

LEMMA DocTaskType ==
    ASSUME NEW typ \in TaskTypes, NEW g \in 0..MaxGen, NEW b \in 0..MaxHk,
           typ # "delete" => g \in Gen
    PROVE  WellFormed({DocTask(typ, g, b)})
BY SizeAssumption DEF DocTask, Task, Tasks, Steps, WellFormed

LEMMA NewTasksType ==
    ASSUME row \in [Page -> Row], NEW g \in Gen
    PROVE  WellFormed(NewTasks(g))
<1>1. g \in 0..MaxGen /\ 0 \in 0..MaxHk /\ Page \subseteq 0..N
  BY SizeAssumption DEF Gen, Page
<1>2. ASSUME NEW p \in Page, NEW P \in SUBSET Page, NEW typ \in {"ocr", "render"}
      PROVE  WellFormed({Task(typ, g, p, row[p].att + 1, 0, P)})
  <2>1. row[p].att + 1 \in Nat
    BY DEF Row
  <2> QED
    BY <1>1, <2>1, SizeAssumption DEF Task, Tasks, TaskTypes, Steps, WellFormed
<1>3. OcrClaims(g) \subseteq Page /\ Leads(g) \subseteq Page /\ RenderClaims(g) \subseteq Page
  BY DEF OcrClaims, Leads, RenderClaims, Rows
<1>4. WellFormed({Task("ocr", g, p, row[p].att + 1, 0, {p}) : p \in OcrClaims(g)})
  BY <1>2, <1>3 DEF WellFormed
<1>5. \A p : BatchFrom(p, g) \in SUBSET Page
  BY <1>3 DEF BatchFrom
<1>6. WellFormed({Task("render", g, p, row[p].att + 1, 0, BatchFrom(p, g)) : p \in Leads(g)})
  BY <1>2, <1>3, <1>5 DEF WellFormed
<1>7. WellFormed(IF AllFinished(g) THEN {DocTask("assemble", g, 0)} ELSE {})
  <2>1. WellFormed({DocTask("assemble", g, 0)}) /\ WellFormed({})
    BY <1>1, DocTaskType DEF TaskTypes, WellFormed
  <2> QED
    BY <2>1
<1> QED
  BY <1>4, <1>6, <1>7 DEF NewTasks, WellFormed

LEMMA AdvancedType ==
    ASSUME row \in [Page -> Row], NEW g
    PROVE  Advanced(g) \in [Page -> Row]
<1>1. ASSUME NEW p \in Page, NEW s \in PageStatus PROVE Claim(p, s) \in Row
  <2>1. row[p] \in Row /\ row[p].att + 1 \in Nat
    BY DEF Row
  <2> QED
    BY <2>1 DEF Claim, Row
<1>2. "ocr" \in PageStatus /\ "rendering" \in PageStatus
  BY DEF PageStatus
<1> QED
  BY <1>1, <1>2 DEF Advanced

LEMMA UpdateType ==
    ASSUME doc \in Doc, NEW g, NEW new \in Doc, Update(g, new)
    PROVE  doc' \in Doc
BY DEF Update

LEMMA FailDocType ==
    ASSUME doc \in Doc, NEW g, FailDoc(g)
    PROVE  doc' \in Doc
BY DEF FailDoc, Update, Doc, DocStatus, Stage

LEMMA CountPageType ==
    ASSUME doc \in Doc, NEW g, NEW c \in {"done", "failed"}, CountPage(g, c)
    PROVE  doc' \in Doc
BY DEF CountPage, Doc

LEMMA WorkType ==
    ASSUME TypeOK, NEW t \in tasks, Work(t) \/ Crash(t) \/ StrayPickup(t)
    PROVE  TypeOK'
<1> USE SizeAssumption
<1>E. WellFormed({})
  BY DEF WellFormed
<1>1. CASE Drop(t)
  BY <1>1, <1>E, AckType DEF Drop, TypeOK
<1>2. CASE SplitStart(t)
  <2>1. [doc EXCEPT !.status = "splitting", !.parse = "processing"] \in Doc
    BY DEF TypeOK, Doc, DocStatus, Stage
  <2>2. doc' \in Doc
    BY <1>2, <2>1, UpdateType DEF SplitStart, TypeOK
  <2>3. WellFormed(tasks') /\ used' \in Used
    BY <1>2, GotoType DEF SplitStart, Steps
  <2> QED
    BY <1>2, <2>2, <2>3 DEF SplitStart, TypeOK
<1>3. CASE SplitInit(t)
  <2>1. row' \in [Page -> Row]
    <3>1. t.gen \in 0..MaxGen
      BY DEF TypeOK, WellFormed, Tasks
    <3>2. \A st \in PageStatus : FreshRows(t.gen, st) \in [Page -> Row]
      BY <3>1 DEF FreshRows, Row
    <3>3. "pending" \in PageStatus /\ "skipped" \in PageStatus
      BY DEF PageStatus
    <3> QED
      BY <1>3, <3>2, <3>3 DEF SplitInit, TypeOK
  <2>2. WellFormed(tasks') /\ used' \in Used
    BY <1>3, GotoType, ErrorType DEF SplitInit, Steps
  <2> QED
    BY <1>3, <2>1, <2>2 DEF SplitInit, TypeOK
<1>4. CASE SplitProbeFails(t)
  <2>1. doc' \in Doc
    BY <1>4, FailDocType DEF SplitProbeFails, TypeOK
  <2>2. WellFormed(tasks') /\ used' \in Used
    BY <1>4, ErrorType DEF SplitProbeFails
  <2> QED
    BY <1>4, <2>1, <2>2 DEF SplitProbeFails, TypeOK
<1>5. CASE SplitReady(t)
  <2>1. [doc EXCEPT !.status = "parsing", !.pageCount = N] \in Doc
    BY DEF TypeOK, Doc, DocStatus
  <2>2. doc' \in Doc
    BY <1>5, <2>1, UpdateType DEF SplitReady, TypeOK
  <2>3. WellFormed(tasks') /\ used' \in Used
    BY <1>5, GotoType DEF SplitReady, Steps
  <2> QED
    BY <1>5, <2>2, <2>3 DEF SplitReady, TypeOK
<1>6. CASE SplitHeld(t)
  <2>1. [doc EXCEPT !.status = "not_started", !.parse = "pending", !.pageCount = N, !.skipped = N] \in Doc
    <3>1. N \in 0..N /\ N \in {0, N}
      OBVIOUS
    <3> QED
      BY <3>1 DEF TypeOK, Doc, DocStatus, Stage
  <2>2. doc' \in Doc
    BY <1>6, <2>1, UpdateType DEF SplitHeld, TypeOK
  <2>3. WellFormed(tasks') /\ used' \in Used
    BY <1>6, <1>E, AckType DEF SplitHeld
  <2> QED
    BY <1>6, <2>2, <2>3 DEF SplitHeld, TypeOK
<1>7. CASE LastAdvance(t)
  <2>1. t.gen \in Gen
    BY <1>7 DEF LastAdvance, TypeOK, WellFormed
  <2>2. row' \in [Page -> Row]
    BY <1>7, AdvancedType DEF LastAdvance, Advance, TypeOK
  <2>3. WellFormed(tasks') /\ used' \in Used
    BY <1>7, <2>1, NewTasksType, AckType DEF LastAdvance, TypeOK
  <2> QED
    BY <1>7, <2>2, <2>3 DEF LastAdvance, TypeOK
<1>8. CASE RenderStart(t)
  <2> DEFINE todo == StillRendering(t)
             u == [t EXCEPT !.pc = "emit", !.todo = todo, !.left = todo]
  <2>1. t \in Tasks /\ t.typ = "render" /\ t.gen \in Gen
    BY <1>8 DEF RenderStart, Starts, At, TypeOK, WellFormed
  <2>2. u \in Tasks /\ u.typ = "render" /\ u.gen \in Gen
    BY <2>1 DEF Tasks, Steps, StillRendering
  <2>3. WellFormed(tasks') /\ used' \in Used
    <3>1. CASE todo = {}
      BY <1>8, <1>E, <3>1, AckType DEF RenderStart
    <3>2. CASE todo # {}
      <4>1. tasks' = Others(t) \cup {u} /\ UNCHANGED used
        BY <1>8, <3>2 DEF RenderStart
      <4>2. WellFormed({u})
        BY <2>2 DEF WellFormed
      <4> QED
        BY <4>1, <4>2, OthersType DEF TypeOK
    <3> QED
      BY <3>1, <3>2
  <2> QED
    BY <1>8, <2>3 DEF RenderStart, TypeOK
<1>9. CASE RenderEmit(t)
  <2> DEFINE u == [t EXCEPT !.pc = "advance", !.left = @ \ {Least(t.left)}]
  <2>1. t \in Tasks /\ t.typ = "render" /\ t.gen \in Gen
    BY <1>9 DEF RenderEmit, At, TypeOK, WellFormed
  <2>2. u \in Tasks /\ u.typ = "render" /\ u.gen \in Gen
    BY <2>1 DEF Tasks, Steps
  <2>3. WellFormed(tasks')
    <3>1. tasks' = Others(t) \cup {u}
      BY <1>9 DEF RenderEmit
    <3>2. WellFormed({u})
      BY <2>2 DEF WellFormed
    <3> QED
      BY <3>1, <3>2, OthersType DEF TypeOK
  <2>4. row' \in [Page -> Row]
    <3> DEFINE p == Least(t.left)
    <3>1. CASE row' = row
      BY <3>1 DEF TypeOK
    <3>2. CASE row' = [row EXCEPT ![p].st = "rendered", ![p].img = TRUE]
      <4>1. p \in Page => [row[p] EXCEPT !.st = "rendered", !.img = TRUE] \in Row
        BY DEF TypeOK, Row, PageStatus
      <4> HIDE DEF p
      <4>2. row' = [row EXCEPT ![p] = [row[p] EXCEPT !.st = "rendered", !.img = TRUE]]
        BY <3>2
      <4> QED
        BY <4>1, <4>2 DEF TypeOK
    <3> QED
      BY <1>9, <3>1, <3>2 DEF RenderEmit
  <2> QED
    BY <1>9, <2>1, <2>3, <2>4 DEF RenderEmit, TypeOK
<1>10. CASE RenderAdvance(t)
  <2>1. t \in Tasks /\ t.typ = "render" /\ t.gen \in Gen
    BY <1>10 DEF RenderAdvance, At, TypeOK, WellFormed
  <2>2. row' \in [Page -> Row]
    BY <1>10, AdvancedType DEF RenderAdvance, Advance, TypeOK
  <2>3. WellFormed(NewTasks(t.gen))
    BY <2>1, NewTasksType DEF TypeOK
  <2>4. WellFormed(tasks') /\ used' \in Used
    <3> DEFINE u == [t EXCEPT !.pc = "emit"]
    <3>1. CASE t.left = {}
      BY <1>10, <2>3, <3>1, AckType DEF RenderAdvance
    <3>2. CASE t.left # {}
      <4>1. u \in Tasks /\ u.typ = "render" /\ u.gen \in Gen
        BY <2>1 DEF Tasks, Steps
      <4>2. WellFormed(Others(t) \cup {u})
        BY <4>1, PutType
      <4> QED
        BY <1>10, <2>3, <3>2, <4>2, EnqueueType DEF RenderAdvance, TypeOK
    <3> QED
      BY <3>1, <3>2
  <2> QED
    BY <1>10, <2>2, <2>4 DEF RenderAdvance, TypeOK
<1>11. CASE RenderFails(t)
  <2> DEFINE u == [t EXCEPT !.pc = "give_up", !.left = t.todo]
  <2>1. t \in Tasks /\ t.typ = "render" /\ t.gen \in Gen
    BY <1>11 DEF RenderFails, At, TypeOK, WellFormed
  <2>2. u \in Tasks /\ u.typ = "render" /\ u.gen \in Gen
    BY <2>1 DEF Tasks, Steps
  <2>3. WellFormed(Others(t) \cup {u})
    BY <2>2, PutType
  <2>4. WellFormed(tasks') /\ used' \in Used
    BY <1>11, <2>3, ErrorType DEF RenderFails, TypeOK
  <2> QED
    BY <1>11, <2>4 DEF RenderFails, TypeOK
<1>12. CASE RenderGiveUp(t)
  <2> DEFINE u == [t EXCEPT !.left = @ \ {Least(t.left)}]
  <2>1. t \in Tasks /\ t.typ = "render" /\ t.gen \in Gen
    BY <1>12 DEF RenderGiveUp, At, TypeOK, WellFormed
  <2>2. u \in Tasks /\ u.typ = "render" /\ u.gen \in Gen
    BY <2>1 DEF Tasks
  <2>3. WellFormed(Others(t) \cup {u})
    BY <2>2, PutType
  <2>4. WellFormed(tasks') /\ used' \in Used
    BY <1>12, <2>3, GotoType DEF RenderGiveUp, TypeOK, Steps
  <2>5. row' \in [Page -> Row]
    BY <1>12 DEF RenderGiveUp, SetPage, TypeOK, Row, PageStatus
  <2> QED
    BY <1>12, <2>4, <2>5 DEF RenderGiveUp, TypeOK
<1>13. CASE RenderCount(t)
  <2> DEFINE u == [t EXCEPT !.pc = "give_up", !.left = @ \ {Least(@)}]
  <2>1. t \in Tasks /\ t.typ = "render" /\ t.gen \in Gen
    BY <1>13 DEF RenderCount, At, TypeOK, WellFormed
  <2>2. u \in Tasks /\ u.typ = "render" /\ u.gen \in Gen
    BY <2>1 DEF Tasks, Steps
  <2>3. WellFormed(Others(t) \cup {u})
    BY <2>2, PutType
  <2>4. doc' \in Doc
    BY <1>13, CountPageType DEF RenderCount, TypeOK
  <2> QED
    BY <1>13, <2>3, <2>4 DEF RenderCount, TypeOK
<1>14. CASE FailedAdvance(t)
  <2>1. t.gen \in Gen
    BY <1>14 DEF FailedAdvance, At, TypeOK, WellFormed
  <2>2. row' \in [Page -> Row]
    BY <1>14, AdvancedType DEF FailedAdvance, Advance, TypeOK
  <2>3. WellFormed(Others(t) \cup Archived(t))
    BY ErroredType, OthersType DEF TypeOK
  <2>4. WellFormed(tasks')
    BY <1>14, <2>1, <2>3, NewTasksType, EnqueueType DEF FailedAdvance, TypeOK
  <2> QED
    BY <1>14, <2>2, <2>4 DEF FailedAdvance, TypeOK
<1>15. CASE OcrStart(t)
  <2>1. WellFormed(tasks') /\ used' \in Used
    BY <1>15, <1>E, GotoType, AckType DEF OcrStart, Steps
  <2> QED
    BY <1>15, <2>1 DEF OcrStart, TypeOK
<1>16. CASE OcrSave(t)
  <2>1. t.gen \in Gen
    BY <1>16 DEF OcrSave, At, TypeOK, WellFormed
  <2>2. row' \in [Page -> Row]
    BY <1>16 DEF OcrSave, SetPage, TypeOK, Row, PageStatus
  <2>3. WellFormed(tasks') /\ used' \in Used
    BY <1>16, <1>E, GotoType, AckType DEF OcrSave, Steps
  <2> QED
    BY <1>16, <2>1, <2>2, <2>3 DEF OcrSave, TypeOK
<1>17. CASE OcrRetry(t)
  <2>1. WellFormed(tasks') /\ used' \in Used
    BY <1>17, ErrorType DEF OcrRetry
  <2> QED
    BY <1>17, <2>1 DEF OcrRetry, TypeOK
<1>18. CASE OcrFail(t)
  <2>1. row' \in [Page -> Row]
    BY <1>18 DEF OcrFail, SetPage, TypeOK, Row, PageStatus
  <2>2. WellFormed(tasks') /\ used' \in Used
    BY <1>18, GotoType DEF OcrFail, Steps
  <2> QED
    BY <1>18, <2>1, <2>2 DEF OcrFail, TypeOK
<1>19. CASE OcrCount(t)
  <2>1. doc' \in Doc
    BY <1>19, CountPageType DEF OcrCount, TypeOK
  <2>2. WellFormed(tasks') /\ used' \in Used
    BY <1>19, GotoType, ErrorType DEF OcrCount, Steps
  <2> QED
    BY <1>19, <2>1, <2>2 DEF OcrCount, TypeOK
<1>20. CASE OcrCountFailed(t)
  <2>1. doc' \in Doc
    BY <1>20, CountPageType DEF OcrCountFailed, TypeOK
  <2>2. WellFormed(tasks') /\ used' \in Used
    BY <1>20, GotoType DEF OcrCountFailed, Steps
  <2> QED
    BY <1>20, <2>1, <2>2 DEF OcrCountFailed, TypeOK
<1>21. CASE AssembleStart(t)
  <2>1. [doc EXCEPT !.status = "assembling"] \in Doc
    BY DEF TypeOK, Doc, DocStatus
  <2>2. doc' \in Doc
    BY <1>21, <2>1, UpdateType DEF AssembleStart, TypeOK
  <2>3. WellFormed(tasks') /\ used' \in Used
    BY <1>21, GotoType DEF AssembleStart, Steps
  <2> QED
    BY <1>21, <2>2, <2>3 DEF AssembleStart, TypeOK
<1>22. CASE AssembleDecide(t)
  <2> DEFINE new == [doc EXCEPT !.status = "indexing", !.parse = IF doc.failed > 0 THEN "partial" ELSE "done"]
  <2>1. t.gen \in Gen
    BY <1>22 DEF AssembleDecide, At, TypeOK, WellFormed
  <2>2. new \in Doc
    BY DEF TypeOK, Doc, DocStatus, Stage
  <2>3. doc' \in Doc
    BY <1>22, <2>2, UpdateType, FailDocType DEF AssembleDecide, TypeOK
  <2>4. WellFormed(tasks') /\ used' \in Used
    BY <1>22, GotoType, ErrorType DEF AssembleDecide, Steps
  <2> QED
    BY <1>22, <2>1, <2>3, <2>4 DEF AssembleDecide, TypeOK
<1>23. CASE AssembleHandover(t)
  <2>1. t.gen \in Gen /\ t.gen \in 0..MaxGen /\ 0 \in 0..MaxHk
    BY <1>23 DEF AssembleHandover, At, TypeOK, WellFormed, Gen
  <2>2. WellFormed({DocTask("index", t.gen, 0)}) /\ WellFormed({DocTask("gencleanup", t.gen, 0)})
    BY <2>1, DocTaskType DEF TaskTypes
  <2>3. WellFormed({DocTask("index", t.gen, 0)} \cup IF t.gen > 1 THEN {DocTask("gencleanup", t.gen, 0)} ELSE {})
    BY <2>2 DEF WellFormed
  <2>4. WellFormed(tasks') /\ used' \in Used
    BY <1>23, <2>3, AckType DEF AssembleHandover
  <2> QED
    BY <1>23, <2>4 DEF AssembleHandover, TypeOK
<1>24. CASE IndexBuild(t)
  <2>1. t.gen \in Gen /\ t.gen \in 0..MaxGen /\ 0 \in 0..MaxHk
    BY <1>24 DEF IndexBuild, Starts, At, TypeOK, WellFormed, Gen
  <2>2. WellFormed({DocTask("tree", t.gen, 0)})
    BY <2>1, DocTaskType DEF TaskTypes
  <2>3. WellFormed(tasks') /\ used' \in Used
    BY <1>24, <2>2, AckType DEF IndexBuild
  <2> QED
    BY <1>24, <2>3 DEF IndexBuild, TypeOK
<1>25. CASE TreeStart(t)
  <2>1. WellFormed(tasks') /\ used' \in Used
    BY <1>25, GotoType DEF TreeStart, Steps
  <2> QED
    BY <1>25, <2>1 DEF TreeStart, TypeOK
<1>26. CASE TreeSettle(t)
  <2> DEFINE new == [doc EXCEPT !.status = IF doc.parse = "partial" THEN "partial" ELSE "completed"]
  <2>1. new \in Doc
    BY DEF TypeOK, Doc, DocStatus
  <2>2. doc' \in Doc
    BY <1>26, <2>1, UpdateType DEF TreeSettle, TypeOK
  <2>3. WellFormed(tasks') /\ used' \in Used
    BY <1>26, <1>E, AckType, ErrorType DEF TreeSettle
  <2> QED
    BY <1>26, <2>2, <2>3 DEF TreeSettle, TypeOK
<1>27. CASE IndexFails(t)
  <2>1. [doc EXCEPT !.status = "failed"] \in Doc
    BY DEF TypeOK, Doc, DocStatus
  <2>2. doc' \in Doc
    BY <1>27, <2>1, UpdateType DEF IndexFails, TypeOK
  <2>3. WellFormed(tasks') /\ used' \in Used
    BY <1>27, ErrorType DEF IndexFails
  <2> QED
    BY <1>27, <2>2, <2>3 DEF IndexFails, TypeOK
<1>28. CASE GenCleanup(t)
  <2>1. WellFormed(tasks') /\ used' \in Used
    BY <1>28, <1>E, AckType DEF GenCleanup
  <2> QED
    BY <1>28, <2>1 DEF GenCleanup, TypeOK
<1>29. CASE DeleteObjects(t)
  <2>1. WellFormed(tasks') /\ used' \in Used
    BY <1>29, <1>E, GotoType, AckType DEF DeleteObjects, Steps
  <2> QED
    BY <1>29, <2>1 DEF DeleteObjects, TypeOK
<1>30. CASE DeletePurge(t)
  <2>1. doc' \in Doc
    BY <1>30 DEF DeletePurge, TypeOK, Doc
  <2>2. NoRow \in Row
    BY DEF NoRow, Row, PageStatus
  <2>3. row' \in [Page -> Row]
    BY <1>30, <2>2 DEF DeletePurge
  <2>4. WellFormed(tasks') /\ used' \in Used
    BY <1>30, <1>E, AckType DEF DeletePurge
  <2> QED
    BY <1>30, <2>1, <2>3, <2>4 DEF DeletePurge, TypeOK
<1>31. CASE Crash(t)
  <2>1. WellFormed(tasks') /\ used' \in Used
    BY <1>31, ErroredType, OthersType, SpendType DEF Crash, TypeOK
  <2> QED
    BY <1>31, <2>1 DEF Crash, TypeOK
<1>32. CASE StrayPickup(t)
  <2>1. WellFormed(tasks') /\ used' \in Used
    BY <1>32, <1>E, OthersType, SpendType DEF StrayPickup, TypeOK
  <2> QED
    BY <1>32, <2>1 DEF StrayPickup, TypeOK
<1> QED
  BY <1>1, <1>2, <1>3, <1>4, <1>5, <1>6, <1>7, <1>8, <1>9, <1>10, <1>11, <1>12, <1>13, <1>14, <1>15, <1>16, <1>17, <1>18, <1>19, <1>20, <1>21, <1>22, <1>23, <1>24, <1>25, <1>26, <1>27, <1>28, <1>29, <1>30, <1>31, <1>32 DEF Work

LEMMA HousekeepingType ==
    ASSUME TypeOK, Housekeeping
    PROVE  TypeOK'
<1> USE SizeAssumption
<1>1. ASSUME NEW dead, Presume(dead) PROVE used' \in Used
  BY <1>1, SpendType DEF Presume, TypeOK
<1>2. ASSUME NEW p \in Page, HkReset(p) PROVE TypeOK'
  <2>1. row' \in [Page -> Row]
    BY <1>2 DEF HkReset, TypeOK, Row, PageStatus
  <2> QED
    BY <1>1, <1>2, <2>1 DEF HkReset, TypeOK
<1>3. CASE HkAdvance
  <2>1. doc.gen \in Gen /\ row' \in [Page -> Row]
    BY <1>3, AdvancedType DEF HkAdvance, Advance, TypeOK, Doc
  <2>2. WellFormed(tasks')
    BY <1>3, <2>1, NewTasksType, EnqueueType DEF HkAdvance, TypeOK
  <2>3. used' \in Used
    BY <1>1, <1>3 DEF HkAdvance, Stuck
  <2> QED
    BY <1>3, <2>1, <2>2, <2>3 DEF HkAdvance, TypeOK
<1>4. ASSUME NEW status, NEW typ \in {"split", "assemble", "index"}, NEW b \in 1..MaxHk, HkDispatch(status, typ, b)
      PROVE  TypeOK'
  <2>1. doc.gen \in Gen /\ doc.gen \in 0..MaxGen /\ b \in 0..MaxHk /\ typ \in TaskTypes
    BY <1>4 DEF TypeOK, Doc, Gen, TaskTypes
  <2>2. WellFormed(tasks')
    BY <1>4, <2>1, DocTaskType, EnqueueType DEF HkDispatch, TypeOK
  <2>3. used' \in Used
    BY <1>1, <1>4 DEF HkDispatch, Stuck
  <2> QED
    BY <1>4, <2>2, <2>3 DEF HkDispatch, TypeOK
<1>5. ASSUME NEW b \in 1..MaxHk, HkDelete(b) PROVE TypeOK'
  <2>1. "delete" \in TaskTypes /\ b \in 0..MaxHk /\ 0 \in 0..MaxGen
    BY DEF TaskTypes
  <2>2. WellFormed(tasks')
    BY <1>5, <2>1, DocTaskType, EnqueueType DEF HkDelete, TypeOK
  <2> QED
    BY <1>5, <2>2 DEF HkDelete, TypeOK
<1> QED
  BY <1>2, <1>3, <1>4, <1>5 DEF Housekeeping

LEMMA OpenType ==
    ASSUME TypeOK, NEW op, NEW g \in Gen, NEW P \in SUBSET Page,
           NEW pc \in {"write", "enqueue", "reset"}, Open(op, g, P, pc)
    PROVE  reqs' \subseteq Reqs /\ used' \in Used
<1> USE SizeAssumption
<1>1. op \in {"cancel", "delete", "reparse", "pages"}
  BY KindAssumption DEF Open
<1>2. used.req + 1 \in Nat
  BY DEF TypeOK, Used
<1>3. Request(op, g, P, pc) \in Reqs
  BY <1>1, <1>2 DEF Request, Reqs
<1> QED
  BY <1>3, SpendType DEF Open, TypeOK

LEMMA AskType ==
    ASSUME TypeOK, Ask
    PROVE  TypeOK'
<1> USE SizeAssumption
<1>1. doc.gen \in Gen
  BY DEF TypeOK, Doc
<1>2. CASE CancelCheck
  BY <1>1, <1>2, OpenType DEF CancelCheck, TypeOK
<1>3. CASE DeleteMark
  <2>1. doc' \in Doc
    BY <1>3 DEF DeleteMark, TypeOK, Doc, DocStatus
  <2> QED
    BY <1>1, <1>3, <2>1, OpenType DEF DeleteMark, TypeOK
<1>4. CASE ReparseBump
  <2>1. doc.gen + 1 \in Gen
    BY <1>1, <1>4 DEF ReparseBump, Gen
  <2>2. 0 \in 0..N
    OBVIOUS
  <2>3. doc' \in Doc
    BY <1>4, <2>1, <2>2 DEF ReparseBump, TypeOK, Doc, DocStatus, Stage
  <2> QED
    BY <1>4, <2>1, <2>3, OpenType DEF ReparseBump, TypeOK
<1>5. ASSUME NEW P \in SUBSET Page, PagesCheck(P) PROVE TypeOK'
  BY <1>1, <1>5, OpenType DEF PagesCheck, TypeOK
<1> QED
  BY <1>2, <1>3, <1>4, <1>5 DEF Ask

LEMMA ServeType ==
    ASSUME TypeOK, NEW r \in reqs, ServeStep(r) \/ RequestDies(r)
    PROVE  TypeOK'
<1> USE SizeAssumption
<1>1. r \in Reqs /\ r.gen \in Gen
  BY DEF TypeOK, Reqs
<1>2. Close(r) => reqs' \subseteq Reqs
  BY DEF Close, TypeOK
<1>3. ASSUME NEW pc \in {"pick", "parse", "advance"}, Serve(r, pc) PROVE reqs' \subseteq Reqs
  BY <1>1, <1>3 DEF Serve, TypeOK, Reqs
<1>4. CASE CancelWrite(r)
  <2>1. doc' \in Doc
    BY <1>4 DEF CancelWrite, TypeOK, Doc, DocStatus
  <2> QED
    BY <1>2, <1>4, <2>1 DEF CancelWrite, TypeOK
<1>5. CASE DeleteEnqueue(r)
  <2>1. WellFormed({DocTask("delete", 0, 0)})
    BY DocTaskType DEF TaskTypes
  <2>2. WellFormed(tasks')
    BY <1>5, <2>1, EnqueueType DEF DeleteEnqueue, TypeOK
  <2> QED
    BY <1>2, <1>5, <2>2 DEF DeleteEnqueue, TypeOK
<1>6. CASE ReparseEnqueue(r)
  <2>1. WellFormed({DocTask("split", r.gen, 0)})
    BY <1>1, DocTaskType DEF TaskTypes, Gen
  <2>2. WellFormed(tasks')
    BY <1>6, <2>1, EnqueueType DEF ReparseEnqueue, TypeOK
  <2> QED
    BY <1>2, <1>6, <2>2 DEF ReparseEnqueue, TypeOK
<1>7. CASE PagesReset(r)
  <2> DEFINE hit == {p \in r.pages : row[p].gen = r.gen}
             was(s) == Cardinality({p \in hit : row[p].st = s})
             q == [r EXCEPT !.pc = "adjust", !.done = was("done"), !.failed = was("failed")]
  <2>1. row' \in [Page -> Row]
    BY <1>7 DEF PagesReset, TypeOK, Row, PageStatus
  <2>2. was("done") \in Nat /\ was("failed") \in Nat
    <3>1. hit \subseteq Page
      BY <1>1 DEF Reqs
    <3> QED
      BY <3>1, PagesFinite
  <2>3. q \in Reqs
    BY <1>1, <2>2 DEF Reqs
  <2>4. reqs' = (reqs \ {r}) \cup {q}
    BY <1>7 DEF PagesReset
  <2> QED
    BY <1>7, <2>1, <2>3, <2>4 DEF PagesReset, TypeOK
<1>8. CASE PagesAdjust(r)
  <2>1. \A a, b \in Nat : Minus(a, b) \in Nat
    BY DEF Minus
  <2>2. Minus(doc.done, r.done) \in Nat /\ Minus(doc.failed, r.failed) \in Nat
    BY <1>1, <2>1 DEF TypeOK, Doc, Reqs
  <2>3. doc' \in Doc
    BY <1>8, <2>2 DEF PagesAdjust, TypeOK, Doc
  <2> QED
    BY <1>3, <1>8, <2>3 DEF PagesAdjust, TypeOK
<1>9. CASE PagesPick(r)
  <2>1. Cardinality(Rows(r.gen, "skipped")) \in 0..N
    BY PagesFinite DEF Rows
  <2>2. doc' \in Doc
    BY <1>9, <2>1 DEF PagesPick, TypeOK, Doc
  <2> QED
    BY <1>3, <1>9, <2>2 DEF PagesPick, TypeOK
<1>10. CASE PagesParse(r)
  <2>1. [doc EXCEPT !.status = "parsing", !.parse = "processing"] \in Doc
    BY DEF TypeOK, Doc, DocStatus, Stage
  <2>2. doc' \in Doc
    BY <1>10, <2>1, UpdateType DEF PagesParse, TypeOK
  <2> QED
    BY <1>3, <1>10, <2>2 DEF PagesParse, TypeOK
<1>11. CASE PagesAdvance(r)
  <2>1. row' \in [Page -> Row]
    BY <1>11, AdvancedType DEF PagesAdvance, Advance, TypeOK
  <2>2. WellFormed(tasks')
    BY <1>1, <1>11, NewTasksType, EnqueueType DEF PagesAdvance, TypeOK
  <2> QED
    BY <1>2, <1>11, <2>1, <2>2 DEF PagesAdvance, TypeOK
<1>12. CASE RequestDies(r)
  BY <1>2, <1>12, SpendType DEF RequestDies, TypeOK
<1> QED
  BY <1>4, <1>5, <1>6, <1>7, <1>8, <1>9, <1>10, <1>11, <1>12 DEF ServeStep

-----------------------------------------------------------------------------
(* Type correctness, one step per action.                                  *)

LEMMA TypeInit == Init => TypeOK
<1> USE SizeAssumption
<1> SUFFICES ASSUME Init PROVE TypeOK
  OBVIOUS
<1>1. doc \in Doc
  BY KindAssumption DEF Init, Doc, DocStatus, Stage, Gen
<1>2. row \in [Page -> Row]
  BY DEF Init, Row, NoRow, PageStatus
<1>3. WellFormed(tasks)
  <2>1. 1 \in 0..MaxGen /\ 1 \in Gen /\ 0 \in 0..MaxHk
    BY DEF Gen
  <2>2. WellFormed({DocTask("split", 1, 0)}) /\ WellFormed({})
    BY <2>1, DocTaskType DEF TaskTypes, WellFormed
  <2> QED
    BY <2>2 DEF Init
<1>4. reqs \subseteq Reqs /\ blobs \subseteq Gen /\ used \in Used
  BY DEF Init, Used
<1> QED
  BY <1>1, <1>2, <1>3, <1>4 DEF TypeOK

LEMMA TypeStep == TypeOK /\ [Next]_vars => TypeOK'
<1> SUFFICES ASSUME TypeOK, [Next]_vars PROVE TypeOK'
  OBVIOUS
<1>1. CASE WorkStep
  BY <1>1, WorkType DEF WorkStep
<1>2. CASE \E t \in tasks : Crash(t) \/ StrayPickup(t)
  BY <1>2, WorkType
<1>3. CASE Housekeeping
  BY <1>3, HousekeepingType
<1>4. CASE Ask
  BY <1>4, AskType
<1>5. CASE \E r \in reqs : ServeStep(r) \/ RequestDies(r)
  BY <1>5, ServeType
<1>6. CASE UNCHANGED vars
  BY <1>6 DEF vars, TypeOK
<1> QED
  BY <1>1, <1>2, <1>3, <1>4, <1>5, <1>6 DEF Next

(* Every variable of the pipeline stays in its type.                       *)
THEOREM TypeCorrect == Spec => []TypeOK
BY TypeInit, TypeStep, PTL DEF Spec

-----------------------------------------------------------------------------
(* What the steps may do to the document_pages rows: the generations never *)
(* mix, no row outlives its document, and the OCR and render windows hold  *)
(* whatever finishers, retries, crashes, housekeeping and users do.        *)

Busy == {"ocr", "rendering"}

(* A step that starts no page: what is in OCR or being rendered after it   *)
(* was so before.                                                          *)
StartsNone ==
    \A p \in Page : row'[p].st \in Busy => row'[p].st = row[p].st /\ row'[p].gen = row[p].gen

(* A step that leaves every row in its generation, or puts them all in one *)
(* that a task works for (or in none).                                     *)
SameGen == \A p \in Page : row'[p].gen = row[p].gen
Known(g) == g = 0 \/ \E t \in tasks : t.gen = g
OneGenAfter == \E g : Known(g) /\ \A p \in Page : row'[p].gen = g

(* A row comes into being only while its document exists; the rows go with *)
(* the document.                                                           *)
NoNewRow == \A p \in Page : row[p] = NoRow => row'[p] = NoRow
RowsFollowDoc ==
    /\ doc'.exists => doc.exists
    /\ ~doc.exists => NoNewRow
    /\ doc.exists /\ ~doc'.exists => \A p \in Page : row'[p] = NoRow

-----------------------------------------------------------------------------
(* Advance.                                                                *)

LEMMA AdvanceRows ==
    ASSUME row \in [Page -> Row], NEW g \in Gen, Advance(g)
    PROVE  /\ SameGen /\ NoNewRow
           /\ Rows(g, "ocr")' = Rows(g, "ocr") \cup OcrClaims(g)
           /\ Rows(g, "rendering")' = Rows(g, "rendering") \cup RenderClaims(g)
           /\ \A h \in Gen \ {g} : /\ Rows(h, "ocr")' = Rows(h, "ocr")
                                   /\ Rows(h, "rendering")' = Rows(h, "rendering")
<1>1. /\ OcrClaims(g) \subseteq Page /\ RenderClaims(g) \subseteq Page
      /\ \A p \in OcrClaims(g) : row[p].gen = g /\ row[p].st = "rendered"
      /\ \A p \in RenderClaims(g) : row[p].gen = g /\ row[p].st = "pending"
  BY DEF OcrClaims, RenderClaims, Rows
<1>2. \A p \in Page :
         /\ row[p].gen = row'[p].gen
         /\ p \in OcrClaims(g) => row'[p].st = "ocr"
         /\ p \in RenderClaims(g) => row'[p].st = "rendering"
         /\ p \notin OcrClaims(g) \cup RenderClaims(g) => row'[p] = row[p]
  BY <1>1 DEF Advance, Advanced, Claim, Row
<1>3. NoNewRow
  <2>1. NoRow.st = "absent"
    BY DEF NoRow
  <2> QED
    BY <1>1, <1>2, <2>1 DEF NoNewRow
<1>4. /\ Rows(g, "ocr")' = Rows(g, "ocr") \cup OcrClaims(g)
      /\ Rows(g, "rendering")' = Rows(g, "rendering") \cup RenderClaims(g)
  BY <1>1, <1>2 DEF Rows
<1>5. ASSUME NEW h \in Gen \ {g}
      PROVE  Rows(h, "ocr")' = Rows(h, "ocr") /\ Rows(h, "rendering")' = Rows(h, "rendering")
  BY <1>1, <1>2 DEF Rows
<1> QED
  BY <1>2, <1>3, <1>4, <1>5 DEF SameGen

(* However many pages are in OCR, Advance leaves at most the window.       *)
LEMMA OcrBound ==
    ASSUME row \in [Page -> Row], NEW g \in Gen, Cardinality(Rows(g, "ocr")) <= OcrInflight
    PROVE  Cardinality(Rows(g, "ocr") \cup OcrClaims(g)) <= OcrInflight
<1> DEFINE c == Cardinality(Rows(g, "ocr"))
           n == OcrInflight - c
<1>1. Rows(g, "ocr") \in SUBSET Page /\ Rows(g, "rendered") \in SUBSET Page /\ OcrClaims(g) \in SUBSET Page
  BY DEF OcrClaims, Rows
<1>2. c \in Nat /\ n \in Int /\ n >= 0
  BY <1>1, PagesFinite, SizeAssumption
<1>3. OcrClaims(g) = {p \in Rows(g, "rendered") : Rank(p, Rows(g, "rendered")) < n}
  BY DEF OcrClaims
<1>4. Cardinality(OcrClaims(g)) <= IF n > 0 THEN n ELSE 0
  BY <1>1, <1>2, <1>3, FirstPages
<1>5. Cardinality(Rows(g, "ocr") \cup OcrClaims(g)) <= c + Cardinality(OcrClaims(g))
  BY <1>1, UnionCount
<1>6. Cardinality(OcrClaims(g)) \in Nat /\ Cardinality(Rows(g, "ocr") \cup OcrClaims(g)) \in Nat
  BY <1>1, PagesFinite
<1> HIDE DEF c, n
<1>7. n = OcrInflight - c
  BY DEF n
<1> QED
  BY <1>2, <1>4, <1>5, <1>6, <1>7, SizeAssumption DEF c

(* Rounding up: the batches counted as in flight hold all pages that are.  *)
LEMMA RoundUp ==
    ASSUME NEW c \in Nat, NEW b \in Nat \ {0}
    PROVE  (c + b - 1) \div b \in Nat /\ ((c + b - 1) \div b) * b >= c
<1> DEFINE q == (c + b - 1) \div b
           m == (c + b - 1) % b
<1>1. q \in Int /\ m \in 0..(b - 1)
  OBVIOUS
<1>2. c + b - 1 = b * q + m
  OBVIOUS
<1>3. q * b >= c /\ q >= 0
  BY <1>1, <1>2
<1> QED
  BY <1>1, <1>3

LEMMA RoomLeft ==
    ASSUME NEW r \in Nat, NEW q \in Nat, NEW b \in Nat, NEW c \in Nat, q * b >= c
    PROVE  (r - q) * b \in Int /\ c + (r - q) * b <= r * b /\ r * b \in Nat
OBVIOUS

LEMMA RenderBound ==
    ASSUME row \in [Page -> Row], NEW g \in Gen,
           Cardinality(Rows(g, "rendering")) <= RenderInflight * Batch
    PROVE  Cardinality(Rows(g, "rendering") \cup RenderClaims(g)) <= RenderInflight * Batch
<1> DEFINE c == Cardinality(Rows(g, "rendering"))
           n == (RenderInflight - BatchesInflight(g)) * Batch
           first == {p \in Rows(g, "pending") : Rank(p, Rows(g, "pending")) < n}
<1>1. /\ Rows(g, "rendering") \in SUBSET Page /\ Rows(g, "pending") \in SUBSET Page
      /\ RenderClaims(g) \in SUBSET Page /\ first \in SUBSET Page /\ RenderClaims(g) \in SUBSET first
  BY DEF RenderClaims, Rows
<1>2. c \in Nat
  BY <1>1, PagesFinite
<1>3. BatchesInflight(g) \in Nat /\ BatchesInflight(g) * Batch >= c
  BY <1>2, RoundUp, SizeAssumption DEF BatchesInflight
<1>4. n \in Int /\ c + n <= RenderInflight * Batch /\ RenderInflight * Batch \in Nat
  BY <1>2, <1>3, RoomLeft, SizeAssumption
<1>5. Cardinality(first) <= IF n > 0 THEN n ELSE 0
  BY <1>1, <1>4, FirstPages
<1>6. Cardinality(RenderClaims(g)) <= Cardinality(first)
  BY <1>1, SubsetCount
<1>7. Cardinality(Rows(g, "rendering") \cup RenderClaims(g)) <= c + Cardinality(RenderClaims(g))
  BY <1>1, UnionCount
<1>8. /\ Cardinality(RenderClaims(g)) \in Nat /\ Cardinality(first) \in Nat
      /\ Cardinality(Rows(g, "rendering") \cup RenderClaims(g)) \in Nat
  BY <1>1, PagesFinite
<1>9. c <= RenderInflight * Batch
  OBVIOUS
<1> HIDE DEF c, n, first
<1> QED
  BY <1>2, <1>4, <1>5, <1>6, <1>7, <1>8, <1>9

-----------------------------------------------------------------------------
(* The steps that are not an Advance.                                      *)

Calm == StartsNone /\ (SameGen \/ OneGenAfter) /\ RowsFollowDoc

LEMMA RowsKept ==
    ASSUME UNCHANGED row, doc'.exists = doc.exists
    PROVE  Calm
BY DEF Calm, StartsNone, SameGen, RowsFollowDoc, NoNewRow

(* One row changes its status, to one that is not busy.                    *)
LEMMA OneRowChanged ==
    ASSUME row \in [Page -> Row], row' \in [Page -> Row], NEW p \in Page, doc'.exists = doc.exists,
           row'[p].gen = row[p].gen, row'[p].st \notin Busy, row[p].st # "absent" \/ row[p].gen # 0,
           \A q \in Page \ {p} : row'[q] = row[q]
    PROVE  Calm
<1>1. StartsNone /\ SameGen
  BY DEF StartsNone, SameGen
<1>2. row[p] # NoRow
  BY DEF NoRow
<1>3. RowsFollowDoc
  BY <1>2 DEF RowsFollowDoc, NoNewRow
<1> QED
  BY <1>1, <1>3 DEF Calm

LEMMA SetPageCalm ==
    ASSUME TypeOK, NEW p, NEW g \in Gen, NEW s \in PageStatus \ Busy, SetPage(p, g, s),
           doc'.exists = doc.exists
    PROVE  Calm
<1>1. CASE row[p].gen = g /\ p \in Page
  <2>1. row' \in [Page -> Row] /\ row'[p].gen = row[p].gen /\ row'[p].st = s
    BY <1>1 DEF SetPage, TypeOK, Row
  <2>2. \A q \in Page \ {p} : row'[q] = row[q]
    BY <1>1 DEF SetPage, TypeOK
  <2>3. row[p].gen # 0
    BY <1>1, SizeAssumption DEF Gen
  <2> QED
    BY <1>1, <2>1, <2>2, <2>3, OneRowChanged DEF TypeOK
<1>2. CASE row[p].gen # g \/ p \notin Page
  <2>1. UNCHANGED row
    BY <1>2 DEF SetPage, TypeOK
  <2> QED
    BY <2>1, RowsKept
<1> QED
  BY <1>1, <1>2

LEMMA UpdateExists ==
    ASSUME NEW g, NEW new, new.exists = doc.exists, Update(g, new)
    PROVE  doc'.exists = doc.exists
BY DEF Update

LEMMA DocExists ==
    ASSUME doc \in Doc, NEW g
    PROVE  /\ FailDoc(g) => doc'.exists = doc.exists
           /\ \A c \in {"done", "failed"} : CountPage(g, c) => doc'.exists = doc.exists
BY DEF Doc, FailDoc, Update, CountPage

(* The handlers' steps.                                                    *)
LEMMA WorkRows ==
    ASSUME TypeOK, NEW t \in tasks, Work(t)
    PROVE  (\E g \in Gen : Advance(g) /\ UNCHANGED doc) \/ Calm
<1> USE SizeAssumption
<1>1. t \in Tasks /\ (t.typ # "delete" => t.gen \in Gen) /\ doc \in Doc
  BY DEF TypeOK, WellFormed
<1>2. ASSUME LastAdvance(t) \/ RenderAdvance(t) \/ FailedAdvance(t) PROVE \E g \in Gen : Advance(g) /\ UNCHANGED doc
  BY <1>1, <1>2 DEF LastAdvance, RenderAdvance, FailedAdvance, At
<1>3. CASE SplitInit(t)
  <2>1. CASE RowsAllowed
    <3>1. PICK s \in {"pending", "skipped"} : row' = FreshRows(t.gen, s)
      BY <1>3, <2>1 DEF SplitInit
    <3>2. \A p \in Page : row'[p].gen = t.gen /\ row'[p].st = s
      BY <3>1 DEF FreshRows
    <3>3. doc'.exists = doc.exists /\ doc.exists
      BY <1>3, <2>1 DEF SplitInit, RowsAllowed
    <3>4. OneGenAfter
      BY <3>2 DEF OneGenAfter, Known
    <3> QED
      BY <3>2, <3>3, <3>4 DEF Calm, StartsNone, RowsFollowDoc, Busy
  <2>2. CASE ~RowsAllowed
    BY <1>3, <2>2, RowsKept DEF SplitInit
  <2> QED
    BY <2>1, <2>2
<1>4. CASE RenderEmit(t)
  <2>1. t.gen \in Gen /\ doc'.exists = doc.exists
    BY <1>1, <1>4 DEF RenderEmit, At
  <2> DEFINE p == Least(t.left)
  <2>2. CASE row[p].gen # t.gen \/ p \notin Page
    <3>1. UNCHANGED row
      BY <1>4, <2>2 DEF RenderEmit, TypeOK
    <3> QED
      BY <2>1, <3>1, RowsKept
  <2>3. CASE row[p].gen = t.gen /\ p \in Page
    <3>1. /\ row' \in [Page -> Row] /\ row'[p].gen = row[p].gen /\ row'[p].st = "rendered"
          /\ \A q \in Page \ {p} : row'[q] = row[q]
      BY <1>4, <2>3 DEF RenderEmit, TypeOK, Row, PageStatus
    <3>2. row[p].gen # 0
      BY <2>1, <2>3 DEF Gen
    <3> QED
      BY <2>1, <2>3, <3>1, <3>2, OneRowChanged DEF TypeOK, Busy
  <2> QED
    BY <2>2, <2>3
<1>5. CASE RenderGiveUp(t)
  <2>1. t.gen \in Gen /\ doc'.exists = doc.exists
    BY <1>1, <1>5 DEF RenderGiveUp, At
  <2>2. CASE UNCHANGED row
    BY <2>1, <2>2, RowsKept
  <2>3. CASE SetPage(Least(t.left), t.gen, "failed")
    BY <2>1, <2>3, SetPageCalm DEF PageStatus, Busy
  <2> QED
    BY <1>5, <2>2, <2>3 DEF RenderGiveUp
<1>6. CASE OcrSave(t)
  <2>1. SetPage(t.page, t.gen, "done") /\ t.gen \in Gen /\ doc'.exists = doc.exists
    BY <1>1, <1>6 DEF OcrSave, At
  <2> QED
    BY <2>1, SetPageCalm DEF PageStatus, Busy
<1>7. CASE OcrFail(t)
  <2>1. SetPage(t.page, t.gen, "failed") /\ t.gen \in Gen /\ doc'.exists = doc.exists
    BY <1>1, <1>7 DEF OcrFail, At
  <2> QED
    BY <2>1, SetPageCalm DEF PageStatus, Busy
<1>8. CASE DeletePurge(t)
  <2>1. \A p \in Page : row'[p] = NoRow
    BY <1>8 DEF DeletePurge
  <2>2. ~doc'.exists
    BY <1>1, <1>8 DEF DeletePurge, Doc
  <2>3. OneGenAfter
    BY <2>1 DEF OneGenAfter, Known, NoRow
  <2> QED
    BY <2>1, <2>2, <2>3 DEF Calm, StartsNone, RowsFollowDoc, NoNewRow, Busy, NoRow
<1>9. ASSUME UNCHANGED doc, UNCHANGED row PROVE Calm
  BY <1>9, RowsKept
<1>10. ASSUME Drop(t) \/ RenderStart(t) \/ RenderFails(t) \/ OcrStart(t) \/ OcrRetry(t) \/ AssembleHandover(t)
              \/ IndexBuild(t) \/ TreeStart(t) \/ GenCleanup(t) \/ DeleteObjects(t)
       PROVE Calm
  BY <1>9, <1>10 DEF Drop, RenderStart, RenderFails, OcrStart, OcrRetry, AssembleHandover, IndexBuild,
                     TreeStart, GenCleanup, DeleteObjects
<1>11. ASSUME UNCHANGED row, NEW g, NEW new, Update(g, new), new.exists = doc.exists PROVE Calm
  BY <1>11, UpdateExists, RowsKept
<1>12. CASE SplitStart(t) \/ SplitReady(t) \/ SplitHeld(t) \/ AssembleStart(t)
  BY <1>1, <1>11, <1>12 DEF SplitStart, SplitReady, SplitHeld, AssembleStart, Doc
<1>13. CASE TreeSettle(t) \/ IndexFails(t)
  BY <1>1, <1>9, <1>11, <1>13 DEF TreeSettle, IndexFails, Doc
<1>14. CASE SplitProbeFails(t) \/ RenderCount(t) \/ OcrCount(t) \/ OcrCountFailed(t)
  BY <1>1, <1>9, <1>14, DocExists, RowsKept DEF SplitProbeFails, RenderCount, OcrCount, OcrCountFailed
<1>15. CASE AssembleDecide(t)
  <2>1. UNCHANGED row /\ doc'.exists = doc.exists
    BY <1>1, <1>15, DocExists, UpdateExists DEF AssembleDecide, Doc
  <2> QED
    BY <2>1, RowsKept
<1> QED
  BY <1>2, <1>3, <1>4, <1>5, <1>6, <1>7, <1>8, <1>10, <1>12, <1>13, <1>14, <1>15 DEF Work

(* What else changes rows: housekeeping and the page requests.             *)
LEMMA OtherRows ==
    ASSUME TypeOK, Housekeeping \/ Ask \/ (\E r \in reqs : ServeStep(r) \/ RequestDies(r))
    PROVE  (\E g \in Gen : Advance(g) /\ UNCHANGED doc) \/ Calm
<1>1. doc \in Doc /\ doc.gen \in Gen
  BY DEF TypeOK, Doc
<1>2. ASSUME HkAdvance PROVE \E g \in Gen : Advance(g) /\ UNCHANGED doc
  BY <1>1, <1>2 DEF HkAdvance
<1>3. ASSUME NEW p \in Page, HkReset(p) PROVE Calm
  <2> DEFINE s == IF row[p].st = "ocr" THEN "rendered" ELSE "pending"
  <2>1. row' = [row EXCEPT ![p].st = s] /\ row[p].st # "absent" /\ UNCHANGED doc
    BY <1>3 DEF HkReset
  <2>2. /\ row' \in [Page -> Row] /\ row'[p].gen = row[p].gen /\ row'[p].st = s
        /\ \A q \in Page \ {p} : row'[q] = row[q]
    BY <2>1 DEF TypeOK, Row, PageStatus
  <2> QED
    BY <2>1, <2>2, OneRowChanged DEF TypeOK, Busy
<1>4. ASSUME NEW r \in reqs, PagesReset(r) PROVE Calm
  <2>1. r.gen \in Gen /\ r.gen # 0
    BY SizeAssumption DEF TypeOK, Reqs, Gen
  <2>2. \A p \in Page :
           /\ row'[p].gen = row[p].gen
           /\ row[p].gen # r.gen => row'[p] = row[p]
           /\ row'[p] = row[p] \/ row'[p].st \in {"rendered", "pending"}
    BY <1>4 DEF PagesReset, TypeOK, Row
  <2>3. NoNewRow
    <3>1. NoRow.gen = 0
      BY DEF NoRow
    <3> QED
      BY <2>1, <2>2, <3>1 DEF NoNewRow
  <2>4. StartsNone /\ SameGen
    BY <2>2 DEF StartsNone, SameGen, Busy
  <2>5. UNCHANGED doc
    BY <1>4 DEF PagesReset
  <2> QED
    BY <2>3, <2>4, <2>5 DEF Calm, RowsFollowDoc
<1>5. ASSUME NEW r \in reqs, PagesAdvance(r) PROVE \E g \in Gen : Advance(g) /\ UNCHANGED doc
  BY <1>5 DEF PagesAdvance, TypeOK, Reqs
<1>6. ASSUME UNCHANGED row, doc'.exists = doc.exists PROVE Calm
  BY <1>6, RowsKept
<1>7. CASE Ask
  <2>1. UNCHANGED row /\ doc'.exists = doc.exists
    BY <1>1, <1>7 DEF Ask, CancelCheck, DeleteMark, ReparseBump, PagesCheck, Doc
  <2> QED
    BY <2>1, <1>6
<1>8. ASSUME NEW r \in reqs,
             CancelWrite(r) \/ DeleteEnqueue(r) \/ ReparseEnqueue(r) \/ PagesAdjust(r) \/ PagesPick(r)
               \/ PagesParse(r) \/ RequestDies(r)
      PROVE  Calm
  <2>1. PagesParse(r) => doc'.exists = doc.exists
    BY <1>1, UpdateExists DEF PagesParse, Doc
  <2>2. UNCHANGED row /\ doc'.exists = doc.exists
    BY <1>1, <1>8, <2>1 DEF CancelWrite, DeleteEnqueue, ReparseEnqueue, PagesAdjust, PagesPick, PagesParse,
                            RequestDies, Doc
  <2> QED
    BY <2>2, <1>6
<1>9. ASSUME NEW status, NEW typ, NEW b, HkDispatch(status, typ, b) \/ HkDelete(b) PROVE Calm
  BY <1>6, <1>9 DEF HkDispatch, HkDelete
<1>10. CASE Housekeeping
  BY <1>2, <1>3, <1>9, <1>10 DEF Housekeeping
<1>11. CASE \E r \in reqs : ServeStep(r) \/ RequestDies(r)
  BY <1>4, <1>5, <1>8, <1>11 DEF ServeStep
<1> QED
  BY <1>7, <1>10, <1>11

LEMMA StepRows ==
    ASSUME TypeOK, [Next]_vars
    PROVE  (\E g \in Gen : Advance(g) /\ UNCHANGED doc) \/ Calm
<1>1. CASE WorkStep
  BY <1>1, WorkRows DEF WorkStep
<1>2. CASE \E t \in tasks : Crash(t) \/ StrayPickup(t)
  BY <1>2, RowsKept DEF Crash, StrayPickup
<1>3. CASE UNCHANGED vars
  BY <1>3, RowsKept DEF vars
<1> QED
  BY <1>1, <1>2, <1>3, OtherRows DEF Next

-----------------------------------------------------------------------------
(* Pages.Init is the only way from one generation of rows to another, and  *)
(* it takes all of them at once: whatever old tasks still run, a document  *)
(* never has rows of two generations.                                      *)
THEOREM GenerationsNeverMix == Spec => []OneGeneration
<1>1. Init => OneGeneration
  BY DEF Init, OneGeneration
<1>2. TypeOK /\ OneGeneration /\ [Next]_vars => OneGeneration'
  <2> SUFFICES ASSUME TypeOK, OneGeneration, [Next]_vars PROVE OneGeneration'
    OBVIOUS
  <2>1. SameGen \/ OneGenAfter
    BY StepRows, AdvanceRows DEF Calm, TypeOK
  <2> QED
    BY <2>1 DEF OneGeneration, SameGen, OneGenAfter
<1> QED
  BY <1>1, <1>2, TypeCorrect, PTL DEF Spec

(* A purged document stays purged: no finisher, split, housekeeping run or *)
(* page request that outlives it brings a row of it back.                  *)
THEOREM RowsDieWithDocument == Spec => []NoOrphanRows
<1>1. Init => NoOrphanRows
  BY DEF Init, NoOrphanRows
<1>2. TypeOK /\ NoOrphanRows /\ [Next]_vars => NoOrphanRows'
  <2> SUFFICES ASSUME TypeOK, NoOrphanRows, [Next]_vars PROVE NoOrphanRows'
    OBVIOUS
  <2>1. CASE Calm
    BY <2>1 DEF Calm, RowsFollowDoc, NoNewRow, NoOrphanRows
  <2>2. CASE \E g \in Gen : Advance(g) /\ UNCHANGED doc
    <3>1. NoNewRow
      BY <2>2, AdvanceRows DEF TypeOK
    <3> QED
      BY <2>2, <3>1 DEF NoNewRow, NoOrphanRows
  <2> QED
    BY <2>1, <2>2, StepRows
<1> QED
  BY <1>1, <1>2, TypeCorrect, PTL DEF Spec

(* The OCR window holds against every order of finishers, retries, worker  *)
(* deaths, housekeeping and page requests.                                 *)
THEOREM OcrWindowHolds == Spec => []OcrWindow
<1>1. Init => OcrWindow
  <2> SUFFICES ASSUME Init, NEW g \in Gen PROVE Cardinality(Rows(g, "ocr")) <= OcrInflight
    BY DEF OcrWindow
  <2>1. Rows(g, "ocr") = {}
    BY SizeAssumption DEF Init, Rows, NoRow, Gen
  <2> QED
    BY <2>1, FS_EmptySet, SizeAssumption
<1>2. TypeOK /\ OcrWindow /\ [Next]_vars => OcrWindow'
  <2> SUFFICES ASSUME TypeOK, OcrWindow, [Next]_vars, NEW h \in Gen
               PROVE  Cardinality(Rows(h, "ocr")') <= OcrInflight
    BY DEF OcrWindow
  <2>1. Cardinality(Rows(h, "ocr")) <= OcrInflight /\ Rows(h, "ocr") \in SUBSET Page
    BY DEF OcrWindow, Rows
  <2>2. CASE StartsNone
    <3>1. Rows(h, "ocr")' \in SUBSET Rows(h, "ocr")
      BY <2>2 DEF StartsNone, Busy, Rows
    <3> QED
      BY <2>1, <3>1, SubsetCount, PagesFinite, SizeAssumption
  <2>3. CASE \E g \in Gen : Advance(g)
    <3>1. PICK g \in Gen : Advance(g)
      BY <2>3
    <3>2. CASE g = h
      BY <2>1, <3>1, <3>2, AdvanceRows, OcrBound DEF TypeOK
    <3>3. CASE g # h
      BY <2>1, <3>1, <3>3, AdvanceRows DEF TypeOK
    <3> QED
      BY <3>2, <3>3
  <2> QED
    BY <2>2, <2>3, StepRows DEF Calm
<1> QED
  BY <1>1, <1>2, TypeCorrect, PTL DEF Spec

(* So does the render window, in pages.                                    *)
THEOREM RenderWindowHolds == Spec => []RenderWindow
<1>1. Init => RenderWindow
  <2> SUFFICES ASSUME Init, NEW g \in Gen PROVE Cardinality(Rows(g, "rendering")) <= RenderInflight * Batch
    BY DEF RenderWindow
  <2>1. Rows(g, "rendering") = {}
    BY SizeAssumption DEF Init, Rows, NoRow, Gen
  <2>2. RenderInflight * Batch >= 0
    BY SizeAssumption
  <2> QED
    BY <2>1, <2>2, FS_EmptySet
<1>2. TypeOK /\ RenderWindow /\ [Next]_vars => RenderWindow'
  <2> SUFFICES ASSUME TypeOK, RenderWindow, [Next]_vars, NEW h \in Gen
               PROVE  Cardinality(Rows(h, "rendering")') <= RenderInflight * Batch
    BY DEF RenderWindow
  <2>1. Cardinality(Rows(h, "rendering")) <= RenderInflight * Batch /\ Rows(h, "rendering") \in SUBSET Page
    BY DEF RenderWindow, Rows
  <2>2. CASE StartsNone
    <3>1. Rows(h, "rendering")' \in SUBSET Rows(h, "rendering")
      BY <2>2 DEF StartsNone, Busy, Rows
    <3>2. Cardinality(Rows(h, "rendering")') <= Cardinality(Rows(h, "rendering"))
      BY <2>1, <3>1, SubsetCount
    <3>3. Cardinality(Rows(h, "rendering")') \in Nat /\ Cardinality(Rows(h, "rendering")) \in Nat
      BY <2>1, <3>1, PagesFinite, SizeAssumption
    <3>4. RenderInflight * Batch \in Nat
      BY SizeAssumption
    <3> QED
      BY <2>1, <3>2, <3>3, <3>4
  <2>3. CASE \E g \in Gen : Advance(g)
    <3>1. PICK g \in Gen : Advance(g)
      BY <2>3
    <3>2. CASE g = h
      BY <2>1, <3>1, <3>2, AdvanceRows, RenderBound DEF TypeOK
    <3>3. CASE g # h
      BY <2>1, <3>1, <3>3, AdvanceRows DEF TypeOK
    <3> QED
      BY <3>2, <3>3
  <2> QED
    BY <2>2, <2>3, StepRows DEF Calm
<1> QED
  BY <1>1, <1>2, TypeCorrect, PTL DEF Spec

(* Both windows, whatever finishes at once, however stale housekeeping is. *)
THEOREM WindowsHold == Spec => []Windows
  BY OcrWindowHolds, RenderWindowHolds, PTL DEF Windows

(* The rows are those of one generation, and of a document that exists.    *)
THEOREM RowsBelongHere == Spec => []RowsBelong
  BY GenerationsNeverMix, RowsDieWithDocument, PTL DEF RowsBelong

-----------------------------------------------------------------------------
(* How a step changes the set of tasks: some task is taken out, it may go  *)
(* back changed, and new tasks are enqueued.                               *)

Kin(u, t) ==
    /\ u \in Tasks
    /\ u.typ = t.typ /\ u.gen = t.gen /\ u.page = t.page
    /\ u.att = t.att /\ u.hk = t.hk /\ u.pages = t.pages

Moves(X, R, new) ==
    /\ X \subseteq tasks /\ tasks' = Enqueue(new, (tasks \ X) \cup R)
    /\ \A u, v \in R : u = v
    /\ \A u \in R : \E t \in X : Kin(u, t)

(* What is enqueued together: queued tasks of one generation, told apart   *)
(* by their ids.                                                           *)
Batched(new, g) ==
    /\ IsFiniteSet(new)
    /\ \A u, v \in new : Id(u) = Id(v) => u = v
    /\ \A u \in new : u.gen = g /\ u.pc = "queued" /\ (u.typ = "assemble" => u.page = 0 /\ u.att = 0)

LEMMA EnqueueNone == ASSUME NEW T PROVE Enqueue({}, T) = T
BY DEF Enqueue

LEMMA RestartKin ==
    ASSUME NEW t \in Tasks
    PROVE  /\ Kin(Restart(t), t) /\ Restart(t).pc = "queued" /\ Restart(t).left = {} /\ Restart(t).todo = {}
           /\ \A u \in Archived(t) : Kin(u, t) /\ u.pc = "archived"
           /\ \A u, v \in Archived(t) : u = v
<1>1. Kin(Restart(t), t) /\ Restart(t).pc = "queued" /\ Restart(t).left = {} /\ Restart(t).todo = {}
  BY TaskType DEF Kin, Restart, Tasks
<1>2. \A u \in Archived(t) : Kin(u, t) /\ u.pc = "archived"
  BY TaskType DEF Kin, Archived, Tasks
<1>3. \A u, v \in Archived(t) : u = v
  BY DEF Archived
<1> QED
  BY <1>1, <1>2, <1>3

(* What the queue keeps of a task in error is queued or archived.          *)
LEMMA ErroredKin ==
    ASSUME NEW t \in Tasks
    PROVE  /\ \A u \in Errored(t) : Kin(u, t) /\ u.pc \in {"queued", "archived"}
           /\ \A u \in Errored(t) : u.pc = "queued" => u = Restart(t) /\ ~Final(t)
           /\ \A u, v \in Errored(t) : u = v
BY RestartKin DEF Errored

LEMMA PcKin ==
    ASSUME NEW t \in Tasks, NEW pc \in Steps
    PROVE  Kin([t EXCEPT !.pc = pc], t) /\ [t EXCEPT !.pc = pc].pc = pc
           /\ [t EXCEPT !.pc = pc].left = t.left /\ [t EXCEPT !.pc = pc].todo = t.todo
BY DEF Kin, Tasks

LEMMA OneMoves ==
    ASSUME NEW t \in tasks, NEW u, Kin(u, t), NEW new, tasks' = Enqueue(new, Others(t) \cup {u})
    PROVE  Moves({t}, {u}, new)
BY DEF Moves, Others

LEMMA GotoMoves ==
    ASSUME TypeOK, NEW t \in tasks, NEW pc \in Steps, Goto(t, pc)
    PROVE  Moves({t}, {[t EXCEPT !.pc = pc]}, {})
<1>1. t \in Tasks
  BY DEF TypeOK, WellFormed
<1>2. tasks' = Enqueue({}, Others(t) \cup {[t EXCEPT !.pc = pc]})
  BY EnqueueNone DEF Goto
<1> QED
  BY <1>1, <1>2, PcKin, OneMoves

LEMMA ErrorMoves ==
    ASSUME TypeOK, NEW t \in tasks
    PROVE  /\ Error(t) => Moves({t}, Errored(t), {})
           /\ DeadLetter(t) => Moves({t}, Archived(t), {})
<1>1. t \in Tasks
  BY DEF TypeOK, WellFormed
<1> QED
  BY <1>1, EnqueueNone, ErroredKin, RestartKin DEF Error, DeadLetter, Moves, Others

LEMMA AckMoves ==
    ASSUME TypeOK, NEW t \in tasks, NEW new, Ack(t, new)
    PROVE  \/ Moves({t}, {}, new)
           \/ t.typ \in Crashable /\ Moves({t}, Errored(t), new)
<1>1. t \in Tasks
  BY DEF TypeOK, WellFormed
<1> QED
  BY <1>1, ErroredKin DEF Ack, CanCrash, Moves, Others

LEMMA NoTaskMoves ==
    ASSUME NEW new, tasks' = Enqueue(new, tasks)
    PROVE  Moves({}, {}, new)
BY DEF Moves

-----------------------------------------------------------------------------
(* What Advance enqueues.                                                  *)

OcrTask(u, g) == u.typ = "ocr" /\ u.page \in OcrClaims(g) /\ u.pages = {u.page}
RenderTask(u, g) == u.typ = "render" /\ u.page \in Leads(g) /\ u.pages = BatchFrom(u.page, g)
AssembleTask(u, g) == u.typ = "assemble" /\ AllFinished(g) /\ u.page = 0 /\ u.att = 0

LEMMA NewTasksAre ==
    ASSUME NEW g, NEW u \in NewTasks(g)
    PROVE  /\ u.gen = g /\ u.pc = "queued" /\ u.hk = 0 /\ u.todo = {} /\ u.left = {}
           /\ OcrTask(u, g) \/ RenderTask(u, g) \/ AssembleTask(u, g)
           /\ u.typ # "assemble" => u.att = row[u.page].att + 1
<1>1. CASE u \in {Task("ocr", g, p, row[p].att + 1, 0, {p}) : p \in OcrClaims(g)}
  BY <1>1 DEF Task, OcrTask
<1>2. CASE u \in {Task("render", g, p, row[p].att + 1, 0, BatchFrom(p, g)) : p \in Leads(g)}
  BY <1>2 DEF Task, RenderTask
<1>3. CASE AllFinished(g) /\ u = DocTask("assemble", g, 0)
  BY <1>3 DEF Task, DocTask, AssembleTask
<1> QED
  BY <1>1, <1>2, <1>3 DEF NewTasks

LEMMA NewTasksBatched ==
    ASSUME row \in [Page -> Row], NEW g \in Gen
    PROVE  Batched(NewTasks(g), g)
<1>1. ASSUME NEW S \in SUBSET Page, NEW f \in [S -> Tasks]
      PROVE  IsFiniteSet({f[p] : p \in S})
  <2>1. f \in Surjection(S, {f[p] : p \in S})
    BY DEF Surjection
  <2> QED
    BY <2>1, PagesFinite, FS_Surjection
<1>2. OcrClaims(g) \in SUBSET Page /\ Leads(g) \in SUBSET Page
  BY DEF OcrClaims, Leads, RenderClaims, Rows
<1> DEFINE o == [p \in OcrClaims(g) |-> Task("ocr", g, p, row[p].att + 1, 0, {p})]
           r == [p \in Leads(g) |-> Task("render", g, p, row[p].att + 1, 0, BatchFrom(p, g))]
<1>3. WellFormed(NewTasks(g))
  BY NewTasksType
<1>4. o \in [OcrClaims(g) -> Tasks] /\ r \in [Leads(g) -> Tasks]
  BY <1>3 DEF NewTasks, WellFormed
<1> DEFINE A == {o[p] : p \in OcrClaims(g)}
           B == {r[p] : p \in Leads(g)}
           C == IF AllFinished(g) THEN {DocTask("assemble", g, 0)} ELSE {}
<1>5. IsFiniteSet(A) /\ IsFiniteSet(B) /\ IsFiniteSet(C)
  BY <1>1, <1>2, <1>4, FS_EmptySet, FS_Singleton
<1>6. NewTasks(g) = A \cup B \cup C
  BY DEF NewTasks
<1> HIDE DEF A, B, C
<1>8. IsFiniteSet(NewTasks(g))
  BY <1>5, <1>6, FS_Union
<1>9. ASSUME NEW u \in NewTasks(g), NEW v \in NewTasks(g), Id(u) = Id(v) PROVE u = v
  <2>1. u.typ = v.typ /\ u.page = v.page
    BY <1>9 DEF Id
  <2>2. \/ u = Task("ocr", g, u.page, row[u.page].att + 1, 0, {u.page})
        \/ u = Task("render", g, u.page, row[u.page].att + 1, 0, BatchFrom(u.page, g))
        \/ u = DocTask("assemble", g, 0)
    BY DEF NewTasks, Task
  <2>3. \/ v = Task("ocr", g, v.page, row[v.page].att + 1, 0, {v.page})
        \/ v = Task("render", g, v.page, row[v.page].att + 1, 0, BatchFrom(v.page, g))
        \/ v = DocTask("assemble", g, 0)
    BY DEF NewTasks, Task
  <2> QED
    BY <2>1, <2>2, <2>3 DEF Task, DocTask
<1> QED
  BY <1>8, <1>9, NewTasksAre DEF Batched, OcrTask, RenderTask, AssembleTask

LEMMA DocTaskBatched ==
    ASSUME NEW typ, NEW g, NEW b
    PROVE  /\ Batched({DocTask(typ, g, b)}, g)
           /\ DocTask(typ, g, b).typ = typ /\ DocTask(typ, g, b).hk = b /\ DocTask(typ, g, b).pages = {}
<1>1. IsFiniteSet({DocTask(typ, g, b)})
  BY FS_Singleton
<1>2. /\ DocTask(typ, g, b).gen = g /\ DocTask(typ, g, b).pc = "queued"
      /\ DocTask(typ, g, b).typ = typ /\ DocTask(typ, g, b).hk = b /\ DocTask(typ, g, b).pages = {}
      /\ DocTask(typ, g, b).page = 0 /\ DocTask(typ, g, b).att = 0
  BY DEF DocTask, Task
<1> QED
  BY <1>1, <1>2 DEF Batched

LEMMA NoneBatched == ASSUME NEW g PROVE Batched({}, g)
BY FS_EmptySet DEF Batched

-----------------------------------------------------------------------------
(* Generations and ids.                                                    *)

(* A split that goes on past its pickup does so for the present document.  *)
Past(u) == u.typ = "split" /\ u.pc \notin {"queued", "archived"}
Given(new, t) ==
    /\ Batched(new, t.gen)
    /\ \/ new = {}
       \/ new = NewTasks(t.gen) /\ Advance(t.gen) /\ t.typ \in {"split", "ocr", "render"}
       \/ t.typ \in {"assemble", "index"} /\ \A u \in new : u.typ \in {"index", "tree", "gencleanup"}
Steady(t) ==
    \E R, new : /\ Moves({t}, R, new)
                /\ Given(new, t)
                /\ \A u \in R : Past(u) => Past(t) \/ t.gen = doc.gen

LEMMA NoneGiven == ASSUME NEW t PROVE Given({}, t)
BY NoneBatched DEF Given

LEMMA SteadyShapes ==
    ASSUME TypeOK, NEW t \in tasks
    PROVE  /\ \A pc \in Steps : Goto(t, pc) /\ (t.typ = "split" => Past(t) \/ t.gen = doc.gen) => Steady(t)
           /\ Error(t) \/ DeadLetter(t) => Steady(t)
           /\ \A new : Ack(t, new) /\ Given(new, t) => Steady(t)
           /\ \A u, new : Kin(u, t) /\ t.typ # "split" /\ Given(new, t)
                          /\ tasks' = Enqueue(new, Others(t) \cup {u}) => Steady(t)
           /\ \A new : Given(new, t) /\ tasks' = Enqueue(new, Others(t) \cup Archived(t)) => Steady(t)
<1>1. t \in Tasks
  BY DEF TypeOK, WellFormed
<1>2. /\ \A u \in Errored(t) : ~Past(u)
      /\ \A u \in Archived(t) : ~Past(u)
  BY <1>1, ErroredKin, RestartKin DEF Past
<1>3. ASSUME NEW pc \in Steps, Goto(t, pc), t.typ = "split" => Past(t) \/ t.gen = doc.gen PROVE Steady(t)
  <2> DEFINE R == {[t EXCEPT !.pc = pc]}
  <2>1. Moves({t}, R, {})
    BY <1>3, GotoMoves
  <2>2. \A u \in R : u.typ = t.typ
    <3>1. Kin([t EXCEPT !.pc = pc], t)
      BY <1>1, PcKin
    <3>2. \A u \in R : Kin(u, t)
      BY <3>1
    <3> QED
      BY <3>2 DEF Kin
  <2> HIDE DEF R
  <2> QED
    BY <1>3, <2>1, <2>2, NoneGiven DEF Steady, Past
<1>4. ASSUME Error(t) \/ DeadLetter(t) PROVE Steady(t)
  BY <1>2, <1>4, ErrorMoves, NoneGiven DEF Steady
<1>5. ASSUME NEW new, Ack(t, new), Given(new, t) PROVE Steady(t)
  BY <1>2, <1>5, AckMoves DEF Steady
<1>6. ASSUME NEW u, NEW new, Kin(u, t), t.typ # "split", Given(new, t),
             tasks' = Enqueue(new, Others(t) \cup {u})
      PROVE  Steady(t)
  <2>1. Moves({t}, {u}, new) /\ \A v \in {u} : ~Past(v)
    BY <1>6, OneMoves DEF Past, Kin
  <2> QED
    BY <1>6, <2>1 DEF Steady
<1>7. ASSUME NEW new, Given(new, t), tasks' = Enqueue(new, Others(t) \cup Archived(t)) PROVE Steady(t)
  <2>1. Moves({t}, Archived(t), new)
    BY <1>1, <1>7, RestartKin DEF Moves, Others
  <2> QED
    BY <1>2, <1>7, <2>1 DEF Steady
<1> QED
  BY <1>3, <1>4, <1>5, <1>6, <1>7

LEMMA WorkSteady ==
    ASSUME TypeOK, NEW t \in tasks, Work(t) \/ Crash(t) \/ StrayPickup(t)
    PROVE  Steady(t)
<1>1. t \in Tasks /\ (t.typ # "delete" => t.gen \in Gen)
  BY DEF TypeOK, WellFormed
<1>2. Given({}, t)
  BY NoneGiven
<1>3. t.typ \in {"split", "ocr", "render"} /\ Advance(t.gen) => Given(NewTasks(t.gen), t)
  BY <1>1, NewTasksBatched DEF TypeOK, Given
<1>4. CASE Drop(t) \/ SplitHeld(t)
  BY <1>2, <1>4, SteadyShapes DEF Drop, SplitHeld
<1>5. CASE SplitStart(t) \/ SplitInit(t) \/ SplitProbeFails(t) \/ SplitReady(t)
  BY <1>5, SteadyShapes DEF SplitStart, SplitInit, SplitProbeFails, SplitReady, Starts, At, Runnable, Past, Steps
<1>6. CASE LastAdvance(t)
  BY <1>3, <1>6, SteadyShapes DEF LastAdvance
<1>7. CASE RenderStart(t)
  <2>1. ASSUME NEW todo \in SUBSET t.pages PROVE Kin([t EXCEPT !.pc = "emit", !.todo = todo, !.left = todo], t)
    BY <1>1 DEF Kin, Tasks, Steps
  <2>2. StillRendering(t) \in SUBSET t.pages
    BY DEF StillRendering
  <2> QED
    BY <1>2, <1>7, <2>1, <2>2, EnqueueNone, SteadyShapes DEF RenderStart, Starts, At
<1>8. CASE RenderEmit(t) \/ RenderAdvance(t) \/ RenderFails(t) \/ RenderGiveUp(t) \/ RenderCount(t)
  <2>1. ASSUME NEW l \in SUBSET (t.left \cup t.todo), NEW pc \in Steps PROVE Kin([t EXCEPT !.pc = pc, !.left = l], t)
    BY <1>1 DEF Kin, Tasks
  <2>2. \A l \in SUBSET t.left : Kin([t EXCEPT !.left = l], t)
    BY <1>1 DEF Kin, Tasks
  <2>3. \A pc \in Steps : Kin([t EXCEPT !.pc = pc], t)
    BY <1>1, PcKin
  <2>4. t.typ = "render"
    BY <1>8 DEF RenderEmit, RenderAdvance, RenderFails, RenderGiveUp, RenderCount, At
  <2>5. \A u : Kin(u, t) /\ tasks' = Others(t) \cup {u} => Steady(t)
    BY <1>2, <2>4, EnqueueNone, SteadyShapes
  <2>6. {"advance", "emit", "give_up", "count"} \subseteq Steps
    BY DEF Steps
  <2>7. CASE RenderEmit(t)
    BY <2>1, <2>5, <2>6, <2>7 DEF RenderEmit
  <2>8. CASE RenderAdvance(t)
    BY <1>3, <2>3, <2>4, <2>6, <2>8, SteadyShapes DEF RenderAdvance
  <2>9. CASE RenderFails(t)
    BY <2>1, <2>5, <2>6, <2>9, SteadyShapes DEF RenderFails
  <2>10. CASE RenderGiveUp(t)
    BY <2>2, <2>4, <2>5, <2>6, <2>10, SteadyShapes DEF RenderGiveUp
  <2>11. CASE RenderCount(t)
    BY <2>1, <2>5, <2>6, <2>11 DEF RenderCount
  <2> QED
    BY <1>8, <2>7, <2>8, <2>9, <2>10, <2>11
<1>9. CASE FailedAdvance(t)
  BY <1>3, <1>9, SteadyShapes DEF FailedAdvance, At
<1>10. CASE OcrStart(t) \/ OcrSave(t) \/ OcrRetry(t) \/ OcrFail(t) \/ OcrCount(t) \/ OcrCountFailed(t)
  BY <1>2, <1>10, SteadyShapes DEF OcrStart, OcrSave, OcrRetry, OcrFail, OcrCount, OcrCountFailed, Starts, At, Steps
<1>11. CASE AssembleStart(t) \/ AssembleDecide(t) \/ TreeStart(t) \/ TreeSettle(t) \/ IndexFails(t)
  BY <1>2, <1>11, SteadyShapes DEF AssembleStart, AssembleDecide, TreeStart, TreeSettle, IndexFails, Starts, At, Steps
<1>12. CASE AssembleHandover(t) \/ IndexBuild(t)
  <2> DEFINE a == DocTask("index", t.gen, 0)
             b == DocTask("gencleanup", t.gen, 0)
             c == DocTask("tree", t.gen, 0)
  <2>1. /\ a.gen = t.gen /\ b.gen = t.gen /\ a.pc = "queued" /\ b.pc = "queued" /\ Id(a) # Id(b)
        /\ a.typ = "index" /\ b.typ = "gencleanup" /\ c.typ = "tree"
        /\ a.typ # "assemble" /\ b.typ # "assemble"
    BY DEF DocTask, Task, Id
  <2>2. Batched({a}, t.gen) /\ Batched({c}, t.gen)
    BY DocTaskBatched
  <2>3. AssembleHandover(t) => Ack(t, {a, b}) \/ Ack(t, {a})
    <3>1. {a} \cup {b} = {a, b} /\ {a} \cup {} = {a}
      OBVIOUS
    <3> QED
      BY <3>1 DEF AssembleHandover
  <2>4. IndexBuild(t) => Ack(t, {c})
    BY DEF IndexBuild
  <2> HIDE DEF a, b, c
  <2>5. Batched({a, b}, t.gen)
    <3>1. {a} \cup {b} = {a, b}
      OBVIOUS
    <3>2. IsFiniteSet({a}) /\ IsFiniteSet({b})
      BY FS_Singleton
    <3>3. IsFiniteSet({a} \cup {b})
      BY <3>2, FS_Union
    <3>4. IsFiniteSet({a, b})
      BY <3>1, <3>3
    <3> QED
      BY <2>1, <3>4 DEF Batched
  <2>6. Given({a}, t) /\ Given({a, b}, t) /\ Given({c}, t)
    <3>1. t.typ \in {"assemble", "index"}
      BY <1>12 DEF AssembleHandover, IndexBuild, At, Starts
    <3> QED
      BY <2>1, <2>2, <2>5, <3>1 DEF Given
  <2> QED
    BY <1>12, <2>3, <2>4, <2>6, SteadyShapes
<1>13. CASE GenCleanup(t) \/ DeleteObjects(t) \/ DeletePurge(t)
  BY <1>2, <1>13, SteadyShapes DEF GenCleanup, DeleteObjects, DeletePurge, At, Steps
<1>14. CASE Crash(t)
  <2>1. Moves({t}, Errored(t), {})
    BY <1>1, <1>14, EnqueueNone, ErroredKin DEF Crash, Moves, Others
  <2> QED
    BY <1>1, <1>2, <2>1, ErroredKin DEF Steady, Past
<1>15. CASE StrayPickup(t)
  <2>1. Moves({t}, {}, {})
    BY <1>15, EnqueueNone DEF StrayPickup, Moves, Others
  <2> QED
    BY <1>2, <2>1 DEF Steady
<1> QED
  BY <1>4, <1>5, <1>6, <1>7, <1>8, <1>9, <1>10, <1>11, <1>12, <1>13, <1>14, <1>15 DEF Work

(* What any step does to the tasks.                                        *)
KnownGen(g) == g = 0 \/ g = doc.gen \/ (\E t \in tasks : t.gen = g) \/ (\E r \in reqs : r.gen = g)
TasksStep ==
    \E X, R, new, g :
        /\ Moves(X, R, new) /\ Batched(new, g) /\ KnownGen(g)
        /\ \A u \in R : Past(u) => u.gen = doc.gen \/ \E t \in X : Past(t) /\ t.gen = u.gen

LEMMA TasksKept == ASSUME UNCHANGED tasks PROVE TasksStep
<1>1. Moves({}, {}, {})
  BY EnqueueNone DEF Moves
<1>2. Batched({}, 0) /\ KnownGen(0)
  BY NoneBatched DEF KnownGen
<1> QED
  BY <1>1, <1>2 DEF TasksStep

LEMMA StepTasks ==
    ASSUME TypeOK, [Next]_vars
    PROVE  TasksStep
<1>1. ASSUME NEW t \in tasks, Work(t) \/ Crash(t) \/ StrayPickup(t) PROVE TasksStep
  <2>1. PICK R, new : /\ Moves({t}, R, new) /\ Batched(new, t.gen)
                      /\ \A u \in R : Past(u) => Past(t) \/ t.gen = doc.gen
    BY <1>1, WorkSteady DEF Steady, Given
  <2>2. \A u \in R : u.gen = t.gen
    BY <2>1 DEF Moves, Kin
  <2>3. KnownGen(t.gen)
    BY DEF KnownGen
  <2>4. \A u \in R : Past(u) => u.gen = doc.gen \/ \E v \in {t} : Past(v) /\ v.gen = u.gen
    BY <2>1, <2>2
  <2> QED
    BY <2>1, <2>3, <2>4 DEF TasksStep
<1>2. ASSUME NEW new, NEW g, tasks' = Enqueue(new, tasks), Batched(new, g), KnownGen(g) PROVE TasksStep
  <2>1. Moves({}, {}, new)
    BY <1>2, NoTaskMoves
  <2> QED
    BY <1>2, <2>1 DEF TasksStep
<1>3. doc.gen \in Gen /\ row \in [Page -> Row] /\ \A r \in reqs : r.gen \in Gen
  BY DEF TypeOK, Doc, Reqs
<1>4. CASE Housekeeping
  <2>1. ASSUME NEW p, HkReset(p) PROVE TasksStep
    BY <2>1, TasksKept DEF HkReset
  <2>2. CASE HkAdvance
    BY <1>2, <1>3, <2>2, NewTasksBatched DEF HkAdvance, KnownGen
  <2>3. ASSUME NEW status, NEW typ, NEW b, HkDispatch(status, typ, b) PROVE TasksStep
    <3>1. Batched({DocTask(typ, doc.gen, b)}, doc.gen) /\ KnownGen(doc.gen)
      BY DocTaskBatched DEF KnownGen
    <3> QED
      BY <1>2, <2>3, <3>1 DEF HkDispatch
  <2>4. ASSUME NEW b, HkDelete(b) PROVE TasksStep
    <3>1. Batched({DocTask("delete", 0, b)}, 0) /\ KnownGen(0)
      BY DocTaskBatched DEF KnownGen
    <3> QED
      BY <1>2, <2>4, <3>1 DEF HkDelete
  <2> QED
    BY <1>4, <2>1, <2>2, <2>3, <2>4 DEF Housekeeping
<1>5. CASE Ask
  BY <1>5, TasksKept DEF Ask, CancelCheck, DeleteMark, ReparseBump, PagesCheck
<1>6. ASSUME NEW r \in reqs, ServeStep(r) \/ RequestDies(r) PROVE TasksStep
  <2>1. KnownGen(r.gen) /\ KnownGen(0)
    BY DEF KnownGen
  <2>2. CASE DeleteEnqueue(r)
    <3>1. Batched({DocTask("delete", 0, 0)}, 0)
      BY DocTaskBatched
    <3> QED
      BY <1>2, <2>1, <2>2, <3>1 DEF DeleteEnqueue
  <2>3. CASE ReparseEnqueue(r)
    BY <1>2, <2>1, <2>3, DocTaskBatched DEF ReparseEnqueue
  <2>4. CASE PagesAdvance(r)
    BY <1>2, <1>3, <2>1, <2>4, NewTasksBatched DEF PagesAdvance
  <2> QED
    BY <1>6, <2>2, <2>3, <2>4, TasksKept
       DEF ServeStep, CancelWrite, PagesReset, PagesAdjust, PagesPick, PagesParse, RequestDies
<1>7. CASE UNCHANGED vars
  BY <1>7, TasksKept DEF vars
<1> QED
  BY <1>1, <1>4, <1>5, <1>6, <1>7 DEF Next, WorkStep

(* What any step does to the requests: one opens or one moves on.          *)
Opens(op, g, P, pc) == op \in Ops /\ Visible /\ reqs' = reqs \cup {Request(op, g, P, pc)}
Runs(r) ==
    \/ reqs' = reqs \ {r}
    \/ \E q \in Reqs : q.op = r.op /\ q.gen = r.gen /\ q.pages = r.pages /\ reqs' = (reqs \ {r}) \cup {q}
ReqsStep ==
    \/ UNCHANGED reqs
    \/ Opens("reparse", doc.gen + 1, {}, "enqueue") /\ doc'.gen = doc.gen + 1
    \/ \E op \in {"cancel", "delete"} : \E pc : Opens(op, doc.gen, {}, pc)
    \/ SerialPages /\ \E P : Opens("pages", doc.gen, P, "reset")
    \/ \E r \in reqs : Runs(r)

LEMMA WorkReqs ==
    ASSUME NEW t, Work(t) \/ Crash(t) \/ StrayPickup(t)
    PROVE  UNCHANGED reqs
BY DEF Work, Crash, StrayPickup, Drop, SplitStart, SplitInit, SplitProbeFails, SplitReady, SplitHeld, LastAdvance,
       RenderStart, RenderEmit, RenderAdvance, RenderFails, RenderGiveUp, RenderCount, FailedAdvance, OcrStart,
       OcrSave, OcrRetry, OcrFail, OcrCount, OcrCountFailed, AssembleStart, AssembleDecide, AssembleHandover,
       IndexBuild, TreeStart, TreeSettle, IndexFails, GenCleanup, DeleteObjects, DeletePurge

LEMMA ServeRuns ==
    ASSUME TypeOK, NEW r \in reqs, ServeStep(r) \/ RequestDies(r)
    PROVE  Runs(r)
<1>1. r \in Reqs
  BY DEF TypeOK
<1>2. \A pc \in {"pick", "parse", "advance"} : Serve(r, pc) => Runs(r)
  <2> SUFFICES ASSUME NEW pc \in {"pick", "parse", "advance"}, Serve(r, pc) PROVE Runs(r)
    OBVIOUS
  <2>1. LET q == [r EXCEPT !.pc = pc] IN q \in Reqs /\ q.op = r.op /\ q.gen = r.gen /\ q.pages = r.pages
    BY <1>1 DEF Reqs
  <2> QED
    BY <2>1 DEF Serve, Runs
<1>3. Close(r) => Runs(r)
  BY DEF Close, Runs
<1>4. CASE PagesReset(r)
  <2>1. PICK d, f : /\ d \in Nat /\ f \in Nat
                    /\ reqs' = (reqs \ {r}) \cup {[r EXCEPT !.pc = "adjust", !.done = d, !.failed = f]}
    <3> DEFINE hit == {p \in r.pages : row[p].gen = r.gen}
               was(s) == Cardinality({p \in hit : row[p].st = s})
    <3>1. \A s : {p \in hit : row[p].st = s} \in SUBSET Page
      BY <1>1 DEF Reqs
    <3>2. \A s : was(s) \in Nat
      BY <3>1, PagesFinite, SizeAssumption
    <3> QED
      BY <1>4, <3>2 DEF PagesReset
  <2>2. LET q == [r EXCEPT !.pc = "adjust", !.done = d, !.failed = f]
        IN  q \in Reqs /\ q.op = r.op /\ q.gen = r.gen /\ q.pages = r.pages
    BY <1>1, <2>1 DEF Reqs
  <2> QED
    BY <2>1, <2>2 DEF Runs
<1> QED
  BY <1>2, <1>3, <1>4
     DEF ServeStep, RequestDies, CancelWrite, DeleteEnqueue, ReparseEnqueue, PagesAdjust, PagesPick, PagesParse,
         PagesAdvance

LEMMA StepReqs ==
    ASSUME TypeOK, [Next]_vars
    PROVE  ReqsStep
<1>1. doc \in Doc /\ reqs \subseteq Reqs
  BY DEF TypeOK
<1>2. CASE Ask
  <2>1. ReparseBump => Opens("reparse", doc.gen + 1, {}, "enqueue") /\ doc'.gen = doc.gen + 1
    BY <1>1 DEF ReparseBump, Open, Opens, Doc
  <2>2. CancelCheck => Opens("cancel", doc.gen, {}, "write")
    BY DEF CancelCheck, Open, Opens
  <2>3. DeleteMark => Opens("delete", doc.gen, {}, "enqueue")
    BY DEF DeleteMark, Open, Opens
  <2>4. \A P : PagesCheck(P) => SerialPages /\ Opens("pages", doc.gen, P, "reset")
    BY DEF PagesCheck, Open, Opens
  <2> QED
    BY <1>2, <2>1, <2>2, <2>3, <2>4 DEF Ask, ReqsStep
<1>3. ASSUME NEW r \in reqs, ServeStep(r) \/ RequestDies(r) PROVE Runs(r)
  BY <1>3, ServeRuns
<1>4. ASSUME Housekeeping PROVE UNCHANGED reqs
  BY <1>4 DEF Housekeeping, HkReset, HkAdvance, HkDispatch, HkDelete
<1>5. ASSUME NEW t \in tasks, Work(t) \/ Crash(t) \/ StrayPickup(t) PROVE UNCHANGED reqs
  BY <1>5, WorkReqs
<1> QED
  BY <1>2, <1>3, <1>4, <1>5 DEF Next, WorkStep, ReqsStep, vars

Unique == \A t, u \in tasks : Id(t) = Id(u) => t = u
NoneAhead ==
    /\ \A t \in tasks : t.gen <= doc.gen
    /\ \A r \in reqs : r.gen <= doc.gen
    /\ \A p \in Page : row[p].gen <= doc.gen
OneReparse == \A r, q \in reqs : r.op = "reparse" /\ q.op = "reparse" /\ r.gen = q.gen => r = q
AsAsked == \A r \in reqs : r.op \in Ops
GenInv == IsFiniteSet(tasks) /\ Unique /\ NoneAhead /\ OneReparse /\ AsAsked /\ OneGeneration

LEMMA WorkGen ==
    ASSUME TypeOK, NEW t \in tasks, Work(t) \/ Crash(t) \/ StrayPickup(t)
    PROVE  doc'.gen = doc.gen /\ (doc'.exists => doc.exists)
<1> DEFINE Same == doc'.gen = doc.gen /\ doc'.exists = doc.exists
<1>1. doc \in Doc
  BY DEF TypeOK
<1>2. ASSUME NEW g, NEW new, Update(g, new), new.gen = doc.gen, new.exists = doc.exists PROVE Same
  BY <1>2 DEF Update
<1>3. ASSUME NEW g PROVE /\ FailDoc(g) => Same
                         /\ \A c \in {"done", "failed"} : CountPage(g, c) => Same
  BY <1>1 DEF FailDoc, Update, CountPage, Doc
<1>4. ASSUME SplitStart(t) \/ SplitReady(t) \/ SplitHeld(t) \/ AssembleStart(t) PROVE Same
  BY <1>1, <1>2, <1>4 DEF SplitStart, SplitReady, SplitHeld, AssembleStart, Doc
<1>5. ASSUME SplitProbeFails(t) \/ RenderCount(t) \/ OcrCount(t) \/ OcrCountFailed(t) PROVE Same
  BY <1>3, <1>5 DEF SplitProbeFails, RenderCount, OcrCount, OcrCountFailed
<1>6. ASSUME TreeSettle(t) \/ IndexFails(t) PROVE Same
  BY <1>1, <1>2, <1>6 DEF TreeSettle, IndexFails, Doc
<1>7. ASSUME AssembleDecide(t) PROVE Same
  BY <1>1, <1>2, <1>3, <1>7 DEF AssembleDecide, Doc
<1>8. ASSUME DeletePurge(t) PROVE doc'.gen = doc.gen /\ ~doc'.exists
  BY <1>1, <1>8 DEF DeletePurge, Doc
<1> QED
  BY <1>4, <1>5, <1>6, <1>7, <1>8
     DEF Work, Crash, StrayPickup, Drop, SplitInit, LastAdvance, RenderStart, RenderEmit, RenderAdvance, RenderFails,
         RenderGiveUp, FailedAdvance, OcrStart, OcrSave, OcrRetry, OcrFail, AssembleHandover, IndexBuild, TreeStart,
         GenCleanup, DeleteObjects

LEMMA WorkLive ==
    ASSUME NEW t, Work(t) \/ Crash(t) \/ StrayPickup(t)
    PROVE  t.pc # "archived"
BY DEF Work, Crash, StrayPickup, Drop, SplitStart, SplitInit, SplitProbeFails, SplitReady, SplitHeld, LastAdvance,
       RenderStart, RenderEmit, RenderAdvance, RenderFails, RenderGiveUp, RenderCount, FailedAdvance, OcrStart,
       OcrSave, OcrRetry, OcrFail, OcrCount, OcrCountFailed, AssembleStart, AssembleDecide, AssembleHandover,
       IndexBuild, TreeStart, TreeSettle, IndexFails, GenCleanup, DeleteObjects, DeletePurge, Starts, At

LEMMA StepGen ==
    ASSUME TypeOK, [Next]_vars
    PROVE  /\ doc'.gen = doc.gen \/ (ReparseBump /\ doc'.gen = doc.gen + 1)
           /\ doc.gen \in Gen /\ doc.gen \in Nat
<1>1. doc \in Doc /\ doc.gen \in Gen /\ doc.gen \in Nat
  BY SizeAssumption DEF TypeOK, Doc, Gen
<1>2. ASSUME NEW g, NEW new, Update(g, new), new.gen = doc.gen PROVE doc'.gen = doc.gen
  BY <1>2 DEF Update
<1>3. ASSUME NEW g PROVE /\ FailDoc(g) => doc'.gen = doc.gen
                         /\ \A c \in {"done", "failed"} : CountPage(g, c) => doc'.gen = doc.gen
  BY <1>1 DEF FailDoc, Update, CountPage, Doc
<1>4. ASSUME NEW t \in tasks, Work(t) PROVE doc'.gen = doc.gen
  BY <1>4, WorkGen
<1>5. ASSUME NEW r \in reqs, ServeStep(r) \/ RequestDies(r) PROVE doc'.gen = doc.gen
  <2>1. PagesParse(r) => doc'.gen = doc.gen
    BY <1>1, <1>2 DEF PagesParse, Doc
  <2> QED
    BY <1>1, <1>5, <2>1
       DEF ServeStep, RequestDies, CancelWrite, DeleteEnqueue, ReparseEnqueue, PagesReset, PagesAdjust, PagesPick,
           PagesAdvance, Doc
<1>6. ASSUME Ask PROVE doc'.gen = doc.gen \/ (ReparseBump /\ doc'.gen = doc.gen + 1)
  BY <1>1, <1>6 DEF Ask, CancelCheck, DeleteMark, ReparseBump, PagesCheck, Doc
<1>7. ASSUME Housekeeping PROVE doc'.gen = doc.gen
  BY <1>7 DEF Housekeeping, HkReset, HkAdvance, HkDispatch, HkDelete
<1> QED
  BY <1>1, <1>4, <1>5, <1>6, <1>7 DEF Next, WorkStep, Crash, StrayPickup, vars

(* Ids tell the tasks apart, and nothing works for a generation that the   *)
(* document has not reached.                                               *)
LEMMA GenStep == TypeOK /\ GenInv /\ [Next]_vars => GenInv'
<1> SUFFICES ASSUME TypeOK, GenInv, [Next]_vars PROVE GenInv'
  OBVIOUS
<1>1. PICK X, R, new, g : Moves(X, R, new) /\ Batched(new, g) /\ KnownGen(g)
  BY StepTasks DEF TasksStep
<1>2. doc'.gen >= doc.gen /\ doc.gen \in Nat /\ doc'.gen \in Nat
  BY StepGen
<1>3. /\ \A t \in tasks : t.gen \in Nat
      /\ \A r \in reqs : r.gen \in Nat
      /\ \A p \in Page : row[p].gen \in Nat
  BY SizeAssumption DEF TypeOK, WellFormed, Tasks, Reqs, Row, Gen
<1>4. \A u \in tasks' : u \in tasks \ X \/ u \in R \/ (u \in new /\ \A v \in (tasks \ X) \cup R : Id(v) # Id(u))
  BY <1>1 DEF Moves, Enqueue
<1>5. \A u \in R : \E t \in tasks : t \in X /\ Id(u) = Id(t) /\ u.gen = t.gen
  BY <1>1 DEF Moves, Kin, Id
<1>6. Unique'
  <2> SUFFICES ASSUME NEW t \in tasks', NEW u \in tasks', Id(t) = Id(u) PROVE t = u
    BY DEF Unique, Id
  <2>1. CASE t \in new /\ u \in new
    BY <1>1, <2>1 DEF Batched
  <2>2. CASE t \in R /\ u \in R
    BY <1>1, <2>2 DEF Moves
  <2>3. CASE t \in tasks \ X /\ u \in tasks \ X
    BY <2>3 DEF GenInv, Unique
  <2>4. ASSUME NEW v \in R, NEW w \in tasks \ X PROVE Id(v) # Id(w)
    BY <1>5 DEF GenInv, Unique
  <2> QED
    BY <1>4, <2>1, <2>2, <2>3, <2>4
<1>7. IsFiniteSet(tasks')
  <2>1. IsFiniteSet(R)
    <3>1. CASE R = {}
      BY <3>1, FS_EmptySet
    <3>2. CASE R # {}
      <4>1. PICK x \in R : TRUE
        BY <3>2
      <4>2. R = {x}
        BY <1>1, <4>1 DEF Moves
      <4> QED
        BY <4>2, FS_Singleton
    <3> QED
      BY <3>1, <3>2
  <2>2. IsFiniteSet(tasks \ X)
    BY FS_Subset DEF GenInv
  <2>3. tasks' \in SUBSET (((tasks \ X) \cup R) \cup new)
    BY <1>4
  <2>4. IsFiniteSet(((tasks \ X) \cup R) \cup new)
    BY <1>1, <2>1, <2>2, FS_Union DEF Batched
  <2> QED
    BY <2>3, <2>4, FS_Subset
<1>8. ASSUME NEW u \in tasks' PROVE u.gen <= doc'.gen
  <2>1. \A t \in tasks : t.gen <= doc.gen
    BY DEF GenInv, NoneAhead
  <2>2. g <= doc.gen /\ g \in Nat
    BY <1>1, <1>2, <1>3 DEF KnownGen, GenInv, NoneAhead
  <2>3. u \in new => u.gen = g
    BY <1>1 DEF Batched
  <2>4. u.gen = g \/ \E t \in tasks : u.gen = t.gen
    BY <1>4, <1>5, <2>3
  <2> QED
    BY <1>2, <1>3, <2>1, <2>2, <2>4
<1>9. (\A r \in reqs : r.gen <= doc.gen /\ r.op \in Ops) /\ OneReparse
  BY DEF GenInv, NoneAhead, AsAsked
<1>10. (\A r \in reqs' : r.gen <= doc'.gen /\ r.op \in Ops) /\ OneReparse'
  <2>1. CASE UNCHANGED reqs
    BY <1>2, <1>3, <1>9, <2>1 DEF OneReparse
  <2>2. CASE Opens("reparse", doc.gen + 1, {}, "enqueue") /\ doc'.gen = doc.gen + 1
    <3> DEFINE q == Request("reparse", doc.gen + 1, {}, "enqueue")
    <3>1. q.op = "reparse" /\ q.gen = doc.gen + 1 /\ reqs' = reqs \cup {q} /\ "reparse" \in Ops
      BY <2>2 DEF Opens, Request
    <3> HIDE DEF q
    <3>2. \A r \in reqs : r.gen # q.gen
      BY <1>2, <1>3, <1>9, <3>1
    <3> QED
      BY <1>2, <1>3, <1>9, <2>2, <3>1, <3>2 DEF OneReparse
  <2>3. ASSUME NEW op \in {"cancel", "delete", "pages"}, NEW P, NEW pc, Opens(op, doc.gen, P, pc)
        PROVE  (\A r \in reqs' : r.gen <= doc'.gen /\ r.op \in Ops) /\ OneReparse'
    <3> DEFINE q == Request(op, doc.gen, P, pc)
    <3>1. q.op = op /\ q.gen = doc.gen /\ reqs' = reqs \cup {q} /\ op \in Ops
      BY <2>3 DEF Opens, Request
    <3> HIDE DEF q
    <3> QED
      BY <1>2, <1>3, <1>9, <3>1 DEF OneReparse
  <2>4. ASSUME NEW r \in reqs, Runs(r) PROVE (\A q \in reqs' : q.gen <= doc'.gen /\ q.op \in Ops) /\ OneReparse'
    BY <1>2, <1>3, <1>9, <2>4 DEF Runs, OneReparse
  <2> QED
    BY <2>1, <2>2, <2>3, <2>4, StepReqs DEF ReqsStep
<1>11. ASSUME NEW p \in Page PROVE row'[p].gen <= doc'.gen
  <2>1. (\E h \in Gen : Advance(h)) \/ SameGen \/ OneGenAfter
    BY StepRows DEF Calm
  <2>2. row'[p].gen = row[p].gen \/ Known(row'[p].gen)
    BY <2>1, AdvanceRows DEF TypeOK, SameGen, OneGenAfter
  <2>3. row[p].gen <= doc.gen /\ \A t \in tasks : t.gen <= doc.gen
    BY DEF GenInv, NoneAhead
  <2> QED
    BY <1>2, <1>3, <2>2, <2>3 DEF Known
<1>12. OneGeneration'
  <2>1. SameGen \/ OneGenAfter
    BY StepRows, AdvanceRows DEF Calm, TypeOK
  <2> QED
    BY <2>1 DEF OneGeneration, SameGen, OneGenAfter, GenInv
<1> QED
  BY <1>6, <1>7, <1>8, <1>10, <1>11, <1>12 DEF GenInv, NoneAhead, AsAsked

LEMMA GenInit == Init => GenInv
<1> SUFFICES ASSUME Init PROVE GenInv
  OBVIOUS
<1>1. doc.gen = 1 /\ reqs = {} /\ \A p \in Page : row[p].gen = 0
  BY DEF Init, NoRow
<1>2. tasks \in {{}, {DocTask("split", 1, 0)}}
  BY DEF Init
<1>3. IsFiniteSet(tasks) /\ Unique
  <2>1. IsFiniteSet({}) /\ IsFiniteSet({DocTask("split", 1, 0)})
    BY FS_EmptySet, FS_Singleton
  <2>2. \A t, u \in tasks : t = u
    BY <1>2
  <2> QED
    BY <1>2, <2>1, <2>2 DEF Unique
<1>4. \A t \in tasks : t.gen = 1
  BY <1>2 DEF DocTask, Task
<1> QED
  BY <1>1, <1>3, <1>4 DEF GenInv, NoneAhead, OneReparse, AsAsked, OneGeneration

LEMMA GenAlways == Spec => [](TypeOK /\ GenInv)
  BY GenInit, GenStep, TypeCorrect, PTL DEF Spec

-----------------------------------------------------------------------------
(* The images of the pages.                                                *)

(* Deleting is for good: where no document is deleted while a cancel of it *)
(* is being served, nothing takes it out of that status.                   *)
Stopping ==
    /\ doc.deleted <=> doc.status = "deleting"
    /\ doc.deleted => \A r \in reqs : r.op # "cancel"

LEMMA StepStatus ==
    ASSUME TypeOK, [Next]_vars
    PROVE  \/ doc'.deleted = doc.deleted /\ doc'.status = doc.status
           \/ doc'.deleted = doc.deleted /\ doc'.status # "deleting" /\ doc.status # "deleting"
           \/ DeleteMark /\ doc'.deleted /\ doc'.status = "deleting"
           \/ doc'.deleted = doc.deleted /\ doc'.status # "deleting" /\ \E r \in reqs : r.op = "cancel"
<1> DEFINE Same == doc'.deleted = doc.deleted /\ doc'.status = doc.status
           Before == doc'.deleted = doc.deleted /\ doc'.status # "deleting" /\ doc.status # "deleting"
<1>1. doc \in Doc
  BY DEF TypeOK
<1>2. ASSUME NEW g, NEW new, Update(g, new), new.deleted = doc.deleted, new.status # "deleting" PROVE Same \/ Before
  BY <1>2 DEF Update
<1>3. ASSUME NEW g PROVE /\ FailDoc(g) => Same \/ Before
                         /\ \A c \in {"done", "failed"} : CountPage(g, c) => Same
  BY <1>1 DEF FailDoc, Update, CountPage, Doc
<1>4. ASSUME NEW t \in tasks, Work(t) PROVE Same \/ Before
  <2>1. ASSUME SplitStart(t) \/ SplitReady(t) \/ SplitHeld(t) \/ AssembleStart(t) PROVE Same \/ Before
    BY <1>1, <2>1 DEF SplitStart, SplitReady, SplitHeld, AssembleStart, Update, Doc
  <2>2. ASSUME SplitProbeFails(t) \/ RenderCount(t) \/ OcrCount(t) \/ OcrCountFailed(t) PROVE Same \/ Before
    BY <1>3, <2>2 DEF SplitProbeFails, RenderCount, OcrCount, OcrCountFailed
  <2>3. ASSUME TreeSettle(t) \/ IndexFails(t) PROVE Same \/ Before
    BY <1>1, <1>2, <2>3 DEF TreeSettle, IndexFails, Doc
  <2>4. ASSUME AssembleDecide(t) PROVE Same \/ Before
    BY <1>1, <1>3, <2>4 DEF AssembleDecide, Update, Doc
  <2>5. ASSUME DeletePurge(t) PROVE Same
    BY <1>1, <2>5 DEF DeletePurge, Doc
  <2> QED
    BY <1>4, <2>1, <2>2, <2>3, <2>4, <2>5
       DEF Work, Drop, SplitInit, LastAdvance, RenderStart, RenderEmit, RenderAdvance, RenderFails, RenderGiveUp,
           FailedAdvance, OcrStart, OcrSave, OcrRetry, OcrFail, AssembleHandover, IndexBuild, TreeStart,
           GenCleanup, DeleteObjects
<1>5. ASSUME NEW r \in reqs, ServeStep(r) \/ RequestDies(r) PROVE Same \/ Before \/ (doc'.deleted = doc.deleted /\ doc'.status # "deleting" /\ r.op = "cancel")
  <2>1. PagesParse(r) => Same \/ Before
    BY <1>1 DEF PagesParse, Update, Doc
  <2> QED
    BY <1>1, <1>5, <2>1
       DEF ServeStep, RequestDies, CancelWrite, DeleteEnqueue, ReparseEnqueue, PagesReset, PagesAdjust, PagesPick,
           PagesAdvance, In, Doc
<1>6. ASSUME Ask PROVE Same \/ Before \/ (DeleteMark /\ doc'.deleted /\ doc'.status = "deleting")
  BY <1>1, <1>6 DEF Ask, CancelCheck, DeleteMark, ReparseBump, PagesCheck, Doc
<1>7. ASSUME Housekeeping PROVE Same
  BY <1>7 DEF Housekeeping, HkReset, HkAdvance, HkDispatch, HkDelete
<1> QED
  BY <1>4, <1>5, <1>6, <1>7 DEF Next, WorkStep, Crash, StrayPickup, vars

LEMMA StopStep == TypeOK /\ "serial_stop" \in Timing /\ Stopping /\ [Next]_vars => Stopping'
<1> SUFFICES ASSUME TypeOK, "serial_stop" \in Timing, Stopping, [Next]_vars PROVE Stopping'
  OBVIOUS
<1>1. CASE DeleteMark /\ doc'.deleted /\ doc'.status = "deleting"
  BY <1>1 DEF DeleteMark, SerialStop, Open, Request, Stopping
<1>2. CASE doc'.deleted = doc.deleted /\ (doc'.status = "deleting" <=> doc.status = "deleting")
  <2>1. ASSUME NEW q \in reqs', q.op = "cancel" PROVE ~doc.deleted
    <3>1. CASE \E op, g, P, pc : Opens(op, g, P, pc)
      BY <3>1 DEF Opens, Visible
    <3>2. CASE UNCHANGED reqs \/ \E r \in reqs : Runs(r)
      BY <2>1, <3>2 DEF Runs, Stopping
    <3> QED
      BY <3>1, <3>2, StepReqs DEF ReqsStep
  <2> QED
    BY <1>2, <2>1 DEF Stopping
<1>3. CASE doc'.deleted = doc.deleted /\ doc'.status # "deleting" /\ \E r \in reqs : r.op = "cancel"
  BY <1>3 DEF Stopping
<1> QED
  BY <1>1, <1>2, <1>3, StepStatus

(* A page gets its image after the store has it, and loses its row's       *)
(* generation with it.                                                     *)
KeepsImages == \A p \in Page : row'[p].img => row[p].img /\ row'[p].gen = row[p].gen
KeepsBlobs == doc.gen \in blobs => doc.gen \in blobs' \/ (doc.status = "deleting" /\ UNCHANGED doc)

LEMMA StepImages ==
    ASSUME TypeOK, [Next]_vars
    PROVE  /\ KeepsBlobs
           /\ \A p \in Page : row'[p].img => \/ row[p].img /\ row'[p].gen = row[p].gen
                                             \/ row'[p].gen \in blobs'
<1>1. row \in [Page -> Row]
  BY DEF TypeOK
<1>2. ASSUME NEW g, Advance(g) PROVE KeepsImages
  BY <1>1, <1>2 DEF Advance, Advanced, Claim, Row, KeepsImages
<1>3. ASSUME NEW p, NEW g, NEW s, SetPage(p, g, s) PROVE KeepsImages
  BY <1>1, <1>3 DEF SetPage, Row, KeepsImages
<1>4. ASSUME UNCHANGED row PROVE KeepsImages
  BY <1>4 DEF KeepsImages
<1>5. ASSUME NEW t \in tasks, Work(t)
      PROVE  KeepsBlobs /\ (RenderEmit(t) \/ KeepsImages)
  <2>1. KeepsBlobs
    BY <1>5 DEF Work, KeepsBlobs, Drop, SplitStart, SplitInit, SplitProbeFails, SplitReady, SplitHeld, LastAdvance,
                RenderStart, RenderEmit, RenderAdvance, RenderFails, RenderGiveUp, RenderCount, FailedAdvance,
                OcrStart, OcrSave, OcrRetry, OcrFail, OcrCount, OcrCountFailed, AssembleStart, AssembleDecide,
                AssembleHandover, IndexBuild, TreeStart, TreeSettle, IndexFails, GenCleanup, DeleteObjects,
                DeletePurge, Starts, Runnable, TypeOK, Gen
  <2>2. ASSUME SplitInit(t) PROVE KeepsImages
    BY <2>2, <1>4 DEF SplitInit, FreshRows, KeepsImages
  <2>3. ASSUME DeletePurge(t) PROVE KeepsImages
    BY <2>3 DEF DeletePurge, NoRow, KeepsImages
  <2>4. ASSUME LastAdvance(t) \/ RenderAdvance(t) \/ FailedAdvance(t) PROVE KeepsImages
    BY <1>2, <2>4 DEF LastAdvance, RenderAdvance, FailedAdvance
  <2>5. ASSUME RenderGiveUp(t) \/ OcrSave(t) \/ OcrFail(t) PROVE KeepsImages
    BY <1>3, <1>4, <2>5 DEF RenderGiveUp, OcrSave, OcrFail
  <2> QED
    BY <1>4, <1>5, <2>1, <2>2, <2>3, <2>4, <2>5
       DEF Work, Drop, SplitStart, SplitProbeFails, SplitReady, SplitHeld, RenderStart, RenderFails, RenderCount,
           OcrStart, OcrRetry, OcrCount, OcrCountFailed, AssembleStart, AssembleDecide, AssembleHandover,
           IndexBuild, TreeStart, TreeSettle, IndexFails, GenCleanup, DeleteObjects
<1>6. ASSUME NEW t \in tasks, RenderEmit(t), NEW p \in Page, row'[p].img
      PROVE  (row[p].img /\ row'[p].gen = row[p].gen) \/ row'[p].gen \in blobs'
  BY <1>1, <1>6 DEF RenderEmit, Row
<1>7. ASSUME NEW r \in reqs, ServeStep(r) \/ RequestDies(r) PROVE UNCHANGED blobs /\ KeepsImages
  <2>1. PagesReset(r) => KeepsImages
    BY <1>1 DEF PagesReset, Row, KeepsImages
  <2> QED
    BY <1>2, <1>4, <1>7, <2>1
       DEF ServeStep, RequestDies, CancelWrite, DeleteEnqueue, ReparseEnqueue, PagesReset, PagesAdjust, PagesPick,
           PagesParse, PagesAdvance
<1>8. ASSUME Ask PROVE UNCHANGED <<blobs, row>>
  BY <1>8 DEF Ask, CancelCheck, DeleteMark, ReparseBump, PagesCheck
<1>9. ASSUME Housekeeping PROVE UNCHANGED blobs /\ KeepsImages
  <2>1. ASSUME NEW p, HkReset(p) PROVE KeepsImages
    BY <1>1, <2>1 DEF HkReset, Row, KeepsImages
  <2> QED
    BY <1>2, <1>4, <1>9, <2>1 DEF Housekeeping, HkReset, HkAdvance, HkDispatch, HkDelete
<1>10. ASSUME (\E t \in tasks : Crash(t) \/ StrayPickup(t)) \/ UNCHANGED vars PROVE UNCHANGED <<blobs, row>>
  BY <1>10 DEF Crash, StrayPickup, vars
<1>11. UNCHANGED blobs => KeepsBlobs
  BY DEF KeepsBlobs
<1> QED
  BY <1>4, <1>5, <1>6, <1>7, <1>8, <1>9, <1>10, <1>11 DEF Next, WorkStep, KeepsImages

(* While no document is deleted under a cancel, the image of every page of *)
(* the present generation is in the store for as long as the document is   *)
(* used: the cleanup after a reparse cannot take it, whatever is rendered, *)
(* retried or reparsed meanwhile (genCleanup, document:delete).            *)
THEOREM ImagesStay ==
    ASSUME "serial_stop" \in Timing
    PROVE  Spec => []ImagesKept
<1>1. Init => Stopping /\ ImagesKept
  BY DEF Init, Stopping, ImagesKept, NoRow
<1>2. TypeOK /\ GenInv /\ Stopping /\ ImagesKept /\ [Next]_vars => Stopping' /\ ImagesKept'
  <2> SUFFICES ASSUME TypeOK, GenInv, Stopping, ImagesKept, [Next]_vars PROVE Stopping' /\ ImagesKept'
    OBVIOUS
  <2>1. Stopping'
    BY StopStep
  <2>2. ASSUME doc'.exists, doc'.status # "deleting", NEW p \in Page, row'[p].gen = doc'.gen, row'[p].img
        PROVE  doc'.gen \in blobs'
    <3>1. CASE row'[p].gen \in blobs'
      BY <2>2, <3>1
    <3>2. CASE row[p].img /\ row'[p].gen = row[p].gen
      <4>1. doc'.gen = doc.gen
        <5>1. row[p].gen <= doc.gen /\ row[p].gen \in Int /\ row[p].gen = doc'.gen
          BY <2>2, <3>2 DEF GenInv, NoneAhead, TypeOK, Row
        <5> QED
          BY <5>1, StepGen
      <4>2. doc.exists /\ doc.status # "deleting"
        <5>1. doc.exists
          BY <2>2, StepRows DEF Calm, RowsFollowDoc
        <5>2. doc.status # "deleting"
          BY <2>1, <2>2, StepStatus DEF Stopping
        <5> QED
          BY <5>1, <5>2
      <4> QED
        BY <2>2, <3>2, <4>1, <4>2, StepImages DEF ImagesKept, KeepsBlobs
    <3> QED
      BY <2>2, <3>1, <3>2, StepImages
  <2> QED
    BY <2>1, <2>2 DEF ImagesKept
<1> QED
  BY <1>1, <1>2, GenAlways, PTL DEF Spec

-----------------------------------------------------------------------------
(* The assumptions of the theorems on counters and assembly.  Careful: no  *)
(* task of a parse dies (requests, uploads, deletions and the cleanup of   *)
(* objects may), and finishers are prompt.  Tame: housekeeping takes no    *)
(* work for dead that is alive, and a split neither dies nor is overtaken  *)
(* by a reparse.  Either: users do not ask for pages again, or they do so  *)
(* one request at a time, and neither it nor the parse dies.               *)

Careful == Crashable \subseteq {"api", "upload", "delete", "gencleanup"} /\ "prompt_finish" \in Timing
Tame == MaxStale = 0 /\ "split" \notin Crashable /\ (MaxGen = 1 \/ "prompt_split" \in Timing)
Either == "pages" \notin Ops \/ (Careful /\ "api" \notin Crashable /\ "serial_pages" \in Timing)

NewestSplits == \A t \in tasks : Past(t) => t.gen = doc.gen
OnePages == \A r, q \in reqs : r.op = "pages" /\ q.op = "pages" => r = q
Plain == \A t \in tasks : t.typ = "assemble" => t.page = 0 /\ t.att = 0
TurnInv == NewestSplits /\ OnePages /\ Plain

LEMMA TurnStep == Tame /\ Either /\ TypeOK /\ GenInv /\ TurnInv /\ [Next]_vars => TurnInv'
<1> SUFFICES ASSUME Tame, Either, TypeOK, GenInv, TurnInv, [Next]_vars PROVE TurnInv'
  OBVIOUS
<1>1. PICK X, R, new, g :
         /\ Moves(X, R, new) /\ Batched(new, g) /\ KnownGen(g)
         /\ \A u \in R : Past(u) => u.gen = doc.gen \/ \E t \in X : Past(t) /\ t.gen = u.gen
  BY StepTasks DEF TasksStep
<1>2. \A u \in tasks' : Past(u) => u.gen = doc.gen
  <2>1. \A u \in new : ~Past(u)
    BY <1>1 DEF Batched, Past
  <2>2. \A u \in tasks' : u \in tasks \/ u \in R \/ u \in new
    BY <1>1 DEF Moves, Enqueue
  <2>3. \A t \in X : Past(t) => t.gen = doc.gen
    BY <1>1 DEF TurnInv, NewestSplits, Moves
  <2> QED
    BY <1>1, <2>1, <2>2, <2>3 DEF TurnInv, NewestSplits
<1>3. ASSUME doc'.gen = doc.gen PROVE NewestSplits'
  BY <1>2, <1>3 DEF NewestSplits, Past
<1>4. ASSUME ReparseBump, doc'.gen = doc.gen + 1 PROVE NewestSplits'
  <2>1. PromptSplit /\ UNCHANGED tasks /\ doc.gen < MaxGen
    BY <1>4 DEF ReparseBump
  <2>2. "prompt_split" \in Timing
    BY <2>1, StepGen DEF Tame, Gen
  <2>3. \A t \in tasks : ~Past(t)
    BY <2>1, <2>2 DEF PromptSplit, Past
  <2> QED
    BY <2>1, <2>3 DEF NewestSplits, Past
<1>5. NewestSplits'
  BY <1>3, <1>4, StepGen
<1>6. OnePages'
  <2>1. ASSUME SerialPages, NEW P, Opens("pages", doc.gen, P, "reset") PROVE OnePages'
    <3>1. "serial_pages" \in Timing
      BY <2>1 DEF Opens, Either
    <3>2. \A r \in reqs : r.op # "pages"
      BY <2>1, <3>1 DEF SerialPages, NoPageRequest
    <3> QED
      BY <2>1, <3>2 DEF Opens, OnePages
  <2>2. ASSUME NEW op \in {"cancel", "delete", "reparse"}, NEW h, NEW P, NEW pc, Opens(op, h, P, pc) PROVE OnePages'
    BY <2>2 DEF Opens, Request, TurnInv, OnePages
  <2>3. ASSUME NEW r \in reqs, Runs(r) PROVE OnePages'
    BY <2>3 DEF Runs, TurnInv, OnePages
  <2>4. UNCHANGED reqs => OnePages'
    BY DEF TurnInv, OnePages
  <2> QED
    BY <2>1, <2>2, <2>3, <2>4, StepReqs DEF ReqsStep
<1>7. Plain'
  <2>1. \A u \in tasks' : u \in tasks \/ u \in new \/ \E t \in tasks : Kin(u, t)
    BY <1>1 DEF Moves, Enqueue
  <2> QED
    BY <1>1, <2>1 DEF Batched, Kin, TurnInv, Plain
<1> QED
  BY <1>5, <1>6, <1>7 DEF TurnInv

(* Ranks run from 0: a set of pages that is not empty has a first page.    *)
LEMMA LeastIn ==
    ASSUME NEW S \in SUBSET Page, S # {}
    PROVE  Least(S) \in S
<1> DEFINE n == Cardinality(S)
           f == [p \in S |-> Rank(p, S)]
           T == 0..(n - 1)
<1>1. IsFiniteSet(S) /\ n \in Nat /\ n # 0
  BY PagesFinite, FS_EmptySet, SizeAssumption
<1>2. IsFiniteSet(T) /\ Cardinality(T) = n
  BY <1>1, FS_Interval
<1>3. ASSUME NEW p \in S PROVE Rank(p, S) \in T
  <2> DEFINE B == {q \in S : q < p}
  <2>1. B \in SUBSET S /\ p \notin B
    BY SizeAssumption DEF Page
  <2>2. Cardinality(B) <= n /\ Cardinality(B) # n
    BY <1>1, <2>1, FS_Subset
  <2>3. Cardinality(B) \in Nat
    BY <2>1, PagesFinite, SizeAssumption
  <2> QED
    BY <1>1, <2>2, <2>3 DEF Rank
<1>4. ASSUME NEW p \in S, NEW q \in S, f[p] = f[q] PROVE p = q
  <2>1. Rank(p, S) = Rank(q, S) /\ Rank(p, S) \in Int
    BY <1>3, <1>4
  <2>2. ~(p < q) /\ ~(q < p)
    BY <2>1, RankIncreases
  <2> QED
    BY <2>2, SizeAssumption DEF Page
<1>5. f \in Injection(S, T)
  <2>1. f \in [S -> T]
    BY <1>3
  <2> QED
    BY <1>4, <2>1 DEF Injection, IsInjective
<1>6. f \in Surjection(S, T)
  BY <1>1, <1>2, <1>5, FS_Injection
<1>7. PICK p \in S : Rank(p, S) = 0
  <2>1. 0 \in T
    BY <1>1
  <2> QED
    BY <1>6, <2>1 DEF Surjection
<1>8. \A q \in S : p <= q
  <2>1. {q \in S : q < p} \in SUBSET Page
    OBVIOUS
  <2>2. {q \in S : q < p} = {}
    BY <1>7, <2>1, PagesFinite, FS_EmptySet DEF Rank
  <2> QED
    BY <2>2, SizeAssumption DEF Page
<1> QED
  BY <1>8 DEF Least

-----------------------------------------------------------------------------
(* Who holds a page.  A worker is a page task that is not dead-lettered;   *)
(* the page it was enqueued for is in its hands until it is finished, and  *)
(* in nobody else's.                                                       *)

Worker(t) == t.typ \in {"ocr", "render"} /\ t.pc # "archived"
Doing(typ) == IF typ = "ocr" THEN "ocr" ELSE "rendering"
Held(typ) == IF typ = "ocr" THEN {"ocr", "done", "failed"}
             ELSE {"rendering", "rendered", "ocr", "done", "failed"}

(* A page a worker was enqueued for is in its hands or past them.          *)
Own(t) ==
    \A p \in t.pages :
        /\ row[p].gen = t.gen => row[p].st \in Held(t.typ)
        /\ doc.exists /\ t.gen = doc.gen => row[p].gen = doc.gen

(* What a worker knows of its pages at each of its steps.                  *)
OcrHand(t) ==
    /\ t.pages = {t.page}
    /\ t.pc \in {"queued", "read", "count", "count_failed", "advance", "give_up"}
    /\ t.pc = "read" /\ row[t.page].gen = t.gen => row[t.page].st = "ocr"
RenderHand(t) ==
    /\ t.left \subseteq t.todo /\ t.todo \subseteq t.pages
    /\ t.pc \in {"queued", "emit", "advance", "give_up", "count"}
    /\ t.pc \in {"emit", "count"} => t.left # {}
    /\ t.pc \in {"emit", "advance"} => \A p \in t.left : row[p].gen = t.gen => row[p].st = "rendering"
InHand(t) == IF t.typ = "ocr" THEN OcrHand(t) ELSE RenderHand(t)

(* Where no task of a parse dies, a queued worker has work to do.          *)
Waits(t) ==
    t.pc = "queued" /\ doc.exists /\ t.gen = doc.gen =>
        \E p \in t.pages : row[p].gen = doc.gen /\ row[p].st = Doing(t.typ)

Alone(t, u) ==
    t.typ = u.typ /\ t.gen = u.gen =>
        \A p \in t.pages \cap u.pages : row[p].gen = t.gen /\ row[p].st = Doing(t.typ) => t = u

WorkerInv ==
    /\ \A t \in tasks : Worker(t) => Own(t) /\ InHand(t) /\ (Careful => Waits(t))
    /\ \A t, u \in tasks : Worker(t) /\ Worker(u) => Alone(t, u)

(* A row stays as it is, or is put in a status nobody holds it in, by      *)
(* nobody but the tasks in X.                                              *)
RowMoves(X) ==
    \A p \in Page :
        /\ row'[p].gen = row[p].gen
        /\ \/ row'[p].st = row[p].st
           \/ /\ row'[p].st \notin Busy
              /\ \A v \in tasks : Worker(v) /\ v.gen = row[p].gen /\ p \in v.pages => row'[p].st \in Held(v.typ)
              /\ \A v \in tasks \ X : Worker(v) /\ v.gen = row[p].gen /\ p \in v.pages => row[p].st # Doing(v.typ)

LEMMA RowsUnmoved == ASSUME UNCHANGED row, NEW X PROVE RowMoves(X)
BY DEF RowMoves

LEMMA WorkersFrame ==
    ASSUME TypeOK, WorkerInv, doc'.gen = doc.gen, doc'.exists => doc.exists,
           NEW X, NEW R, NEW new, Moves(X, R, new), RowMoves(X),
           \A u \in new : ~Worker(u),
           \A t \in X : t.pc # "archived",
           \A u \in R : Worker(u) => InHand(u)' /\ (Careful => Waits(u)')
    PROVE  WorkerInv'
<1>1. \A u \in tasks' : Worker(u) => u \in tasks \ X \/ u \in R
  BY DEF Moves, Enqueue
<1>2. ASSUME NEW u \in R, Worker(u) PROVE \E t \in X : Worker(t) /\ Kin(u, t)
  BY <1>2 DEF Moves, Kin, Worker
<1>3. \A t \in tasks : t.pages \subseteq Page /\ t.page \in 0..N
  BY DEF TypeOK, WellFormed, Tasks
<1>4. ASSUME NEW t \in tasks, Worker(t) PROVE Own(t)'
  <2>1. Own(t)
    BY <1>4 DEF WorkerInv
  <2> QED
    BY <1>3, <1>4, <2>1 DEF Own, RowMoves
<1>5. ASSUME NEW t \in tasks \ X, Worker(t) PROVE InHand(t)' /\ (Careful => Waits(t)')
  <2>1. InHand(t) /\ (Careful => Waits(t))
    BY <1>5 DEF WorkerInv
  <2>2. ASSUME NEW p \in t.pages, row[p].gen = t.gen, row[p].st = Doing(t.typ)
        PROVE  row'[p].gen = t.gen /\ row'[p].st = Doing(t.typ)
    BY <1>3, <1>5, <2>2 DEF RowMoves
  <2>3. \A p \in t.pages : row'[p].gen = row[p].gen
    BY <1>3 DEF RowMoves
  <2>4. InHand(t)'
    <3>1. CASE t.typ = "ocr"
      BY <2>1, <2>2, <2>3, <3>1 DEF InHand, OcrHand, Doing
    <3>2. CASE t.typ # "ocr"
      BY <2>1, <2>2, <2>3, <3>2 DEF InHand, RenderHand, Doing
    <3> QED
      BY <3>1, <3>2
  <2>5. Careful => Waits(t)'
    BY <2>1, <2>2 DEF Waits
  <2> QED
    BY <2>4, <2>5
<1>6. ASSUME NEW t \in tasks, NEW u \in tasks, Worker(t), Worker(u), t \in tasks \ X \/ u \in tasks \ X
      PROVE  Alone(t, u)'
  <2>1. Alone(t, u)
    BY <1>6 DEF WorkerInv
  <2> QED
    BY <1>3, <1>6, <2>1 DEF Alone, RowMoves, Doing, Busy
<1>7. ASSUME NEW u \in R, Worker(u) PROVE Own(u)'
  <2>1. PICK t \in X : Worker(t) /\ Kin(u, t)
    BY <1>2, <1>7
  <2>2. Own(t)'
    BY <1>4, <2>1 DEF Moves
  <2> QED
    BY <2>1, <2>2 DEF Own, Kin
<1>8. ASSUME NEW u \in R, NEW v \in tasks \ X, Worker(u), Worker(v) PROVE Alone(u, v)' /\ Alone(v, u)'
  <2>1. PICK t \in X : Worker(t) /\ Kin(u, t)
    BY <1>2, <1>8
  <2>2. Alone(t, v)' /\ t \in tasks
    BY <1>6, <1>8, <2>1 DEF Moves
  <2>3. t # v
    BY <1>8, <2>1
  <2> QED
    BY <2>1, <2>2, <2>3 DEF Alone, Kin
<1>9. \A u, v \in R : Alone(u, v)'
  BY DEF Alone, Moves
<1>10. ASSUME NEW u \in tasks', Worker(u) PROVE Own(u)' /\ InHand(u)' /\ (Careful => Waits(u)')
  BY <1>1, <1>4, <1>5, <1>7, <1>10
<1>11. ASSUME NEW u \in tasks', NEW v \in tasks', Worker(u), Worker(v) PROVE Alone(u, v)'
  BY <1>1, <1>6, <1>8, <1>9, <1>11
<1>12. \A u : Worker(u)' <=> Worker(u)
  BY DEF Worker
<1> QED
  BY <1>10, <1>11, <1>12 DEF WorkerInv

(* Batches do not overlap: the lead pages are apart by whole batches.      *)
LEMMA SameMultiple ==
    ASSUME NEW b \in Nat \ {0}, NEW x \in Nat, NEW y \in Nat, x % b = 0, y % b = 0, x \div b = y \div b
    PROVE  x = y
OBVIOUS

LEMMA LeadsApart ==
    ASSUME row \in [Page -> Row], NEW g \in Gen, NEW p \in Leads(g), NEW q \in Leads(g),
           NEW x \in BatchFrom(p, g) \cap BatchFrom(q, g)
    PROVE  p = q
<1> DEFINE S == Rows(g, "pending")
<1>1. S \in SUBSET Page /\ p \in S /\ q \in S /\ p \in Page /\ q \in Page
  BY DEF Leads, RenderClaims, Rows
<1>2. RenderBatchOf(p, g) = RenderBatchOf(q, g)
  BY DEF BatchFrom
<1>3. Rank(p, S) % Batch = 0 /\ Rank(q, S) % Batch = 0
  BY DEF Leads
<1>4. Rank(p, S) \in Nat /\ Rank(q, S) \in Nat
  BY <1>1, RankType, SizeAssumption
<1>5. Rank(p, S) = Rank(q, S)
  <2>1. Rank(p, S) \div Batch = Rank(q, S) \div Batch
    BY <1>2 DEF RenderBatchOf
  <2> HIDE DEF S
  <2> QED
    BY <1>3, <1>4, <2>1, SameMultiple, SizeAssumption
<1>6. ~(p < q) /\ ~(q < p)
  BY <1>1, <1>4, <1>5, RankIncreases
<1> QED
  BY <1>1, <1>6, SizeAssumption DEF Page

(* What Advance does to one row.                                           *)
LEMMA AdvanceOne ==
    ASSUME row \in [Page -> Row], NEW g \in Gen, Advance(g), NEW p \in Page
    PROVE  /\ row'[p].gen = row[p].gen
           /\ \/ p \in OcrClaims(g) /\ row[p].gen = g /\ row[p].st = "rendered" /\ row'[p].st = "ocr"
              \/ p \in RenderClaims(g) /\ row[p].gen = g /\ row[p].st = "pending" /\ row'[p].st = "rendering"
              \/ p \notin OcrClaims(g) \cup RenderClaims(g) /\ row'[p] = row[p]
<1>1. /\ p \in OcrClaims(g) => row[p].gen = g /\ row[p].st = "rendered"
      /\ p \in RenderClaims(g) => row[p].gen = g /\ row[p].st = "pending"
  BY DEF OcrClaims, RenderClaims, Rows
<1> QED
  BY <1>1 DEF Advance, Advanced, Claim, Row

LEMMA WorkersAdvance ==
    ASSUME TypeOK, WorkerInv, NEW g \in Gen, Advance(g), UNCHANGED doc,
           NEW X, NEW R, Moves(X, R, NewTasks(g)),
           \A t \in X : t.pc # "archived",
           \A u \in R : Worker(u) => InHand(u)' /\ (Careful => u.pc # "queued")
    PROVE  WorkerInv'
<1>1. \A u \in tasks' : Worker(u) => u \in tasks \ X \/ u \in R \/ u \in NewTasks(g)
  BY DEF Moves, Enqueue
<1>2. ASSUME NEW u \in R, Worker(u) PROVE \E t \in X : Worker(t) /\ Kin(u, t)
  BY <1>2 DEF Moves, Kin, Worker
<1>3. \A t \in tasks : t.pages \subseteq Page /\ t.page \in 0..N
  BY DEF TypeOK, WellFormed, Tasks
<1>4. ASSUME NEW t \in tasks, Worker(t), t.gen = g, NEW p \in t.pages
      PROVE  p \notin RenderClaims(g) /\ (t.typ = "ocr" => p \notin OcrClaims(g))
  <2>1. row[p].gen = g => row[p].st \in Held(t.typ)
    BY <1>4 DEF WorkerInv, Own
  <2> QED
    BY <1>4, <2>1 DEF Held, OcrClaims, RenderClaims, Rows, Worker
<1>R. row \in [Page -> Row]
  BY DEF TypeOK
<1>5. \A p \in Page : row'[p].gen = row[p].gen
  BY <1>R, AdvanceOne
<1>6. ASSUME NEW t \in tasks, Worker(t), NEW p \in t.pages
      PROVE  /\ row[p].gen = t.gen => row'[p].st \in Held(t.typ)
             /\ row[p].gen = t.gen => (row'[p].st = Doing(t.typ) <=> row[p].st = Doing(t.typ))
  <2>1. row[p].gen = t.gen => row[p].st \in Held(t.typ)
    BY <1>6 DEF WorkerInv, Own
  <2>2. p \in Page
    BY <1>3
  <2> QED
    BY <1>R, <1>4, <1>6, <2>1, <2>2, AdvanceOne DEF Held, Doing, Worker
<1>7. ASSUME NEW t \in tasks, Worker(t) PROVE Own(t)'
  <2>1. Own(t)
    BY <1>7 DEF WorkerInv
  <2> QED
    BY <1>3, <1>5, <1>6, <1>7, <2>1 DEF Own
<1>8. ASSUME NEW t \in tasks, Worker(t) PROVE InHand(t)' /\ (Careful => Waits(t)')
  <2>1. InHand(t) /\ (Careful => Waits(t))
    BY <1>8 DEF WorkerInv
  <2>2. \A p \in t.pages : row'[p].gen = row[p].gen
    BY <1>3, <1>5
  <2>3. InHand(t)'
    <3>1. CASE t.typ = "ocr"
      BY <1>6, <1>8, <2>1, <2>2, <3>1 DEF InHand, OcrHand, Doing
    <3>2. CASE t.typ # "ocr"
      BY <1>6, <1>8, <2>1, <2>2, <3>2 DEF InHand, RenderHand, Doing
    <3> QED
      BY <3>1, <3>2
  <2>4. Careful => Waits(t)'
    BY <1>6, <1>8, <2>1, <2>2 DEF Waits
  <2> QED
    BY <2>3, <2>4
<1>9. ASSUME NEW t \in tasks, NEW u \in tasks, Worker(t), Worker(u) PROVE Alone(t, u)'
  <2>1. Alone(t, u)
    BY <1>9 DEF WorkerInv
  <2> QED
    BY <1>3, <1>5, <1>6, <1>9, <2>1 DEF Alone
<1>10. ASSUME NEW u \in R, Worker(u) PROVE Own(u)' /\ InHand(u)' /\ (Careful => Waits(u)')
  <2>1. PICK t \in X : Worker(t) /\ Kin(u, t)
    BY <1>2, <1>10
  <2>2. Own(t)'
    BY <1>7, <2>1 DEF Moves
  <2>3. Own(u)'
    BY <2>1, <2>2 DEF Own, Kin
  <2> QED
    BY <1>10, <2>3 DEF Waits
<1>11. ASSUME NEW u \in R, NEW v \in tasks \ X, Worker(u), Worker(v) PROVE Alone(u, v)' /\ Alone(v, u)'
  <2>1. PICK t \in X : Worker(t) /\ Kin(u, t)
    BY <1>2, <1>11
  <2>2. Alone(t, v)' /\ t # v
    BY <1>9, <1>11, <2>1 DEF Moves
  <2> QED
    BY <2>1, <2>2 DEF Alone, Kin
<1>12. ASSUME NEW u \in NewTasks(g), Worker(u)
       PROVE  \/ u.typ = "ocr" /\ u.page \in OcrClaims(g) /\ u.pages = {u.page}
              \/ u.typ = "render" /\ u.page \in Leads(g) /\ u.pages = BatchFrom(u.page, g)
  BY <1>12, NewTasksAre DEF OcrTask, RenderTask, AssembleTask, Worker
<1>13. ASSUME NEW u \in NewTasks(g), Worker(u)
       PROVE  /\ u.pages # {}
              /\ \A p \in u.pages : /\ p \in Page /\ row'[p].gen = g /\ row'[p].st = Doing(u.typ)
                                    /\ p \in IF u.typ = "ocr" THEN OcrClaims(g) ELSE RenderClaims(g)
  <2>1. OcrClaims(g) \subseteq Page /\ RenderClaims(g) \subseteq Page
    BY DEF OcrClaims, RenderClaims, Rows
  <2>2. \A p \in u.pages : p \in IF u.typ = "ocr" THEN OcrClaims(g) ELSE RenderClaims(g)
    BY <1>12, <1>13 DEF BatchFrom
  <2>3. u.pages # {}
    BY <1>12, <1>13 DEF BatchFrom, Leads
  <2>4. OcrClaims(g) \cap RenderClaims(g) = {}
    BY DEF OcrClaims, RenderClaims, Rows
  <2> QED
    BY <1>R, <1>12, <1>13, <2>1, <2>2, <2>3, <2>4, AdvanceOne DEF Doing
<1>14. ASSUME NEW u \in NewTasks(g), Worker(u) PROVE Own(u)' /\ InHand(u)' /\ Waits(u)'
  <2>1. u.gen = g /\ u.pc = "queued" /\ u.left = {} /\ u.todo = {}
    BY NewTasksAre
  <2>2. Own(u)'
    BY <1>13, <1>14, <2>1 DEF Own, Held, Doing
  <2>3. InHand(u)'
    BY <1>12, <1>14, <2>1 DEF InHand, OcrHand, RenderHand
  <2>4. Waits(u)'
    BY <1>13, <1>14, <2>1 DEF Waits
  <2> QED
    BY <2>2, <2>3, <2>4
<1>15. ASSUME NEW u \in NewTasks(g), NEW v \in tasks, Worker(u), Worker(v) PROVE Alone(u, v)' /\ Alone(v, u)'
  <2>1. u.gen = g
    BY NewTasksAre
  <2>2. u.typ = v.typ /\ v.gen = g => u.pages \cap v.pages = {}
    BY <1>4, <1>13, <1>15 DEF Worker
  <2> QED
    BY <2>1, <2>2 DEF Alone
<1>16. ASSUME NEW u \in NewTasks(g), NEW v \in R, Worker(u), Worker(v) PROVE Alone(u, v)' /\ Alone(v, u)'
  <2>1. PICK t \in X : Worker(t) /\ Kin(v, t)
    BY <1>2, <1>16
  <2>2. Alone(u, t)' /\ Alone(t, u)' /\ t \in tasks
    BY <1>15, <1>16, <2>1 DEF Moves
  <2>3. u.gen = g
    BY NewTasksAre
  <2>4. u.typ = t.typ /\ t.gen = g => u.pages \cap t.pages = {}
    BY <1>4, <1>13, <1>16, <2>1, <2>2 DEF Worker
  <2> QED
    BY <2>1, <2>3, <2>4 DEF Alone, Kin
<1>17. ASSUME NEW u \in NewTasks(g), NEW v \in NewTasks(g), Worker(u), Worker(v) PROVE Alone(u, v)'
  <2> SUFFICES ASSUME u.typ = v.typ, NEW p \in u.pages \cap v.pages PROVE u = v
    BY DEF Alone
  <2>1. u.page = v.page
    <3>1. CASE u.typ = "ocr"
      BY <1>12, <1>17, <3>1
    <3>2. CASE u.typ # "ocr"
      BY <1>R, <1>12, <1>17, <3>2, LeadsApart
    <3> QED
      BY <3>1, <3>2
  <2>2. Id(u) = Id(v)
    BY <1>17, <2>1, NewTasksAre DEF Id, Worker
  <2> QED
    BY <1>R, <2>2, NewTasksBatched DEF Batched
<1>18. \A u, v \in R : Alone(u, v)'
  BY DEF Alone, Moves
<1>19. ASSUME NEW u \in tasks', Worker(u) PROVE Own(u)' /\ InHand(u)' /\ (Careful => Waits(u)')
  BY <1>1, <1>7, <1>8, <1>10, <1>14, <1>19
<1>20. ASSUME NEW u \in tasks', NEW v \in tasks', Worker(u), Worker(v) PROVE Alone(u, v)'
  BY <1>1, <1>9, <1>11, <1>15, <1>16, <1>17, <1>18, <1>20
<1>21. \A u : Worker(u)' <=> Worker(u)
  BY DEF Worker
<1> QED
  BY <1>19, <1>20, <1>21 DEF WorkerInv

(* The holder of a page finishes its part of it.                           *)
LEMMA FinishMoves ==
    ASSUME TypeOK, WorkerInv, NEW t \in tasks, Worker(t), NEW p \in t.pages,
           row[p].gen = t.gen, row[p].st = Doing(t.typ),
           NEW s, s \in {"done", "failed"} \/ (s = "rendered" /\ t.typ = "render"),
           row'[p].gen = row[p].gen, row'[p].st = s, \A q \in Page \ {p} : row'[q] = row[q]
    PROVE  RowMoves({t})
<1>1. ASSUME NEW v \in tasks, Worker(v), v.gen = row[p].gen, p \in v.pages
      PROVE  s \in Held(v.typ) /\ (row[p].st = Doing(v.typ) => v = t)
  <2>1. row[p].st \in Held(v.typ)
    BY <1>1 DEF WorkerInv, Own
  <2>2. Alone(t, v)
    BY <1>1 DEF WorkerInv
  <2>3. s \in Held(v.typ)
    BY <1>1, <2>1 DEF Held, Doing, Worker
  <2>4. row[p].st = Doing(v.typ) => v = t
    BY <1>1, <2>2 DEF Alone, Doing, Worker
  <2> QED
    BY <2>3, <2>4
<1>2. s \notin Busy
  BY DEF Busy
<1>3. \A v \in tasks \ {t} : v # t
  OBVIOUS
<1> QED
  BY <1>1, <1>2, <1>3 DEF RowMoves

(* A worker in error goes back to the queue with nothing in its hands.     *)
LEMMA ErroredHand ==
    ASSUME TypeOK, WorkerInv, NEW t \in tasks, Worker(t), NEW u \in Errored(t), Worker(u)
    PROVE  InHand(u)' /\ u.pc = "queued" /\ u.pages = t.pages /\ u.typ = t.typ /\ u.gen = t.gen
<1>1. t \in Tasks
  BY DEF TypeOK, WellFormed
<1>2. Kin(u, t) /\ u.pc \in {"queued", "archived"} /\ (u.pc = "queued" => u = Restart(t))
  BY <1>1, ErroredKin
<1>3. u.pc = "queued" /\ u.left = {} /\ u.todo = {}
  BY <1>1, <1>2, RestartKin DEF Worker
<1>4. InHand(t)
  BY DEF WorkerInv
<1> QED
  BY <1>2, <1>3, <1>4 DEF InHand, OcrHand, RenderHand, Kin

LEMMA WorkersOcr ==
    ASSUME TypeOK, WorkerInv, NEW t \in tasks, t.typ = "ocr",
           OcrStart(t) \/ OcrSave(t) \/ OcrRetry(t) \/ OcrFail(t) \/ OcrCount(t) \/ OcrCountFailed(t)
    PROVE  WorkerInv'
<1>1. t \in Tasks /\ t.pc # "archived" /\ Worker(t)
  BY WorkLive DEF TypeOK, WellFormed, Work, Worker
<1>2. OcrHand(t) /\ Own(t) /\ (Careful => Waits(t))
  BY <1>1 DEF WorkerInv, InHand
<1>3. doc'.gen = doc.gen /\ (doc'.exists => doc.exists)
  BY WorkGen DEF Work
<1>4. t.page \in Page /\ t.pages = {t.page} /\ t.pages \subseteq Page
  BY <1>1, <1>2 DEF OcrHand, Tasks
<1>5. ASSUME NEW pc \in Steps, Goto(t, pc), RowMoves({t}), pc \in {"read", "count", "count_failed", "advance", "give_up"},
             pc = "read" /\ row'[t.page].gen = t.gen => row'[t.page].st = "ocr"
      PROVE  WorkerInv'
  <2> DEFINE u == [t EXCEPT !.pc = pc]
  <2>1. Moves({t}, {u}, {})
    BY <1>5, GotoMoves
  <2>2. Kin(u, t) /\ u.pc = pc
    BY <1>1, PcKin
  <2> HIDE DEF u
  <2>3. InHand(u)'
    BY <1>2, <1>5, <2>2 DEF InHand, OcrHand, Kin
  <2>4. Waits(u)'
    BY <1>5, <2>2 DEF Waits
  <2> QED
    BY <1>1, <1>3, <1>5, <2>1, <2>3, <2>4, WorkersFrame
<1>6. ASSUME Ack(t, {}), RowMoves({t}) PROVE WorkerInv'
  <2>1. CASE Moves({t}, {}, {})
    BY <1>1, <1>3, <1>6, <2>1, WorkersFrame
  <2>2. CASE t.typ \in Crashable /\ Moves({t}, Errored(t), {})
    <3>1. \A u \in Errored(t) : Worker(u) => InHand(u)' /\ (Careful => Waits(u)')
      BY <1>1, <2>2, ErroredHand DEF Careful
    <3> QED
      BY <1>1, <1>3, <1>6, <2>2, <3>1, WorkersFrame
  <2> QED
    BY <1>6, <2>1, <2>2, AckMoves
<1>7. ASSUME Error(t), UNCHANGED row,
             doc'.exists /\ t.gen = doc.gen => row[t.page].gen = doc.gen /\ row[t.page].st = "ocr"
      PROVE  WorkerInv'
  <2>1. \A u \in Errored(t) : Worker(u) => InHand(u)' /\ (Careful => Waits(u)')
    BY <1>1, <1>3, <1>4, <1>7, ErroredHand DEF Waits, Doing
  <2>2. Moves({t}, Errored(t), {}) /\ RowMoves({t})
    BY <1>7, ErrorMoves, RowsUnmoved
  <2> QED
    BY <1>1, <1>3, <2>1, <2>2, WorkersFrame
<1>8. ASSUME NEW s \in {"done", "failed"}, SetPage(t.page, t.gen, s), t.pc = "read" PROVE RowMoves({t})
  <2>1. CASE row[t.page].gen = t.gen
    <3>1. row[t.page].st = Doing(t.typ)
      BY <1>2, <1>8, <2>1 DEF OcrHand, Doing
    <3>2. row' = [row EXCEPT ![t.page].st = s]
      BY <1>8, <2>1 DEF SetPage
    <3>3. row'[t.page].gen = row[t.page].gen /\ row'[t.page].st = s /\ \A q \in Page \ {t.page} : row'[q] = row[q]
      BY <1>4, <3>2 DEF TypeOK, Row
    <3>4. s \in {"done", "failed"} /\ t.page \in t.pages
      BY <1>4
    <3>5. PICK p \in t.pages : p = t.page
      BY <1>4
    <3>6. row[p].gen = t.gen /\ row[p].st = Doing(t.typ)
      BY <2>1, <3>1, <3>5
    <3>7. row'[p].gen = row[p].gen /\ row'[p].st = s /\ \A q \in Page \ {p} : row'[q] = row[q]
      BY <3>3, <3>5
    <3>8. s \in {"done", "failed"} \/ (s = "rendered" /\ t.typ = "render")
      OBVIOUS
    <3> QED
      BY <1>1, <3>6, <3>7, <3>8, FinishMoves
  <2> QED
    BY <1>8, <2>1, RowsUnmoved DEF SetPage
<1>9. CASE OcrStart(t)
  <2>1. row[t.page].gen = t.gen => row[t.page].st \in Held(t.typ)
    BY <1>2, <1>4 DEF Own
  <2> QED
    BY <1>5, <1>6, <1>9, <2>1, RowsUnmoved DEF OcrStart, Held, Steps
<1>10. CASE OcrSave(t)
  BY <1>5, <1>6, <1>8, <1>10 DEF OcrSave, At, Steps
<1>11. CASE OcrRetry(t)
  BY <1>2, <1>4, <1>7, <1>11 DEF OcrRetry, At, OcrHand, Own
<1>12. CASE OcrFail(t)
  BY <1>5, <1>8, <1>12 DEF OcrFail, At, Steps
<1>13. CASE OcrCount(t)
  BY <1>3, <1>5, <1>7, <1>13, RowsUnmoved DEF OcrCount, Counted, Steps
<1>14. CASE OcrCountFailed(t)
  BY <1>5, <1>14, RowsUnmoved DEF OcrCountFailed, Steps
<1> QED
  BY <1>9, <1>10, <1>11, <1>12, <1>13, <1>14

(* A task ends, in error or not, and leaves what it enqueues: either it    *)
(* advances the rows, or it enqueues no worker.                            *)
LEMMA WorkersDone ==
    ASSUME TypeOK, WorkerInv, NEW t \in tasks, t.pc # "archived", NEW R, NEW new, Moves({t}, R, new),
           \A u \in R : Worker(u) => u \in Errored(t) /\ ~Careful,
           \/ /\ t.gen \in Gen /\ Advance(t.gen) /\ UNCHANGED doc /\ new = NewTasks(t.gen)
           \/ /\ RowMoves({t}) /\ doc'.gen = doc.gen /\ (doc'.exists => doc.exists)
              /\ \A u \in new : ~Worker(u)
    PROVE  WorkerInv'
<1>1. ASSUME NEW u \in R, Worker(u) PROVE InHand(u)' /\ ~Careful
  <2>1. Kin(u, t)
    BY <1>1 DEF Moves
  <2>2. Worker(t)
    BY <1>1, <2>1 DEF Worker, Kin
  <2> QED
    BY <1>1, <2>2, ErroredHand
<1>2. \A x \in {t} : x.pc # "archived"
  OBVIOUS
<1>3. CASE t.gen \in Gen /\ Advance(t.gen) /\ UNCHANGED doc /\ new = NewTasks(t.gen)
  BY <1>1, <1>2, <1>3, WorkersAdvance
<1>4. CASE RowMoves({t}) /\ doc'.gen = doc.gen /\ (doc'.exists => doc.exists) /\ \A u \in new : ~Worker(u)
  BY <1>1, <1>2, <1>4, WorkersFrame
<1> QED
  BY <1>3, <1>4

LEMMA WorkersAck ==
    ASSUME TypeOK, WorkerInv, NEW t \in tasks, t.pc # "archived", NEW new,
           Ack(t, new) \/ tasks' = Enqueue(new, Others(t) \cup Archived(t)),
           \/ /\ t.gen \in Gen /\ Advance(t.gen) /\ UNCHANGED doc /\ new = NewTasks(t.gen)
           \/ /\ RowMoves({t}) /\ doc'.gen = doc.gen /\ (doc'.exists => doc.exists)
              /\ \A u \in new : ~Worker(u)
    PROVE  WorkerInv'
<1>1. t \in Tasks
  BY DEF TypeOK, WellFormed
<1>2. PICK R : Moves({t}, R, new) /\ \A u \in R : Worker(u) => u \in Errored(t) /\ ~Careful
  <2>1. CASE tasks' = Enqueue(new, Others(t) \cup Archived(t))
    <3>1. Moves({t}, Archived(t), new) /\ \A u \in Archived(t) : ~Worker(u)
      BY <1>1, <2>1, RestartKin DEF Moves, Others, Worker
    <3> QED
      BY <3>1
  <2>2. CASE Ack(t, new)
    <3>1. CASE Moves({t}, {}, new)
      BY <3>1
    <3>2. CASE t.typ \in Crashable /\ Moves({t}, Errored(t), new)
      <4>1. \A u \in Errored(t) : Worker(u) => ~Careful
        BY <1>1, <3>2, ErroredKin DEF Careful, Worker, Kin
      <4> QED
        BY <3>2, <4>1
    <3> QED
      BY <2>2, <3>1, <3>2, AckMoves
  <2> QED
    BY <2>1, <2>2
<1> QED
  BY <1>2, WorkersDone

LEMMA WorkersRender ==
    ASSUME TypeOK, WorkerInv, NEW t \in tasks, t.typ = "render",
           \/ RenderStart(t) \/ RenderEmit(t) \/ RenderAdvance(t) \/ RenderFails(t)
           \/ RenderGiveUp(t) \/ RenderCount(t) \/ FailedAdvance(t)
    PROVE  WorkerInv'
<1>1. t \in Tasks /\ t.pc # "archived" /\ Worker(t) /\ t.gen \in Gen
  BY WorkLive DEF TypeOK, WellFormed, Work, Worker
<1>2. RenderHand(t) /\ Own(t)
  BY <1>1 DEF WorkerInv, InHand
<1>3. doc'.gen = doc.gen /\ (doc'.exists => doc.exists)
  BY WorkGen DEF Work
<1>4. t.left \subseteq t.pages /\ t.pages \subseteq Page /\ (t.left # {} => Least(t.left) \in t.left)
  BY <1>1, <1>2, LeastIn DEF RenderHand, Tasks
<1>5. ASSUME NEW u, Kin(u, t), u.pc # "queued", RenderHand(u)', RowMoves({t}), tasks' = Others(t) \cup {u}
      PROVE  WorkerInv'
  <2>1. Moves({t}, {u}, {})
    BY <1>5, EnqueueNone, OneMoves
  <2>2. Waits(u)' /\ InHand(u)'
    BY <1>5 DEF Waits, Kin, InHand
  <2> QED
    BY <1>1, <1>3, <1>5, <2>1, <2>2, WorkersFrame
<1>6. Ack(t, {}) /\ UNCHANGED row => WorkerInv'
  BY <1>1, <1>3, WorkersAck, RowsUnmoved
<1>7. ASSUME NEW p \in t.left, NEW s, NEW i, s = "rendered" \/ s = "failed",
             row[p].gen = t.gen => row[p].st = "rendering",
             row' = IF row[p].gen = t.gen THEN [row EXCEPT ![p].st = s, ![p].img = i] ELSE row
      PROVE  RowMoves({t})
  <2>1. CASE row[p].gen = t.gen
    <3>1. row'[p].gen = row[p].gen /\ row'[p].st = s /\ \A q \in Page \ {p} : row'[q] = row[q]
      BY <1>4, <1>7, <2>1 DEF TypeOK, Row
    <3>2. p \in t.pages /\ row[p].st = Doing(t.typ)
      BY <1>4, <1>7, <2>1 DEF Doing
    <3>3. s \in {"done", "failed"} \/ (s = "rendered" /\ t.typ = "render")
      BY <1>7
    <3> QED
      BY <1>1, <2>1, <3>1, <3>2, <3>3, FinishMoves
  <2> QED
    BY <1>7, <2>1, RowsUnmoved
<1>8. CASE RenderStart(t)
  <2>1. PICK todo \in SUBSET t.pages :
           /\ \A p \in todo : row[p].st = "rendering"
           /\ UNCHANGED row
           /\ IF todo = {} THEN Ack(t, {}) ELSE tasks' = Others(t) \cup {[t EXCEPT !.pc = "emit", !.todo = todo, !.left = todo]}
    BY <1>8 DEF RenderStart, StillRendering
  <2>2. PICK u : /\ u = [t EXCEPT !.pc = "emit", !.todo = todo, !.left = todo]
                 /\ Kin(u, t) /\ u.pc = "emit" /\ u.todo = todo /\ u.left = todo
    <3> DEFINE v == [t EXCEPT !.pc = "emit", !.todo = todo, !.left = todo]
    <3>1. Kin(v, t) /\ v.pc = "emit" /\ v.todo = todo /\ v.left = todo
      BY <1>1, <2>1 DEF Kin, Tasks, Steps
    <3> QED
      BY <3>1
  <2>4. \A p \in todo : row'[p].st = "rendering"
    BY <2>1
  <2>5. ASSUME todo # {} PROVE WorkerInv'
    <3>1. u.pages = t.pages
      BY <2>2 DEF Kin
    <3>2. RenderHand(u)'
      BY <2>1, <2>2, <2>4, <2>5, <3>1 DEF RenderHand
    <3>3. u.pc # "queued" /\ RowMoves({t}) /\ tasks' = Others(t) \cup {u}
      BY <2>1, <2>2, <2>5, RowsUnmoved
    <3> QED
      BY <1>5, <2>2, <3>2, <3>3
  <2> QED
    BY <1>6, <2>1, <2>5
<1>9. CASE RenderEmit(t)
  <2> DEFINE p == Least(t.left)
             u == [t EXCEPT !.pc = "advance", !.left = @ \ {p}]
  <2>1. /\ t.pc = "emit" /\ tasks' = Others(t) \cup {u}
        /\ row' = IF row[p].gen = t.gen THEN [row EXCEPT ![p].st = "rendered", ![p].img = TRUE] ELSE row
    BY <1>9 DEF RenderEmit, At
  <2>2. Kin(u, t) /\ u.pc = "advance" /\ u.left = t.left \ {p} /\ u.todo = t.todo
    BY <1>1 DEF Kin, Tasks, Steps
  <2>3. p \in t.left /\ (\A q \in t.left : row[q].gen = t.gen => row[q].st = "rendering")
    BY <1>2, <1>4, <2>1 DEF RenderHand
  <2> HIDE DEF p, u
  <2>4. RowMoves({t})
    BY <1>7, <2>1, <2>3
  <2>5. \A q \in Page \ {p} : row'[q] = row[q]
    BY <2>1 DEF TypeOK
  <2>6. RenderHand(u)'
    BY <1>2, <1>4, <2>2, <2>3, <2>5 DEF RenderHand, Kin
  <2> QED
    BY <1>5, <2>1, <2>2, <2>4, <2>6
<1>10. CASE RenderAdvance(t)
  <2> DEFINE u == [t EXCEPT !.pc = "emit"]
  <2>1. /\ t.pc = "advance" /\ Advance(t.gen) /\ UNCHANGED doc
        /\ IF t.left = {} THEN Ack(t, NewTasks(t.gen)) ELSE tasks' = Enqueue(NewTasks(t.gen), Others(t) \cup {u})
    BY <1>10 DEF RenderAdvance, At
  <2>2. Kin(u, t) /\ u.pc = "emit" /\ u.left = t.left /\ u.todo = t.todo
    BY <1>1, PcKin DEF Steps
  <2> HIDE DEF u
  <2>3. CASE t.left = {}
    BY <1>1, <2>1, <2>3, WorkersAck
  <2>4. CASE t.left # {}
    <3>1. Moves({t}, {u}, NewTasks(t.gen))
      BY <2>1, <2>2, <2>4, OneMoves
    <3>2. \A p \in t.left : row[p].gen = t.gen => row[p].st = "rendering"
      BY <1>2, <2>1 DEF RenderHand
    <3>3. ASSUME NEW p \in t.left, row'[p].gen = t.gen PROVE row'[p].st = "rendering"
      <4>1. row[p].gen = row'[p].gen /\ (row[p].st = "rendering" => row'[p] = row[p])
        <5>1. p \in Page /\ row \in [Page -> Row]
          BY <1>4 DEF TypeOK
        <5>2. row[p].st = "rendering" => p \notin OcrClaims(t.gen) \cup RenderClaims(t.gen)
          BY DEF OcrClaims, RenderClaims, Rows
        <5> QED
          BY <1>1, <2>1, <5>1, <5>2, AdvanceOne
      <4> QED
        BY <3>2, <3>3, <4>1
    <3>4. InHand(u)' /\ u.pc # "queued"
      BY <1>2, <2>2, <2>4, <3>3 DEF InHand, RenderHand, Kin
    <3>5. \A x \in {t} : x.pc # "archived"
      BY <1>1
    <3> QED
      BY <1>1, <2>1, <3>1, <3>4, <3>5, WorkersAdvance
  <2> QED
    BY <2>3, <2>4
<1>11. CASE RenderFails(t)
  <2>1. t.pc = "emit" /\ UNCHANGED <<row, doc>>
    BY <1>11 DEF RenderFails, At
  <2>2. ASSUME tasks' = Others(t) \cup {[t EXCEPT !.pc = "give_up", !.left = t.todo]} PROVE WorkerInv'
    <3> DEFINE u == [t EXCEPT !.pc = "give_up", !.left = t.todo]
    <3>1. Kin(u, t) /\ u.pc = "give_up" /\ u.left = t.todo /\ u.todo = t.todo
      BY <1>1 DEF Kin, Tasks, Steps
    <3> HIDE DEF u
    <3>2. RenderHand(u)'
      BY <1>2, <3>1 DEF RenderHand, Kin
    <3> QED
      BY <1>5, <2>1, <2>2, <3>1, <3>2, RowsUnmoved DEF u
  <2>3. ASSUME DeadLetter(t) PROVE WorkerInv'
    <3>1. tasks' = Enqueue({}, Others(t) \cup Archived(t))
      BY <2>3, EnqueueNone DEF DeadLetter
    <3> QED
      BY <1>1, <1>3, <2>1, <3>1, WorkersAck, RowsUnmoved
  <2>4. ASSUME Error(t) PROVE WorkerInv'
    <3>1. PICK p \in t.pages : row[p].gen = t.gen => row[p].st = "rendering"
      BY <1>2, <1>4, <2>1 DEF RenderHand
    <3>2. \A u \in Errored(t) : Worker(u) => InHand(u)' /\ (Careful => Waits(u)')
      BY <1>1, <1>2, <2>1, <3>1, ErroredHand DEF Waits, Doing, Own
    <3>3. Moves({t}, Errored(t), {}) /\ RowMoves({t})
      BY <2>1, <2>4, ErrorMoves, RowsUnmoved
    <3> QED
      BY <1>1, <1>3, <3>2, <3>3, WorkersFrame
  <2> QED
    BY <1>11, <2>2, <2>3, <2>4 DEF RenderFails
<1>12. CASE RenderGiveUp(t)
  <2> DEFINE p == Least(t.left)
             a == [t EXCEPT !.pc = "count"]
             b == [t EXCEPT !.left = @ \ {p}]
  <2>1. /\ t.pc = "give_up" /\ t.left # {}
        /\ IF row[p].st = "rendering" THEN SetPage(p, t.gen, "failed") /\ tasks' = Others(t) \cup {a}
           ELSE tasks' = Others(t) \cup {b} /\ UNCHANGED row
    BY <1>12 DEF RenderGiveUp, At, Goto
  <2>2. /\ Kin(a, t) /\ a.pc = "count" /\ a.left = t.left /\ a.todo = t.todo
        /\ Kin(b, t) /\ b.pc = t.pc /\ b.left = t.left \ {p} /\ b.todo = t.todo
    BY <1>1 DEF Kin, Tasks, Steps
  <2> HIDE DEF p, a, b
  <2>3. p \in t.left
    BY <1>4, <2>1 DEF p
  <2>4. RenderHand(a)' /\ RenderHand(b)'
    BY <1>2, <2>1, <2>2 DEF RenderHand, Kin
  <2>5. CASE row[p].st = "rendering"
    <3>1. row' = IF row[p].gen = t.gen THEN [row EXCEPT ![p].st = "failed", ![p].img = row[p].img] ELSE row
      BY <1>4, <2>1, <2>3, <2>5 DEF SetPage, TypeOK, Row
    <3>2. RowMoves({t})
      BY <1>7, <2>3, <2>5, <3>1
    <3> QED
      BY <1>5, <2>1, <2>2, <2>4, <2>5, <3>2
  <2>6. CASE row[p].st # "rendering"
    BY <1>5, <2>1, <2>2, <2>4, <2>6, RowsUnmoved
  <2> QED
    BY <2>5, <2>6
<1>13. CASE RenderCount(t)
  <2> DEFINE u == [t EXCEPT !.pc = "give_up", !.left = @ \ {Least(@)}]
  <2>1. tasks' = Others(t) \cup {u} /\ UNCHANGED row
    BY <1>13 DEF RenderCount
  <2>2. Kin(u, t) /\ u.pc = "give_up" /\ u.left \subseteq t.left /\ u.todo = t.todo
    BY <1>1 DEF Kin, Tasks, Steps
  <2> HIDE DEF u
  <2>3. RenderHand(u)'
    BY <1>2, <2>2 DEF RenderHand, Kin
  <2> QED
    BY <1>5, <2>1, <2>2, <2>3, RowsUnmoved
<1>14. CASE FailedAdvance(t)
  BY <1>1, <1>14, WorkersAck DEF FailedAdvance
<1> QED
  BY <1>8, <1>9, <1>10, <1>11, <1>12, <1>13, <1>14

-----------------------------------------------------------------------------
(* What each status of the document says.  The tasks hired for a           *)
(* generation are those that could still work for it.                      *)

Hired(t, g) == t.gen = g /\ t.pc # "archived" /\ t.typ \notin {"gencleanup", "delete"}
Nobody(g) == \A t \in tasks : ~Hired(t, g)
Only(t) == \A u \in tasks : Hired(u, t.gen) => u = t
Asked(g) == \E r \in reqs : r.op = "pages" /\ r.gen = g

AllAre(S) == \A p \in Page : PageIs(p, S)
Blank ==
    /\ doc.done = 0 /\ doc.failed = 0 /\ doc.skipped = 0
    /\ \A p \in Page : row[p].gen = doc.gen => row[p].st \in {"pending", "skipped"}
    /\ \A t \in tasks : Hired(t, doc.gen) => t.typ = "split"
    /\ ~Asked(doc.gen)
Whole == AllAre({"done", "failed", "skipped"}) /\ \E p \in Page : PageIs(p, {"done", "failed"})

Stopped == {"cancelled", "deleting"}
Late == {"assemble", "index", "tree"}

(* A split works on a blank document, alone.                               *)
SplitAt(t) ==
    /\ doc.status \in Stopped \cup IF t.pc = "advance" THEN {"parsing"} ELSE {"queued", "splitting"}
    /\ t.pc \in {"ready", "advance"} => AllAre({"pending"})
    /\ t.pc = "ready_hold" => AllAre({"skipped"})

(* The tasks that must be the last of their generation.                    *)
Settling(t) == t.typ \in {"index", "tree"} \/ (t.typ = "assemble" /\ (t.pc = "handover" \/ t.hk # 0))

StatusInv ==
    doc.exists =>
        /\ doc.status \in {"queued", "splitting"} => Blank
        /\ \A t \in tasks : t.typ = "split" /\ Hired(t, doc.gen) => Blank /\ Only(t) /\ SplitAt(t)
        /\ \A r \in reqs : r.op = "reparse" /\ r.gen = doc.gen =>
              Blank /\ Nobody(doc.gen) /\ doc.status \in Stopped \cup {"queued"}
        /\ \A t \in tasks : t.typ \in Late /\ Hired(t, doc.gen) => Whole
        /\ doc.status \in {"assembling", "indexing", "completed", "partial"} /\ ~Asked(doc.gen) => Whole
        /\ \A r \in reqs : r.op = "pages" /\ r.gen = doc.gen =>
              doc.status \in IF r.pc = "advance" THEN Stopped \cup {"parsing"} ELSE Terminal
        /\ Careful /\ doc.status \in {"completed", "partial", "failed", "not_started"} => Nobody(doc.gen)
        /\ Careful => \A t \in tasks : Hired(t, doc.gen) /\ Settling(t) => Only(t)

(* While pages are asked for, nobody works for their generation.           *)
QuietInv ==
    \A r \in reqs : r.op = "pages" => Nobody(r.gen) /\ \A q \in reqs : q.op = "reparse" => q.gen # r.gen

MarkInv == doc.status = "deleting" => doc.deleted

PipeInv == TypeOK /\ GenInv /\ TurnInv /\ MarkInv /\ WorkerInv /\ StatusInv /\ QuietInv

LEMMA WorkersWork ==
    ASSUME TypeOK, GenInv, TurnInv, WorkerInv, StatusInv, NEW t \in tasks, Work(t) \/ Crash(t) \/ StrayPickup(t)
    PROVE  WorkerInv'
<1>1. t \in Tasks /\ t.pc # "archived" /\ (t.typ # "delete" => t.gen \in Gen)
  BY WorkLive DEF TypeOK, WellFormed
<1>2. doc'.gen = doc.gen /\ (doc'.exists => doc.exists)
  BY WorkGen
<1>3. CASE \/ OcrStart(t) \/ OcrSave(t) \/ OcrRetry(t) \/ OcrFail(t) \/ OcrCount(t) \/ OcrCountFailed(t)
           \/ RenderStart(t) \/ RenderEmit(t) \/ RenderAdvance(t) \/ RenderFails(t)
           \/ RenderGiveUp(t) \/ RenderCount(t)
  BY <1>3, WorkersOcr, WorkersRender
     DEF OcrStart, OcrSave, OcrRetry, OcrFail, OcrCount, OcrCountFailed, RenderStart, RenderEmit, RenderAdvance,
         RenderFails, RenderGiveUp, RenderCount, At, Starts
<1>4. CASE Drop(t)
  BY <1>1, <1>2, <1>4, WorkersAck, RowsUnmoved DEF Drop
<1>5. CASE LastAdvance(t) \/ FailedAdvance(t)
  BY <1>1, <1>5, WorkersAck DEF LastAdvance, FailedAdvance, At
<1>6. CASE Crash(t)
  <2>1. Moves({t}, Errored(t), {}) /\ t.typ \in Crashable
    BY <1>1, <1>6, EnqueueNone, ErroredKin DEF Crash, Moves, Others, CanCrash
  <2>2. RowMoves({t}) /\ \A u \in Errored(t) : Worker(u) => ~Careful
    BY <1>1, <1>6, <2>1, RowsUnmoved, ErroredKin DEF Crash, Careful, Worker, Kin
  <2> QED
    BY <1>1, <1>2, <2>1, <2>2, WorkersDone
<1>7. CASE StrayPickup(t)
  <2>1. Moves({t}, {}, {}) /\ RowMoves({t})
    BY <1>7, EnqueueNone, RowsUnmoved DEF StrayPickup, Moves, Others
  <2> QED
    BY <1>1, <1>2, <2>1, WorkersDone
<1>8. ASSUME ~Worker(t), UNCHANGED row, NEW R, NEW new, Moves({t}, R, new), \A u \in new : ~Worker(u)
      PROVE  WorkerInv'
  <2>0. \A u \in R : Kin(u, t)
    BY <1>8 DEF Moves
  <2>1. \A u \in R : ~Worker(u)
    <3>1. ASSUME NEW u \in R, Worker(u) PROVE FALSE
      BY <1>1, <1>8, <2>0, <3>1 DEF Kin, Worker
    <3> QED
      BY <3>1
  <2>2. RowMoves({t})
    BY <1>8, RowsUnmoved
  <2> QED
    BY <1>1, <1>2, <1>8, <2>1, <2>2, WorkersDone
<1>9. ASSUME ~Worker(t), UNCHANGED row, (\E pc \in Steps : Goto(t, pc)) \/ Error(t) \/ DeadLetter(t) PROVE WorkerInv'
  <2>1. ASSUME NEW pc \in Steps, Goto(t, pc) PROVE WorkerInv'
    <3>1. Moves({t}, {[t EXCEPT !.pc = pc]}, {})
      BY <2>1, GotoMoves
    <3> QED
      BY <1>8, <1>9, <3>1
  <2>2. ASSUME Error(t) \/ DeadLetter(t) PROVE WorkerInv'
    <3>1. Moves({t}, Errored(t), {}) \/ Moves({t}, Archived(t), {})
      BY <2>2, ErrorMoves
    <3> QED
      BY <1>8, <1>9, <3>1
  <2> QED
    BY <1>9, <2>1, <2>2
<1>10. CASE SplitStart(t) \/ SplitProbeFails(t) \/ SplitReady(t) \/ AssembleStart(t) \/ AssembleDecide(t) \/ TreeStart(t)
            \/ IndexFails(t)
  <2>1. ~Worker(t) /\ UNCHANGED row
    BY <1>10 DEF SplitStart, SplitProbeFails, SplitReady, AssembleStart, AssembleDecide, TreeStart, IndexFails, Starts,
                 At, Worker
  <2>2. (\E pc \in Steps : Goto(t, pc)) \/ Error(t) \/ DeadLetter(t)
    BY <1>10 DEF SplitStart, SplitProbeFails, SplitReady, AssembleStart, AssembleDecide, TreeStart, IndexFails, Steps
  <2> QED
    BY <1>9, <2>1, <2>2
<1>11. CASE SplitHeld(t) \/ AssembleHandover(t) \/ IndexBuild(t) \/ TreeSettle(t) \/ GenCleanup(t) \/ DeleteObjects(t)
  <2>1. ~Worker(t) /\ UNCHANGED row
    BY <1>11 DEF SplitHeld, AssembleHandover, IndexBuild, TreeSettle, GenCleanup, DeleteObjects, Starts, At, Worker
  <2>2. \A typ, g, b : typ \notin {"ocr", "render"} => ~Worker(DocTask(typ, g, b))
    BY DEF DocTask, Task, Worker
  <2>3. \/ \E new : Ack(t, new) /\ \A u \in new : ~Worker(u)
        \/ (\E pc \in Steps : Goto(t, pc)) \/ Error(t)
    BY <1>11, <2>2 DEF SplitHeld, AssembleHandover, IndexBuild, TreeSettle, GenCleanup, DeleteObjects, Steps
  <2> QED
    BY <1>1, <1>2, <1>9, <2>1, <2>3, WorkersAck, RowsUnmoved
<1>12. CASE SplitInit(t)
  <2>1. t.typ = "split" /\ Past(t) /\ ~Worker(t)
    BY <1>12 DEF SplitInit, At, Past, Worker
  <2>2. CASE RowsAllowed
    <3>1. t.gen = doc.gen /\ doc.exists
      BY <2>1, <2>2 DEF RowsAllowed, TurnInv, NewestSplits
    <3>2. \A u \in tasks : Worker(u) => u.gen # doc.gen
      BY <2>1, <3>1, <1>1 DEF StatusInv, Hired, Blank, Worker
    <3>3. PICK s \in {"pending", "skipped"} : row' = FreshRows(t.gen, s)
      BY <1>12, <2>2 DEF SplitInit
    <3>4. \A p \in Page : row'[p].gen = doc.gen
      BY <3>1, <3>3 DEF FreshRows
    <3>5. PICK pc \in Steps : Goto(t, pc)
      BY <1>12, <2>2 DEF SplitInit, Steps
    <3>6. \A u \in tasks' : Worker(u) => u \in tasks
      <4>1. Kin([t EXCEPT !.pc = pc], t)
        BY <1>1, PcKin
      <4> QED
        BY <2>1, <3>5, <4>1 DEF Goto, Others, Kin, Worker
    <3>7. \A u \in tasks : Worker(u) => u.gen # doc'.gen /\ \A p \in u.pages : p \in Page
      BY <1>2, <3>2 DEF TypeOK, WellFormed, Tasks
    <3>8. \A u \in tasks : Worker(u) => Own(u)' /\ (Careful => Waits(u)')
      BY <1>2, <3>2, <3>4, <3>7 DEF Own, Waits
    <3>9. ASSUME NEW u \in tasks, Worker(u) PROVE InHand(u)'
      <4>1. InHand(u)
        BY <3>9 DEF WorkerInv
      <4>2. \A p \in u.pages : row'[p].gen # u.gen
        BY <3>2, <3>4, <3>7, <3>9
      <4>3. CASE u.typ = "ocr"
        BY <4>1, <4>2, <4>3 DEF InHand, OcrHand
      <4>4. CASE u.typ # "ocr"
        BY <4>1, <4>2, <4>4 DEF InHand, RenderHand
      <4> QED
        BY <4>3, <4>4
    <3>10. \A u, v \in tasks : Worker(u) => Alone(u, v)'
      BY <3>2, <3>4, <3>7 DEF Alone
    <3>11. \A u : Worker(u)' <=> Worker(u)
      BY DEF Worker
    <3> QED
      BY <3>6, <3>8, <3>9, <3>10, <3>11 DEF WorkerInv
  <2>3. CASE ~RowsAllowed
    BY <1>9, <1>12, <2>1, <2>3 DEF SplitInit
  <2> QED
    BY <2>2, <2>3
<1>13. CASE DeletePurge(t)
  <2>1. ~doc'.exists /\ \A p \in Page : row'[p].gen = 0 /\ row'[p].st = "absent"
    BY <1>13 DEF DeletePurge, TypeOK, Doc, NoRow
  <2>2. PICK R : Moves({t}, R, {})
    BY <1>13, AckMoves DEF DeletePurge
  <2>3. \A u \in tasks' : Worker(u) => u \in tasks
    <3>1. t.typ = "delete"
      BY <1>13 DEF DeletePurge, At
    <3> QED
      BY <2>2, <3>1 DEF Moves, Kin, Worker, Enqueue
  <2>4. \A u \in tasks : Worker(u) => u.gen # 0 /\ \A p \in u.pages : p \in Page
    BY DEF TypeOK, WellFormed, Tasks, Worker, Gen
  <2>5. ASSUME NEW u \in tasks, Worker(u) PROVE Own(u)' /\ InHand(u)' /\ Waits(u)'
    <3>1. InHand(u)
      BY <2>5 DEF WorkerInv
    <3>2. CASE u.typ = "ocr"
      BY <2>1, <2>4, <2>5, <3>1, <3>2 DEF InHand, OcrHand, Own, Waits
    <3>3. CASE u.typ # "ocr"
      BY <2>1, <2>4, <2>5, <3>1, <3>3 DEF InHand, RenderHand, Own, Waits
    <3> QED
      BY <3>2, <3>3
  <2>6. \A u, v \in tasks : Worker(u) => Alone(u, v)'
    BY <2>1, <2>4 DEF Alone
  <2>7. \A u : Worker(u)' <=> Worker(u)
    BY DEF Worker
  <2> QED
    BY <2>3, <2>5, <2>6, <2>7 DEF WorkerInv
<1> QED
  BY <1>3, <1>4, <1>5, <1>6, <1>7, <1>10, <1>11, <1>12, <1>13 DEF Work

LEMMA WorkersStep ==
    ASSUME Tame, PipeInv, [Next]_vars
    PROVE  WorkerInv'
<1>1. TypeOK /\ GenInv /\ TurnInv /\ WorkerInv /\ StatusInv /\ QuietInv
  BY DEF PipeInv
<1>2. \A x \in {} : x.pc # "archived"
  OBVIOUS
<1>3. ASSUME doc'.gen = doc.gen, doc'.exists => doc.exists, NEW new, tasks' = Enqueue(new, tasks),
             RowMoves({}), \A u \in new : ~Worker(u)
      PROVE  WorkerInv'
  <2>1. Moves({}, {}, new)
    BY <1>3, NoTaskMoves
  <2> QED
    BY <1>1, <1>2, <1>3, <2>1, WorkersFrame
<1>4. ASSUME doc'.gen = doc.gen, doc'.exists => doc.exists, UNCHANGED <<row, tasks>> PROVE WorkerInv'
  <2>1. tasks' = Enqueue({}, tasks) /\ RowMoves({})
    BY <1>4, EnqueueNone, RowsUnmoved
  <2>2. \A u \in {} : ~Worker(u)
    OBVIOUS
  <2> QED
    BY <1>3, <1>4, <2>1, <2>2
<1>5. ASSUME UNCHANGED <<doc, row>>, NEW typ \in {"split", "assemble", "index", "delete"}, NEW g, NEW b,
             tasks' = Enqueue({DocTask(typ, g, b)}, tasks)
      PROVE  WorkerInv'
  <2>1. \A u \in {DocTask(typ, g, b)} : ~Worker(u)
    BY DEF DocTask, Task, Worker
  <2> QED
    BY <1>3, <1>5, <2>1, RowsUnmoved
<1>6. ASSUME NEW g \in Gen, Advance(g), UNCHANGED doc, tasks' = Enqueue(NewTasks(g), tasks) PROVE WorkerInv'
  <2>1. Moves({}, {}, NewTasks(g))
    BY <1>6, NoTaskMoves
  <2>2. \A u \in {} : Worker(u) => InHand(u)' /\ (Careful => u.pc # "queued")
    OBVIOUS
  <2> QED
    BY <1>1, <1>2, <1>6, <2>1, <2>2, WorkersAdvance
<1>7. doc \in Doc /\ doc.gen \in Gen /\ reqs \subseteq Reqs
  BY <1>1 DEF TypeOK, Doc
<1>8. ASSUME NEW t \in tasks, Work(t) \/ Crash(t) \/ StrayPickup(t) PROVE WorkerInv'
  BY <1>1, <1>8, WorkersWork
<1>9. CASE Housekeeping
  <2>1. ASSUME NEW p \in Page, HkReset(p) PROVE WorkerInv'
    <3>1. Dead(p) /\ UNCHANGED <<doc, tasks>>
      BY <2>1, SizeAssumption DEF HkReset, Presume, Tame, TypeOK, Used, PipeInv
    <3>2. /\ row[p].st \in {"rendering", "ocr"} /\ row'[p].gen = row[p].gen
          /\ row'[p].st = IF row[p].st = "ocr" THEN "rendered" ELSE "pending"
          /\ \A q \in Page \ {p} : row'[q] = row[q]
      BY <1>1, <2>1 DEF HkReset, TypeOK, Row
    <3>3. ASSUME NEW v \in tasks, Worker(v), v.gen = row[p].gen, p \in v.pages
          PROVE  row'[p].st \in Held(v.typ) /\ row[p].st # Doing(v.typ)
      <4>1. row[p].st \in Held(v.typ)
        BY <1>1, <3>3 DEF WorkerInv, Own
      <4>2. v.typ # IF row[p].st = "ocr" THEN "ocr" ELSE "render"
        BY <3>1, <3>3 DEF Dead, Live, Worker
      <4> QED
        BY <3>2, <3>3, <4>1, <4>2 DEF Held, Doing, Worker
    <3>4. RowMoves({})
      BY <3>2, <3>3 DEF RowMoves, Busy
    <3>5. tasks' = Enqueue({}, tasks) /\ \A u \in {} : ~Worker(u)
      BY <3>1, EnqueueNone
    <3> QED
      BY <1>3, <3>1, <3>4, <3>5
  <2>2. HkAdvance => WorkerInv'
    BY <1>6, <1>7 DEF HkAdvance
  <2>3. ASSUME NEW b, NEW s, NEW typ \in {"split", "assemble", "index"}, HkDispatch(s, typ, b) PROVE WorkerInv'
    BY <1>5, <2>3 DEF HkDispatch
  <2>4. \A b : HkDelete(b) => WorkerInv'
    BY <1>5 DEF HkDelete
  <2> QED
    BY <1>9, <2>1, <2>2, <2>3, <2>4 DEF Housekeeping
<1>10. CASE Ask
  <2>1. CASE ReparseBump
    <3>1. doc'.gen = doc.gen + 1 /\ UNCHANGED <<row, tasks>>
      BY <1>7, <2>1 DEF ReparseBump, Doc
    <3>2. doc.gen \in Nat
      BY <1>7, SizeAssumption DEF Gen
    <3>3. \A u \in tasks : u.gen # doc'.gen
      <4>1. \A u \in tasks : u.gen \in Int /\ u.gen <= doc.gen
        BY <1>1, SizeAssumption DEF GenInv, NoneAhead, TypeOK, WellFormed, Tasks
      <4> QED
        BY <3>1, <3>2, <4>1
    <3>4. ASSUME NEW u \in tasks, Worker(u) PROVE Own(u)' /\ InHand(u)' /\ (Careful => Waits(u)')
      <4>1. Own(u) /\ InHand(u)
        BY <1>1, <3>4 DEF WorkerInv
      <4> QED
        BY <3>1, <3>3, <4>1 DEF Own, InHand, OcrHand, RenderHand, Waits
    <3>5. \A u, v \in tasks : Worker(u) /\ Worker(v) => Alone(u, v)'
      BY <1>1, <3>1 DEF WorkerInv, Alone
    <3>6. \A u : Worker(u)' <=> Worker(u)
      BY DEF Worker
    <3> QED
      BY <3>1, <3>4, <3>5, <3>6 DEF WorkerInv
  <2>2. CASE CancelCheck \/ DeleteMark \/ \E P \in (SUBSET Page) \ {{}} : PagesCheck(P)
    <3>1. doc'.gen = doc.gen /\ doc'.exists = doc.exists /\ UNCHANGED <<row, tasks>>
      BY <1>7, <2>2 DEF CancelCheck, DeleteMark, PagesCheck, Doc
    <3> QED
      BY <1>4, <3>1
  <2> QED
    BY <1>10, <2>1, <2>2 DEF Ask
<1>11. ASSUME NEW r \in reqs, ServeStep(r) \/ RequestDies(r) PROVE WorkerInv'
  <2>1. r.gen \in Gen
    BY <1>7 DEF Reqs
  <2>2. CASE CancelWrite(r) \/ PagesAdjust(r) \/ PagesPick(r) \/ PagesParse(r) \/ RequestDies(r)
    <3>1. doc'.gen = doc.gen /\ doc'.exists = doc.exists /\ UNCHANGED <<row, tasks>>
      BY <1>7, <2>2 DEF CancelWrite, PagesAdjust, PagesPick, PagesParse, RequestDies, Update, Doc
    <3> QED
      BY <1>4, <3>1
  <2>3. CASE DeleteEnqueue(r) \/ ReparseEnqueue(r)
    BY <1>5, <2>3 DEF DeleteEnqueue, ReparseEnqueue
  <2>4. CASE PagesAdvance(r)
    BY <1>6, <2>1, <2>4 DEF PagesAdvance
  <2>5. CASE PagesReset(r)
    <3>1. Nobody(r.gen)
      BY <1>1, <2>5 DEF PagesReset, In, QuietInv
    <3>2. \A v \in tasks : Worker(v) => v.gen # r.gen
      BY <3>1 DEF Nobody, Hired, Worker
    <3>3. UNCHANGED <<doc, tasks>>
      BY <2>5 DEF PagesReset
    <3>4. ASSUME NEW p \in Page PROVE row'[p].gen = row[p].gen /\ (row[p].gen # r.gen => row'[p] = row[p])
      BY <1>1, <2>5 DEF PagesReset, TypeOK, Row
    <3>5. ASSUME NEW u \in tasks, Worker(u) PROVE Own(u)' /\ InHand(u)' /\ (Careful => Waits(u)')
      <4>1. Own(u) /\ InHand(u) /\ (Careful => Waits(u)) /\ u.gen # r.gen /\ u.pages \subseteq Page /\ u.page \in 0..N
        BY <1>1, <3>2, <3>5 DEF WorkerInv, TypeOK, WellFormed, Tasks
      <4>2. \A p \in u.pages : row'[p].gen = row[p].gen /\ (row[p].gen = u.gen => row'[p].st = row[p].st)
        BY <3>4, <4>1
      <4>3. InHand(u)'
        <5>1. CASE u.typ = "ocr"
          BY <4>1, <4>2, <5>1 DEF InHand, OcrHand
        <5>2. CASE u.typ # "ocr"
          BY <4>1, <4>2, <5>2 DEF InHand, RenderHand
        <5> QED
          BY <5>1, <5>2
      <4> QED
        BY <3>3, <4>1, <4>2, <4>3 DEF Own, Waits
    <3>6. ASSUME NEW u \in tasks, NEW v \in tasks, Worker(u), Worker(v) PROVE Alone(u, v)'
      <4>1. Alone(u, v) /\ u.gen # r.gen /\ u.pages \subseteq Page
        BY <1>1, <3>2, <3>6 DEF WorkerInv, TypeOK, WellFormed, Tasks
      <4>2. \A p \in u.pages : row'[p].gen = row[p].gen /\ (row[p].gen = u.gen => row'[p].st = row[p].st)
        BY <3>4, <4>1
      <4> QED
        BY <4>1, <4>2 DEF Alone
    <3>7. \A u : Worker(u)' <=> Worker(u)
      BY DEF Worker
    <3> QED
      BY <3>3, <3>5, <3>6, <3>7 DEF WorkerInv
  <2> QED
    BY <1>11, <2>2, <2>3, <2>4, <2>5 DEF ServeStep
<1>12. UNCHANGED vars => WorkerInv'
  BY <1>4 DEF vars
<1> QED
  BY <1>8, <1>9, <1>10, <1>11, <1>12 DEF Next, WorkStep

-----------------------------------------------------------------------------
(* Steps that change nothing the statuses speak of: the document's hired   *)
(* tasks, its requests for more pages and its counters stay, and only      *)
(* pages that are in work move.                                            *)
RowsHeld ==
    \A p \in Page :
        /\ row'[p].gen = row[p].gen
        /\ row[p].gen = doc.gen => row'[p].st = row[p].st \/ row[p].st \in Busy
SameView ==
    /\ doc'.gen = doc.gen /\ (doc'.exists => doc.exists)
    /\ doc'.status = doc.status \/ doc'.status \in Stopped
    /\ doc'.done = doc.done /\ doc'.failed = doc.failed /\ doc'.skipped = doc.skipped
    /\ RowsHeld
    /\ \A u \in tasks' : Hired(u, doc.gen) => u \in tasks
    /\ \A r \in reqs' : r.op \in {"reparse", "pages"} /\ r.gen = doc.gen => r \in reqs
    /\ Asked(doc.gen) => Asked(doc.gen)'

LEMMA StatusKept == ASSUME StatusInv, SameView PROVE StatusInv'
<1> SUFFICES ASSUME doc'.exists PROVE
       /\ doc'.status \in {"queued", "splitting"} => Blank'
       /\ \A t \in tasks' : t.typ = "split" /\ Hired(t, doc'.gen) => Blank' /\ Only(t)' /\ SplitAt(t)'
       /\ \A r \in reqs' : r.op = "reparse" /\ r.gen = doc'.gen =>
             Blank' /\ Nobody(doc.gen)' /\ doc'.status \in Stopped \cup {"queued"}
       /\ \A t \in tasks' : t.typ \in Late /\ Hired(t, doc'.gen) => Whole'
       /\ doc'.status \in {"assembling", "indexing", "completed", "partial"} /\ ~Asked(doc.gen)' => Whole'
       /\ \A r \in reqs' : r.op = "pages" /\ r.gen = doc'.gen =>
             doc'.status \in IF r.pc = "advance" THEN Stopped \cup {"parsing"} ELSE Terminal
       /\ Careful /\ doc'.status \in {"completed", "partial", "failed", "not_started"} => Nobody(doc.gen)'
       /\ Careful => \A t \in tasks' : Hired(t, doc'.gen) /\ Settling(t) => Only(t)'
  BY DEF StatusInv, Hired, Settling
<1>1. doc.exists /\ doc'.gen = doc.gen
  BY DEF SameView
<1>2. doc'.status = doc.status \/ doc'.status \in Stopped
  BY DEF SameView
<1>3. ASSUME Blank PROVE Blank'
  <2>1. \A p \in Page : row'[p].gen = doc.gen => row'[p].st \in {"pending", "skipped"}
    BY <1>3 DEF Blank, SameView, RowsHeld, Busy
  <2>2. ~Asked(doc.gen)'
    BY <1>1, <1>3 DEF Blank, SameView, Asked
  <2> QED
    BY <1>1, <1>3, <2>1, <2>2 DEF Blank, SameView, Hired
<1>4. \A S : S \cap Busy = {} /\ AllAre(S) => AllAre(S)'
  BY <1>1 DEF AllAre, PageIs, SameView, RowsHeld
<1>5. Whole => Whole'
  BY <1>1, <1>4 DEF Whole, Busy, PageIs, SameView, RowsHeld
<1>6. \A t : t.gen = doc.gen /\ Only(t) => Only(t)'
  BY DEF Only, SameView, Hired
<1>7. Nobody(doc.gen) => Nobody(doc.gen)'
  BY <1>1 DEF Nobody, SameView, Hired
<1>8. \A t : SplitAt(t) => SplitAt(t)'
  BY <1>2, <1>4 DEF SplitAt, Busy
<1>9. \A t \in tasks' : Hired(t, doc'.gen) => t \in tasks /\ Hired(t, doc.gen) /\ t.gen = doc.gen
  BY <1>1 DEF SameView, Hired
<1>10. doc'.status \in {"queued", "splitting"} => Blank'
  BY <1>1, <1>2, <1>3 DEF StatusInv, Stopped
<1>11. \A t \in tasks' : t.typ = "split" /\ Hired(t, doc'.gen) => Blank' /\ Only(t)' /\ SplitAt(t)'
  BY <1>1, <1>3, <1>6, <1>8, <1>9 DEF StatusInv
<1>12. \A r \in reqs' : r.op = "reparse" /\ r.gen = doc'.gen =>
          Blank' /\ Nobody(doc.gen)' /\ doc'.status \in Stopped \cup {"queued"}
  BY <1>1, <1>2, <1>3, <1>7 DEF StatusInv, SameView
<1>13. \A t \in tasks' : t.typ \in Late /\ Hired(t, doc'.gen) => Whole'
  BY <1>1, <1>5, <1>9 DEF StatusInv
<1>14. doc'.status \in {"assembling", "indexing", "completed", "partial"} /\ ~Asked(doc.gen)' => Whole'
  BY <1>1, <1>2, <1>5 DEF StatusInv, SameView, Stopped
<1>15. \A r \in reqs' : r.op = "pages" /\ r.gen = doc'.gen =>
          doc'.status \in IF r.pc = "advance" THEN Stopped \cup {"parsing"} ELSE Terminal
  BY <1>1, <1>2 DEF StatusInv, SameView, Stopped, Terminal
<1>16. Careful /\ doc'.status \in {"completed", "partial", "failed", "not_started"} => Nobody(doc.gen)'
  BY <1>1, <1>2, <1>7 DEF StatusInv, Stopped
<1>17. Careful => \A t \in tasks' : Hired(t, doc'.gen) /\ Settling(t) => Only(t)'
  BY <1>1, <1>6, <1>9 DEF StatusInv
<1> QED
  BY <1>10, <1>11, <1>12, <1>13, <1>14, <1>15, <1>16, <1>17

(* The tasks hired after a step of one task.                               *)
LEMMA HiredAfter ==
    ASSUME NEW t, t.pc # "archived", NEW R, NEW new, Moves({t}, R, new), NEW g
    PROVE  \A u \in tasks' : Hired(u, g) =>
              \/ u \in tasks /\ u # t
              \/ u \in R /\ Kin(u, t) /\ Hired(t, g)
              \/ u \in new
<1>1. \A u \in R : Kin(u, t)
  BY DEF Moves
<1> QED
  BY <1>1 DEF Moves, Enqueue, Hired, Kin

(* A task of another generation does not touch the document or its pages.  *)
LEMMA Elsewhere ==
    ASSUME TypeOK, TurnInv, NEW t \in tasks, t.gen # doc.gen, t.typ # "delete", Work(t) \/ Crash(t) \/ StrayPickup(t)
    PROVE  /\ UNCHANGED doc
           /\ \A p \in Page : row'[p].gen = row[p].gen /\ (row[p].gen # t.gen => row'[p].st = row[p].st)
<1> DEFINE Far == \A p \in Page : row'[p].gen = row[p].gen /\ (row[p].gen # t.gen => row'[p].st = row[p].st)
<1>1. row \in [Page -> Row] /\ t \in Tasks /\ t.gen \in Gen
  BY DEF TypeOK, WellFormed
<1>2. UNCHANGED row => Far
  OBVIOUS
<1>3. Advance(t.gen) => Far
  BY <1>1, AdvanceOne
<1>4. \A p, s : SetPage(p, t.gen, s) => Far
  BY <1>1 DEF SetPage, Row
<1>5. \A new : Update(t.gen, new) => UNCHANGED doc
  BY DEF Update
<1>6. \A c : CountPage(t.gen, c) => UNCHANGED doc
  BY DEF CountPage, Counted
<1>7. FailDoc(t.gen) => UNCHANGED doc
  BY DEF FailDoc, Update
<1>8. ~SplitInit(t)
  BY DEF SplitInit, At, TurnInv, NewestSplits, Past
<1>9. RenderEmit(t) => Far
  <2> SUFFICES ASSUME RenderEmit(t) PROVE Far
    OBVIOUS
  <2>1. PICK p : row' = IF row[p].gen = t.gen THEN [row EXCEPT ![p].st = "rendered", ![p].img = TRUE] ELSE row
    BY DEF RenderEmit
  <2> QED
    BY <1>1, <2>1 DEF Row
<1>10. RenderGiveUp(t) => Far
  BY <1>2, <1>4 DEF RenderGiveUp
<1>11. ASSUME \/ Drop(t) \/ SplitStart(t) \/ SplitProbeFails(t) \/ SplitReady(t) \/ SplitHeld(t)
              \/ RenderStart(t) \/ RenderFails(t) \/ RenderCount(t) \/ OcrStart(t) \/ OcrRetry(t) \/ OcrCount(t)
              \/ OcrCountFailed(t) \/ AssembleStart(t) \/ AssembleDecide(t) \/ AssembleHandover(t) \/ IndexBuild(t)
              \/ TreeStart(t) \/ TreeSettle(t) \/ IndexFails(t) \/ GenCleanup(t) \/ Crash(t) \/ StrayPickup(t)
       PROVE  UNCHANGED <<doc, row>>
  BY <1>5, <1>6, <1>7, <1>11
     DEF Drop, SplitStart, SplitProbeFails, SplitReady, SplitHeld, RenderStart, RenderFails, RenderCount, OcrStart,
         OcrRetry, OcrCount, OcrCountFailed, AssembleStart, AssembleDecide, AssembleHandover, IndexBuild, TreeStart,
         TreeSettle, IndexFails, GenCleanup, Crash, StrayPickup
<1>12. ASSUME LastAdvance(t) \/ RenderAdvance(t) \/ FailedAdvance(t) \/ OcrSave(t) \/ OcrFail(t) PROVE UNCHANGED doc /\ Far
  BY <1>3, <1>4, <1>12 DEF LastAdvance, RenderAdvance, FailedAdvance, OcrSave, OcrFail
<1>13. RenderEmit(t) \/ RenderGiveUp(t) => UNCHANGED doc
  BY DEF RenderEmit, RenderGiveUp
<1>14. ~DeleteObjects(t) /\ ~DeletePurge(t)
  BY DEF DeleteObjects, DeletePurge, At
<1> QED
  BY <1>2, <1>8, <1>9, <1>10, <1>11, <1>12, <1>13, <1>14 DEF Work

LEMMA StatusElsewhere ==
    ASSUME TypeOK, TurnInv, StatusInv, NEW t \in tasks, ~Hired(t, doc.gen), Work(t) \/ Crash(t) \/ StrayPickup(t)
    PROVE  StatusInv'
<1>1. t \in Tasks /\ t.pc # "archived" /\ UNCHANGED reqs
  BY WorkLive, WorkReqs DEF TypeOK, WellFormed
<1>2. doc'.gen = doc.gen /\ (doc'.exists => doc.exists)
  BY WorkGen
<1>3. ASSUME UNCHANGED doc, RowsHeld, NEW R, NEW new, Moves({t}, R, new), \A u \in new : ~Hired(u, doc.gen)
      PROVE  StatusInv'
  <2>1. \A u \in tasks' : Hired(u, doc.gen) => u \in tasks
    BY <1>1, <1>3, HiredAfter
  <2> QED
    BY <1>1, <1>3, <2>1, StatusKept DEF SameView, Asked
<1>4. CASE t.gen # doc.gen /\ t.typ # "delete"
  <2>1. UNCHANGED doc /\ RowsHeld
    BY <1>4, Elsewhere DEF RowsHeld
  <2>2. PICK R, new : Moves({t}, R, new) /\ Given(new, t)
    BY WorkSteady DEF Steady
  <2>3. \A u \in new : ~Hired(u, doc.gen)
    BY <1>4, <2>2 DEF Given, Batched, Hired
  <2> QED
    BY <1>3, <2>1, <2>2, <2>3
<1>5. CASE t.typ \in {"delete", "gencleanup"}
  <2>1. CASE DeletePurge(t)
    <3>1. ~doc'.exists
      BY <2>1 DEF DeletePurge, TypeOK, Doc
    <3> QED
      BY <3>1 DEF StatusInv
  <2>2. ASSUME UNCHANGED <<doc, row>>, Ack(t, {}) \/ (\E pc \in Steps : Goto(t, pc)) PROVE StatusInv'
    <3>1. PICK R : Moves({t}, R, {})
      <4>1. \A pc \in Steps : Goto(t, pc) => \E R : Moves({t}, R, {})
        BY GotoMoves
      <4>2. Ack(t, {}) => \E R : Moves({t}, R, {})
        BY AckMoves
      <4> QED
        BY <2>2, <4>1, <4>2
    <3>2. RowsHeld /\ \A u \in {} : ~Hired(u, doc.gen)
      BY <2>2 DEF RowsHeld
    <3> QED
      BY <1>3, <2>2, <3>1, <3>2
  <2>3. CASE Crash(t) \/ StrayPickup(t)
    <3>1. Moves({t}, Errored(t), {}) \/ Moves({t}, {}, {})
      BY <1>1, <2>3, EnqueueNone, ErroredKin DEF Crash, StrayPickup, Moves, Others
    <3>2. UNCHANGED doc /\ RowsHeld /\ \A u \in {} : ~Hired(u, doc.gen)
      BY <2>3 DEF Crash, StrayPickup, RowsHeld
    <3> QED
      BY <1>3, <3>1, <3>2
  <2>4. CASE Drop(t) \/ GenCleanup(t) \/ DeleteObjects(t)
    BY <2>2, <2>4 DEF Drop, GenCleanup, DeleteObjects, Steps
  <2>5. \/ Drop(t) \/ GenCleanup(t) \/ DeleteObjects(t) \/ DeletePurge(t) \/ Crash(t) \/ StrayPickup(t)
    BY <1>5 DEF Work, SplitStart, SplitInit, SplitProbeFails, SplitReady, SplitHeld, LastAdvance,
       RenderStart, RenderEmit, RenderAdvance, RenderFails, RenderGiveUp, RenderCount, FailedAdvance, OcrStart,
       OcrSave, OcrRetry, OcrFail, OcrCount, OcrCountFailed, AssembleStart, AssembleDecide, AssembleHandover,
       IndexBuild, TreeStart, TreeSettle, IndexFails, Starts, At
  <2> QED
    BY <2>1, <2>3, <2>4, <2>5
<1> QED
  BY <1>1, <1>4, <1>5 DEF Hired

(* A page that is finished or left out stays so.                           *)
Flow ==
    \A p \in Page :
        /\ row'[p].gen = row[p].gen
        /\ row'[p].st = row[p].st \/ row[p].st \in {"pending", "rendered"} \cup Busy

LEMMA WholeFlow == ASSUME Whole, Flow, doc'.gen = doc.gen PROVE Whole'
<1>1. \A p \in Page : row[p].st \in {"done", "failed", "skipped"} /\ row[p].gen = doc.gen
  BY DEF Whole, AllAre, PageIs
<1>2. \A p \in Page : row'[p].gen = row[p].gen /\ row'[p].st = row[p].st
  BY <1>1 DEF Flow, Busy
<1> QED
  BY <1>2 DEF Whole, AllAre, PageIs

LEMMA AdvanceFlow == ASSUME row \in [Page -> Row], NEW g \in Gen, Advance(g) PROVE Flow
<1> SUFFICES ASSUME NEW p \in Page
             PROVE  row'[p].gen = row[p].gen /\ (row'[p].st = row[p].st \/ row[p].st \in {"pending", "rendered"} \cup Busy)
  BY DEF Flow
<1> QED
  BY AdvanceOne

(* The assembly is enqueued when every page is finished.                   *)
LEMMA AssemblesWhole == ASSUME OneGeneration, AllFinished(doc.gen) PROVE Whole
<1>1. PICK p \in Page : row[p].gen = doc.gen /\ row[p].st # "skipped"
  BY DEF AllFinished, Active
<1>2. \A q \in Page : row[q].gen = doc.gen
  BY <1>1 DEF OneGeneration
<1>3. \A q \in Page : row[q].st # "skipped" => row[q].st \in {"done", "failed"}
  BY <1>2 DEF AllFinished, Active, Rows
<1> QED
  BY <1>1, <1>2, <1>3 DEF Whole, AllAre, PageIs

LEMMA NobodyLeft ==
    ASSUME Nobody(doc.gen)', \A r \in reqs' : r.op \in {"reparse", "pages"} => r.gen # doc'.gen,
           doc'.status \in {"queued", "splitting"} => Blank',
           doc'.status \notin {"assembling", "indexing", "completed", "partial"}
    PROVE  StatusInv'
BY DEF StatusInv, Nobody, Hired

LEMMA SplitAlone ==
    ASSUME NEW u, u.typ = "split", u.gen = doc'.gen, \A v \in tasks' : Hired(v, doc'.gen) => v = u,
           Blank', SplitAt(u)', \A r \in reqs' : r.op = "reparse" => r.gen # doc'.gen
    PROVE  StatusInv'
<1>1. doc'.status \in Stopped \cup {"parsing", "queued", "splitting"} /\ ~Asked(doc.gen)'
  BY DEF SplitAt, Blank
<1>2. Only(u)'
  BY DEF Only, Hired
<1> QED
  BY <1>1, <1>2 DEF StatusInv, Stopped, Asked, Hired, Late, Settling

(* The pages of a generation nobody works for are handed out.              *)
LEMMA Restaffed ==
    ASSUME TypeOK, GenInv, Advance(doc.gen), doc'.gen = doc.gen, doc'.status \in Stopped \cup {"parsing"},
           \A u \in tasks' : Hired(u, doc.gen) => u \in NewTasks(doc.gen),
           \A r \in reqs' : r.op \in {"reparse", "pages"} => r.gen # doc'.gen
    PROVE  StatusInv'
<1>1. ASSUME NEW u \in tasks', Hired(u, doc.gen)
      PROVE  u.typ # "split" /\ ~Settling(u) /\ (u.typ \in Late => Whole')
  <2>1. u \in NewTasks(doc.gen)
    BY <1>1
  <2>2. u.hk = 0 /\ u.pc = "queued" /\ (OcrTask(u, doc.gen) \/ RenderTask(u, doc.gen) \/ AssembleTask(u, doc.gen))
    BY <2>1, NewTasksAre
  <2>3. u.typ \in Late => Whole
    BY <2>2, AssemblesWhole DEF GenInv, OcrTask, RenderTask, AssembleTask, Late
  <2>4. Flow
    BY AdvanceFlow DEF TypeOK, Doc
  <2> QED
    BY <2>2, <2>3, <2>4, WholeFlow DEF OcrTask, RenderTask, AssembleTask, Settling
<1> QED
  BY <1>1 DEF StatusInv, Stopped, Hired, Settling, Late

LEMMA StatusSplit ==
    ASSUME Tame, TypeOK, GenInv, StatusInv, doc.exists, NEW t \in tasks, t.typ = "split", Hired(t, doc.gen),
           Work(t) \/ Crash(t) \/ StrayPickup(t)
    PROVE  StatusInv'
<1>1. t \in Tasks /\ t.pc # "archived" /\ t.gen = doc.gen /\ t.gen \in Gen /\ UNCHANGED reqs /\ doc \in Doc
  BY WorkLive, WorkReqs DEF TypeOK, WellFormed, Hired
<1>2. doc'.gen = doc.gen
  BY WorkGen
<1>3. Blank /\ Only(t) /\ SplitAt(t)
  BY DEF StatusInv
<1>4. \A r \in reqs' : r.op \in {"reparse", "pages"} => r.gen # doc'.gen
  <2>1. ~Nobody(doc.gen)
    BY DEF Nobody
  <2> QED
    BY <1>1, <1>2, <1>3, <2>1 DEF StatusInv, Blank, Asked
<1>5. ASSUME NEW R, NEW new, Moves({t}, R, new), NEW u \in tasks', Hired(u, doc.gen) PROVE u \in R \/ u \in new
  BY <1>1, <1>3, <1>5, HiredAfter DEF Only, Hired
<1>6. \A new : Ack(t, new) => Moves({t}, {}, new)
  BY <1>1, AckMoves DEF Tame
<1>7. ASSUME Blank /\ doc'.done = doc.done /\ doc'.failed = doc.failed /\ doc'.skipped = doc.skipped,
             \A p \in Page : row'[p].gen = doc.gen => row'[p].st \in {"pending", "skipped"},
             NEW R, Moves({t}, R, {})
      PROVE  Blank'
  <2>1. ASSUME NEW u \in tasks', Hired(u, doc.gen) PROVE u.typ = "split"
    <3>1. u \in R
      BY <1>5, <1>7, <2>1
    <3>2. Kin(u, t)
      BY <1>7, <3>1 DEF Moves
    <3> QED
      BY <3>2 DEF Kin
  <2> QED
    BY <1>1, <1>2, <1>7, <2>1 DEF Blank, Asked, Hired
<1>8. ASSUME NEW u, Kin(u, t), Moves({t}, {u}, {}), Blank', SplitAt(u)' PROVE StatusInv'
  BY <1>1, <1>2, <1>4, <1>5, <1>8, SplitAlone DEF Kin
<1>9. CASE Drop(t)
  <2>1. Moves({t}, {}, {}) /\ UNCHANGED <<doc, row>> /\ doc.status \in Stopped
    BY <1>1, <1>6, <1>9 DEF Drop, Runnable, Stopped
  <2>2. Nobody(doc.gen)'
    BY <1>2, <1>5, <2>1 DEF Nobody, Hired
  <2> QED
    BY <1>4, <2>1, <2>2, NobodyLeft DEF Stopped
<1>10. ASSUME NEW pc \in Steps, Goto(t, pc), doc'.done = doc.done, doc'.failed = doc.failed, doc'.skipped = doc.skipped,
              \A p \in Page : row'[p].gen = doc.gen => row'[p].st \in {"pending", "skipped"},
              doc'.status \in Stopped \cup IF pc = "advance" THEN {"parsing"} ELSE {"queued", "splitting"},
              pc \in {"ready", "advance"} => AllAre({"pending"})',
              pc = "ready_hold" => AllAre({"skipped"})'
       PROVE  StatusInv'
  <2>1. PICK u : Kin(u, t) /\ u.pc = pc /\ Moves({t}, {u}, {})
    BY <1>1, <1>10, PcKin, GotoMoves
  <2>2. SplitAt(u)'
    BY <1>10, <2>1 DEF SplitAt
  <2> QED
    BY <1>3, <1>7, <1>8, <1>10, <2>1, <2>2
<1>11. CASE SplitStart(t)
  <2>1. doc'.status = "splitting" /\ doc'.done = doc.done /\ doc'.failed = doc.failed /\ doc'.skipped = doc.skipped
    BY <1>1, <1>11 DEF SplitStart, Starts, Runnable, Update, Doc
  <2>2. UNCHANGED row /\ \E pc \in {"probe", "probe_hold"} : Goto(t, pc)
    BY <1>11 DEF SplitStart
  <2> QED
    BY <1>3, <1>10, <2>1, <2>2 DEF Blank, Steps
<1>12. ASSUME t.pc # "advance", ~Final(t), Error(t), UNCHANGED <<doc, row>> PROVE StatusInv'
  <2>1. Errored(t) = {Restart(t)} /\ Kin(Restart(t), t) /\ Restart(t).pc = "queued"
    BY <1>1, <1>12, RestartKin DEF Errored
  <2>2. Moves({t}, {Restart(t)}, {})
    BY <1>12, <2>1, ErrorMoves
  <2>3. Blank'
    BY <1>3, <1>7, <1>12, <2>2 DEF Blank
  <2>4. SplitAt(Restart(t))'
    <3>1. PICK u : u = Restart(t)
      OBVIOUS
    <3> HIDE DEF Restart
    <3>2. SplitAt(u)'
      BY <1>3, <1>12, <2>1, <3>1 DEF SplitAt
    <3> QED
      BY <3>1, <3>2
  <2> QED
    BY <1>8, <2>1, <2>2, <2>3, <2>4
<1>13. CASE SplitInit(t)
  <2>1. PICK pc \in {"probe", "probe_hold"} : t.pc = pc
    BY <1>13 DEF SplitInit, At
  <2>2. LET s == IF t.pc = "probe" THEN "pending" ELSE "skipped"
        IN  /\ row' = FreshRows(t.gen, s) /\ UNCHANGED doc
            /\ Goto(t, IF t.pc = "probe" THEN "ready" ELSE "ready_hold")
    BY <1>13 DEF SplitInit, RowsAllowed
  <2>3. \A p \in Page : row'[p].gen = doc.gen /\ row'[p].st = IF t.pc = "probe" THEN "pending" ELSE "skipped"
    BY <1>1, <2>2 DEF FreshRows
  <2>4. AllAre(IF t.pc = "probe" THEN {"pending"} ELSE {"skipped"})'
    BY <1>2, <2>3 DEF AllAre, PageIs
  <2>5. doc'.status \in Stopped \cup {"queued", "splitting"}
    BY <1>3, <2>1, <2>2 DEF SplitAt
  <2> QED
    BY <1>10, <2>1, <2>2, <2>3, <2>4, <2>5 DEF Steps
<1>14. CASE SplitProbeFails(t)
  <2>1. t.pc # "advance" /\ UNCHANGED row
    BY <1>14 DEF SplitProbeFails, At
  <2>2. ASSUME DeadLetter(t), FailDoc(t.gen) PROVE StatusInv'
    <3>1. Moves({t}, Archived(t), {}) /\ \A u \in Archived(t) : u.pc = "archived"
      BY <1>1, <2>2, ErrorMoves, RestartKin
    <3>2. Nobody(doc.gen)'
      BY <1>2, <1>5, <3>1 DEF Nobody, Hired
    <3>3. doc'.status \in Stopped \cup {"failed"}
      BY <1>1, <2>2 DEF FailDoc, Update, Stopped, Doc
    <3> QED
      BY <1>4, <3>2, <3>3, NobodyLeft DEF Stopped
  <2>3. (DeadLetter(t) /\ FailDoc(t.gen)) \/ (~Final(t) /\ Error(t) /\ UNCHANGED doc)
    BY <1>14 DEF SplitProbeFails
  <2> QED
    BY <1>12, <2>1, <2>2, <2>3
<1>15. CASE SplitReady(t)
  <2>1. t.pc = "ready" /\ UNCHANGED row /\ Goto(t, "advance")
    BY <1>15 DEF SplitReady, At
  <2>2. /\ doc'.status \in Stopped \cup {"parsing"}
        /\ doc'.done = doc.done /\ doc'.failed = doc.failed /\ doc'.skipped = doc.skipped
    BY <1>1, <1>15 DEF SplitReady, Update, Stopped, Doc
  <2>3. AllAre({"pending"})'
    BY <1>2, <1>3, <2>1 DEF SplitAt, AllAre, PageIs
  <2> QED
    BY <1>3, <1>10, <2>1, <2>2, <2>3 DEF Blank, Steps
<1>16. CASE SplitHeld(t)
  <2>1. Moves({t}, {}, {})
    BY <1>6, <1>16 DEF SplitHeld
  <2>2. Nobody(doc.gen)'
    BY <1>2, <1>5, <2>1 DEF Nobody, Hired
  <2>3. doc'.status \in Stopped \cup {"not_started"}
    BY <1>1, <1>16 DEF SplitHeld, Update, Stopped, Doc
  <2> QED
    BY <1>4, <2>2, <2>3, NobodyLeft DEF Stopped
<1>17. CASE LastAdvance(t)
  <2>1. Moves({t}, {}, NewTasks(t.gen)) /\ Advance(t.gen) /\ UNCHANGED doc /\ t.pc = "advance"
    BY <1>6, <1>17 DEF LastAdvance
  <2>2. \A u \in tasks' : Hired(u, doc.gen) => u \in NewTasks(doc.gen)
    BY <1>1, <1>5, <2>1
  <2>3. doc'.status \in Stopped \cup {"parsing"}
    BY <1>3, <2>1 DEF SplitAt
  <2> QED
    BY <1>1, <1>2, <1>4, <2>1, <2>2, <2>3, Restaffed
<1>18. ~Crash(t) /\ ~StrayPickup(t)
  BY DEF Crash, StrayPickup, CanCrash, Tame, At
<1> QED
  BY <1>9, <1>11, <1>13, <1>14, <1>15, <1>16, <1>17, <1>18
     DEF Work, RenderStart, RenderEmit, RenderAdvance, RenderFails, RenderGiveUp, RenderCount, FailedAdvance, OcrStart,
         OcrSave, OcrRetry, OcrFail, OcrCount, OcrCountFailed, AssembleStart, AssembleDecide, AssembleHandover,
         IndexBuild, TreeStart, TreeSettle, IndexFails, GenCleanup, DeleteObjects, DeletePurge, Starts, At

(* Workers and finishers move only the pages that are not finished.        *)
LEMMA WorkFlow ==
    ASSUME TypeOK, WorkerInv, NEW t \in tasks, Work(t) \/ Crash(t) \/ StrayPickup(t), ~SplitInit(t), ~DeletePurge(t)
    PROVE  Flow
<1>1. t \in Tasks /\ t.pc # "archived" /\ row \in [Page -> Row] /\ (t.typ # "delete" => t.gen \in Gen)
  BY WorkLive DEF TypeOK, WellFormed
<1>2. UNCHANGED row => Flow
  BY DEF Flow
<1>3. ASSUME NEW p, NEW s, SetPage(p, t.gen, s), row[p].gen = t.gen => row[p].st \in Busy PROVE Flow
  BY <1>1, <1>3 DEF SetPage, Flow, Row
<1>4. CASE OcrSave(t) \/ OcrFail(t)
  <2>1. At(t, "ocr", "read") /\ \E s : SetPage(t.page, t.gen, s)
    BY <1>4 DEF OcrSave, OcrFail
  <2>2. row[t.page].gen = t.gen => row[t.page].st = "ocr"
    BY <1>1, <2>1 DEF At, WorkerInv, Worker, InHand, OcrHand
  <2> QED
    BY <1>3, <2>1, <2>2 DEF Busy
<1>5. CASE RenderGiveUp(t)
  BY <1>2, <1>3, <1>5 DEF RenderGiveUp, Busy
<1>6. CASE RenderEmit(t)
  <2>1. t.typ = "render" /\ t.pc = "emit"
    BY <1>6 DEF RenderEmit, At
  <2>2. RenderHand(t)
    BY <1>1, <2>1 DEF WorkerInv, Worker, InHand
  <2>3. t.left \in SUBSET Page /\ t.left # {}
    BY <1>1, <2>1, <2>2 DEF RenderHand, Tasks
  <2>4. PICK p \in t.left : row' = IF row[p].gen = t.gen THEN [row EXCEPT ![p].st = "rendered", ![p].img = TRUE] ELSE row
    BY <1>6, <2>3, LeastIn DEF RenderEmit
  <2>5. row[p].gen = t.gen => row[p].st = "rendering"
    BY <2>1, <2>2, <2>4 DEF RenderHand
  <2> QED
    BY <1>1, <2>4, <2>5 DEF Flow, Busy, Row
<1>7. CASE LastAdvance(t) \/ RenderAdvance(t) \/ FailedAdvance(t)
  BY <1>1, <1>7, AdvanceFlow DEF LastAdvance, RenderAdvance, FailedAdvance, At
<1> QED
  BY <1>2, <1>4, <1>5, <1>6, <1>7
     DEF Work, Crash, StrayPickup, Drop, SplitStart, SplitProbeFails, SplitReady, SplitHeld, RenderStart, RenderFails,
         RenderCount, OcrStart, OcrRetry, OcrCount, OcrCountFailed, AssembleStart, AssembleDecide, AssembleHandover,
         IndexBuild, TreeStart, TreeSettle, IndexFails, GenCleanup, DeleteObjects

LEMMA StatusWorker ==
    ASSUME TypeOK, GenInv, WorkerInv, StatusInv, QuietInv, doc.exists, NEW t \in tasks, Worker(t), Hired(t, doc.gen),
           Work(t) \/ Crash(t) \/ StrayPickup(t)
    PROVE  StatusInv'
<1>1. t.pc # "archived" /\ t.gen = doc.gen /\ UNCHANGED reqs /\ doc \in Doc
  BY WorkReqs DEF TypeOK, Hired
<1>2. doc'.gen = doc.gen
  BY WorkGen
<1>3. doc'.status = doc.status
  BY <1>1 DEF Work, Crash, StrayPickup, Drop, SplitStart, SplitInit, SplitProbeFails, SplitReady, SplitHeld, LastAdvance,
       RenderStart, RenderEmit, RenderAdvance, RenderFails, RenderGiveUp, RenderCount, FailedAdvance, OcrStart,
       OcrSave, OcrRetry, OcrFail, OcrCount, OcrCountFailed, AssembleStart, AssembleDecide, AssembleHandover,
       IndexBuild, TreeStart, TreeSettle, IndexFails, GenCleanup, DeleteObjects, DeletePurge, Starts, At, Worker,
       CountPage, Doc
<1>4. ~Blank /\ ~Nobody(doc.gen) /\ t.typ \in {"ocr", "render"}
  BY DEF Blank, Nobody, Worker
<1>5. ~Asked(doc.gen)
  BY <1>4 DEF QuietInv, Asked
<1>6. \A u \in tasks : Hired(u, doc.gen) => u.typ # "split" /\ (Careful => ~Settling(u))
  <2>1. ASSUME NEW u \in tasks, Hired(u, doc.gen), Careful, Settling(u) PROVE FALSE
    <3>1. Only(u)
      BY <2>1 DEF StatusInv
    <3>2. t = u
      BY <1>1, <2>1, <3>1 DEF Only, Hired
    <3> QED
      BY <1>4, <2>1, <3>2 DEF Settling
  <2> QED
    BY <1>4, <2>1 DEF StatusInv
<1>7. Flow
  <2>1. ~SplitInit(t) /\ ~DeletePurge(t)
    BY <1>4 DEF SplitInit, DeletePurge, At
  <2> QED
    BY <2>1, WorkFlow
<1>8. PICK R, new : Moves({t}, R, new) /\ (new = {} \/ new = NewTasks(t.gen))
  BY <1>4, WorkSteady DEF Steady, Given
<1>9. ASSUME NEW u \in tasks', Hired(u, doc.gen)
      PROVE  u.typ # "split" /\ (Careful => ~Settling(u)) /\ (u.typ \in Late => Whole)
  <2>1. CASE u \in tasks
    BY <1>6, <1>9, <2>1 DEF StatusInv
  <2>2. CASE u \in R /\ Kin(u, t)
    BY <1>4, <2>2 DEF Kin, Settling, Late
  <2>3. CASE u \in NewTasks(t.gen)
    <3>1. u.hk = 0 /\ u.pc = "queued" /\ (OcrTask(u, t.gen) \/ RenderTask(u, t.gen) \/ AssembleTask(u, t.gen))
      BY <2>3, NewTasksAre
    <3>2. u.typ \in Late => Whole
      BY <1>1, <3>1, AssemblesWhole DEF GenInv, OcrTask, RenderTask, AssembleTask, Late
    <3> QED
      BY <3>1, <3>2 DEF OcrTask, RenderTask, AssembleTask, Settling
  <2> QED
    BY <1>1, <1>8, <1>9, <2>1, <2>2, <2>3, HiredAfter
<1>10. Whole => Whole'
  BY <1>2, <1>7, WholeFlow
<1>11. /\ doc.status \notin {"queued", "splitting"}
       /\ Careful => doc.status \notin {"completed", "partial", "failed", "not_started"}
       /\ doc.status \in {"assembling", "indexing", "completed", "partial"} => Whole
       /\ \A r \in reqs : r.op \in {"reparse", "pages"} => r.gen # doc.gen
  BY <1>4, <1>5 DEF StatusInv, Asked
<1> QED
  BY <1>1, <1>2, <1>3, <1>9, <1>10, <1>11 DEF StatusInv, Hired, Settling, Late

(* Where no task of a parse dies and finishers are prompt, an assembly     *)
(* that decides is the only task left.                                     *)
LEMMA DeciderAlone ==
    ASSUME Careful, TypeOK, GenInv, TurnInv, WorkerInv, StatusInv, doc.exists, NEW t \in tasks, Hired(t, doc.gen),
           AssembleDecide(t)
    PROVE  Only(t)
<1>1. t.gen = doc.gen /\ At(t, "assemble", "decide") /\ Finishing(doc.gen) = {}
  BY DEF Hired, AssembleDecide, PromptFinish, Careful
<1>2. Whole
  BY <1>1 DEF StatusInv, Late, At
<1>3. \A p \in Page : row[p].gen = doc.gen /\ row[p].st \notin Busy
  BY <1>2 DEF Whole, AllAre, PageIs, Busy
<1>4. ASSUME NEW u \in tasks, Worker(u), u.gen = doc.gen PROVE FALSE
  <2>1. InHand(u) /\ Waits(u) /\ u.pages \subseteq Page
    BY <1>4 DEF WorkerInv, TypeOK, WellFormed, Tasks
  <2>2. u.pc \notin {"count", "count_failed", "advance", "give_up"}
    BY <1>1, <1>4 DEF Finishing
  <2>3. u.pc # "queued"
    BY <1>3, <1>4, <2>1 DEF Waits, Doing, Busy
  <2>4. CASE u.typ = "ocr"
    <3>1. u.pc = "read" /\ u.page \in u.pages
      BY <2>1, <2>2, <2>3, <2>4 DEF InHand, OcrHand
    <3> QED
      BY <1>3, <1>4, <2>1, <2>4, <3>1 DEF InHand, OcrHand, Busy
  <2>5. CASE u.typ # "ocr"
    <3>1. u.pc = "emit" /\ u.left # {} /\ u.left \subseteq Page
      BY <2>1, <2>2, <2>3, <2>5 DEF InHand, RenderHand
    <3> QED
      BY <1>3, <1>4, <2>1, <2>5, <3>1 DEF InHand, RenderHand, Busy
  <2> QED
    BY <2>4, <2>5
<1>5. \A u \in tasks : Hired(u, doc.gen) /\ Settling(u) => t = u
  BY <1>1 DEF StatusInv, Only, Hired
<1>6. \A u \in tasks : ~(u.typ = "split" /\ Hired(u, doc.gen))
  BY <1>1 DEF StatusInv, Blank, At
<1>7. ASSUME NEW u \in tasks, Hired(u, doc.gen), u.typ = "assemble", ~Settling(u) PROVE u = t
  <2>1. u.hk = 0 /\ u.page = 0 /\ u.att = 0 /\ u.gen = doc.gen
    BY <1>7 DEF Settling, TurnInv, Plain, Hired
  <2>2. t.page = 0 /\ t.att = 0
    BY <1>1 DEF TurnInv, Plain, At
  <2>3. CASE t.hk = 0
    BY <1>1, <1>7, <2>1, <2>2, <2>3 DEF GenInv, Unique, Id, At
  <2>4. CASE t.hk # 0
    BY <1>1, <1>7, <2>1, <2>4 DEF StatusInv, Settling, Only, Hired, At
  <2> QED
    BY <2>3, <2>4
<1>8. ASSUME NEW u \in tasks, Hired(u, doc.gen) PROVE u.typ \in {"split", "ocr", "render", "assemble", "index", "tree"}
  BY <1>8 DEF Hired, TypeOK, WellFormed, Tasks, TaskTypes
<1>9. ASSUME NEW u \in tasks, Hired(u, doc.gen) PROVE u = t
  BY <1>4, <1>5, <1>6, <1>7, <1>8, <1>9 DEF Hired, Worker, Settling
<1> QED
  BY <1>1, <1>9 DEF Only

LEMMA StatusLate ==
    ASSUME TypeOK, GenInv, TurnInv, WorkerInv, StatusInv, QuietInv, doc.exists, NEW t \in tasks, t.typ \in Late,
           Hired(t, doc.gen), Work(t) \/ Crash(t) \/ StrayPickup(t)
    PROVE  StatusInv'
<1>1. t \in Tasks /\ t.pc # "archived" /\ t.gen = doc.gen /\ UNCHANGED reqs /\ doc \in Doc
  BY WorkReqs DEF TypeOK, WellFormed, Hired
<1>2. doc'.gen = doc.gen
  BY WorkGen
<1>3. Whole /\ ~Blank /\ ~Nobody(doc.gen) /\ ~Asked(doc.gen)
  BY DEF StatusInv, Blank, Nobody, QuietInv, Asked, Late
<1>4. /\ doc.status \notin {"queued", "splitting"}
      /\ Careful => doc.status \notin {"completed", "partial", "failed", "not_started"}
      /\ \A r \in reqs : r.op \in {"reparse", "pages"} => r.gen # doc.gen
      /\ \A u \in tasks : Hired(u, doc.gen) => u.typ # "split"
  BY <1>3 DEF StatusInv, Asked
<1>5. Careful /\ Settling(t) => Only(t)
  BY DEF StatusInv
<1>6. \A u \in tasks : Careful /\ Hired(u, doc.gen) /\ Settling(u) => u = t /\ Only(t)
  BY <1>1 DEF StatusInv, Only, Hired
<1>7. ASSUME UNCHANGED row, NEW R, NEW new, Moves({t}, R, new), \A u \in new : u.typ \in {"index", "tree", "gencleanup"},
             doc'.status \notin {"queued", "splitting"},
             Careful => \/ doc'.status \in Stopped \cup {"parsing", "assembling", "indexing"}
                        \/ Only(t) /\ (\A u \in R : u.pc = "archived") /\ new = {},
             Careful => \/ Only(t) /\ \A u, v \in R \cup new : Hired(u, doc.gen) /\ Hired(v, doc.gen) => u = v
                        \/ new = {} /\ \A u \in R : Hired(u, doc.gen) => ~Settling(u)
      PROVE  StatusInv'
  <2>1. Whole'
    BY <1>2, <1>3, <1>7 DEF Whole, AllAre, PageIs
  <2>2. \A u \in tasks' : Hired(u, doc.gen) => (u \in tasks /\ u # t) \/ (u \in R /\ Kin(u, t)) \/ u \in new
    BY <1>1, <1>7, HiredAfter
  <2>3. \A u \in tasks' : Hired(u, doc.gen) => u.typ # "split"
    BY <1>4, <1>7, <2>2 DEF Kin, Late
  <2>4. Careful /\ doc'.status \in {"completed", "partial", "failed", "not_started"} => Nobody(doc.gen)'
    BY <1>1, <1>2, <1>7, <2>2 DEF Stopped, Nobody, Only, Hired
  <2>5. ASSUME Careful, NEW u \in tasks', Hired(u, doc.gen), Settling(u) PROVE Only(u)'
    <3>1. CASE Only(t) /\ \A w, v \in R \cup new : Hired(w, doc.gen) /\ Hired(v, doc.gen) => w = v
      <4>1. \A v \in tasks' : Hired(v, doc.gen) => v \in R \cup new
        BY <1>1, <2>2, <3>1 DEF Only, Hired
      <4>2. \A v \in tasks' : Hired(v, doc.gen) => v = u
        BY <2>5, <3>1, <4>1
      <4> QED
        BY <2>5, <4>2 DEF Only, Hired
    <3>2. CASE new = {} /\ \A v \in R : Hired(v, doc.gen) => ~Settling(v)
      <4>1. u \in tasks /\ u # t
        BY <2>2, <2>5, <3>2
      <4> QED
        BY <1>6, <2>5, <4>1
    <3> QED
      BY <1>7, <2>5, <3>1, <3>2
  <2> QED
    BY <1>1, <1>2, <1>4, <1>7, <2>1, <2>3, <2>4, <2>5 DEF StatusInv, Stopped, Hired, Settling
<1>8. Final(t) => \A u \in Errored(t) : u.pc = "archived"
  BY <1>1, RestartKin DEF Errored
<1>9. \A u, v \in Errored(t) : u = v
  BY <1>1, ErroredKin
<1>10. Careful => doc.status \in Stopped \cup {"parsing", "assembling", "indexing"}
  BY <1>1, <1>4 DEF Doc, DocStatus, Stopped
<1>11. ASSUME NEW new, Ack(t, new) PROVE Moves({t}, {}, new) \/ (~Careful /\ Moves({t}, Errored(t), new))
  <2>1. t.typ \in Crashable => ~Careful
    BY DEF Careful, Late
  <2> QED
    BY <1>11, <2>1, AckMoves
<1>12. ASSUME NEW new, Ack(t, new), UNCHANGED row, \A u \in new : u.typ \in {"index", "tree", "gencleanup"},
              doc'.status \notin {"queued", "splitting"},
              Careful => doc'.status \in Stopped \cup {"parsing", "assembling", "indexing"} \/ (Only(t) /\ new = {}),
              Careful => new = {} \/ (Only(t) /\ \A u, v \in new : Hired(u, doc.gen) /\ Hired(v, doc.gen) => u = v)
       PROVE  StatusInv'
  <2>1. CASE Moves({t}, {}, new)
    BY <1>7, <1>12, <2>1
  <2>2. CASE ~Careful /\ Moves({t}, Errored(t), new)
    BY <1>7, <1>12, <2>2
  <2> QED
    BY <1>11, <1>12, <2>1, <2>2
<1>13. ASSUME Error(t), UNCHANGED row, Careful => Only(t), doc'.status \notin {"queued", "splitting"},
              doc'.status = doc.status \/ Final(t)
       PROVE  StatusInv'
  <2>1. Moves({t}, Errored(t), {})
    BY <1>13, ErrorMoves
  <2>2. \A u \in {} : u.typ \in {"index", "tree", "gencleanup"}
    OBVIOUS
  <2>3. Careful => \/ doc'.status \in Stopped \cup {"parsing", "assembling", "indexing"}
                   \/ Only(t) /\ (\A u \in Errored(t) : u.pc = "archived")
    BY <1>8, <1>10, <1>13
  <2>4. Careful => Only(t) /\ \A u, v \in Errored(t) \cup {} : Hired(u, doc.gen) /\ Hired(v, doc.gen) => u = v
    BY <1>9, <1>13
  <2> QED
    BY <1>7, <1>13, <2>1, <2>2, <2>3, <2>4
<1>14. ASSUME NEW pc \in Steps, Goto(t, pc), UNCHANGED row, doc'.status \notin {"queued", "splitting"},
              Careful => doc'.status \in Stopped \cup {"parsing", "assembling", "indexing"},
              Careful => Only(t) \/ (t.typ = "assemble" /\ t.hk = 0 /\ pc # "handover")
       PROVE  StatusInv'
  <2>1. PICK u : Kin(u, t) /\ u.pc = pc /\ Moves({t}, {u}, {})
    BY <1>1, <1>14, PcKin, GotoMoves
  <2>2. \A v \in {} : v.typ \in {"index", "tree", "gencleanup"}
    OBVIOUS
  <2>3. Careful => \/ Only(t) /\ \A w, v \in {u} \cup {} : Hired(w, doc.gen) /\ Hired(v, doc.gen) => w = v
                   \/ \A v \in {u} : Hired(v, doc.gen) => ~Settling(v)
    BY <1>14, <2>1 DEF Settling, Kin
  <2> QED
    BY <1>7, <1>14, <2>1, <2>2, <2>3
<1>15. CASE Drop(t)
  <2>1. Ack(t, {}) /\ UNCHANGED <<doc, row>> /\ \A u \in {} : u.typ \in {"index", "tree", "gencleanup"}
    BY <1>15 DEF Drop
  <2> QED
    BY <1>4, <1>10, <1>12, <2>1
<1>16. CASE AssembleStart(t)
  <2>1. Goto(t, "decide") /\ UNCHANGED row /\ doc'.status = "assembling" /\ t.typ = "assemble" /\ t.pc = "queued"
    BY <1>1, <1>16 DEF AssembleStart, Starts, At, Runnable, Update, Doc
  <2> QED
    BY <1>5, <1>14, <2>1 DEF Settling, Steps
<1>17. CASE AssembleDecide(t)
  <2>1. Careful => Only(t)
    BY <1>17, DeciderAlone
  <2>2. UNCHANGED row
    BY <1>17 DEF AssembleDecide
  <2>3. ASSUME Error(t), UNCHANGED doc PROVE StatusInv'
    BY <1>4, <1>13, <2>1, <2>2, <2>3
  <2>4. ASSUME DeadLetter(t), FailDoc(t.gen) PROVE StatusInv'
    <3>1. Moves({t}, Archived(t), {}) /\ (\A u \in Archived(t) : u.pc = "archived") /\ \A u, v \in Archived(t) : u = v
      BY <1>1, <2>4, ErrorMoves, RestartKin
    <3>2. doc'.status \notin {"queued", "splitting"}
      BY <1>1, <1>4, <2>4 DEF FailDoc, Update, Doc
    <3>3. \A u \in {} : u.typ \in {"index", "tree", "gencleanup"}
      OBVIOUS
    <3>4. \A u, v \in Archived(t) \cup {} : Hired(u, doc.gen) /\ Hired(v, doc.gen) => u = v
      BY <3>1
    <3> QED
      BY <1>7, <2>1, <2>2, <3>1, <3>2, <3>3, <3>4
  <2>5. ASSUME NEW d, Update(t.gen, d), d.status = "indexing", Goto(t, "handover") PROVE StatusInv'
    <3>1. doc'.status \in {doc.status, "indexing"}
      BY <2>5 DEF Update
    <3> QED
      BY <1>4, <1>10, <1>14, <2>1, <2>2, <2>5, <3>1 DEF Steps
  <2>6. \A x : [doc EXCEPT !.status = "indexing", !.parse = x].status = "indexing"
    BY <1>1 DEF Doc
  <2>7. \/ Error(t) /\ UNCHANGED doc
        \/ DeadLetter(t) /\ FailDoc(t.gen)
        \/ \E x : Update(t.gen, [doc EXCEPT !.status = "indexing", !.parse = x]) /\ Goto(t, "handover")
    BY <1>17 DEF AssembleDecide
  <2> QED
    BY <2>3, <2>4, <2>5, <2>6, <2>7
<1>18. CASE AssembleHandover(t)
  <2>1. Careful => Only(t)
    BY <1>5, <1>18 DEF AssembleHandover, At, Settling
  <2>2. UNCHANGED <<doc, row>>
    BY <1>18 DEF AssembleHandover
  <2>3. PICK new : /\ Ack(t, new) /\ \A u \in new : u = DocTask("index", t.gen, 0) \/ u = DocTask("gencleanup", t.gen, 0)
    BY <1>18 DEF AssembleHandover
  <2>4. /\ \A u \in new : u.typ \in {"index", "tree", "gencleanup"}
        /\ \A u, v \in new : Hired(u, doc.gen) /\ Hired(v, doc.gen) => u = v
    BY <2>3 DEF Hired, DocTask, Task
  <2> QED
    BY <1>4, <1>10, <1>12, <2>1, <2>2, <2>3, <2>4
<1>19. CASE IndexBuild(t)
  <2>1. Careful => Only(t)
    BY <1>5, <1>19 DEF IndexBuild, Starts, At, Settling
  <2>2. UNCHANGED <<doc, row>> /\ Ack(t, {DocTask("tree", t.gen, 0)})
    BY <1>19 DEF IndexBuild
  <2>3. \A u \in {DocTask("tree", t.gen, 0)} : u.typ \in {"index", "tree", "gencleanup"}
    BY DEF DocTask, Task
  <2> QED
    BY <1>4, <1>10, <1>12, <2>1, <2>2, <2>3
<1>20. CASE TreeStart(t)
  BY <1>4, <1>5, <1>10, <1>14, <1>20 DEF TreeStart, Starts, At, Settling, Steps
<1>21. CASE TreeSettle(t)
  <2>1. (Careful => Only(t)) /\ UNCHANGED row
    BY <1>5, <1>21 DEF TreeSettle, At, Settling
  <2>2. ASSUME Error(t), UNCHANGED doc PROVE StatusInv'
    BY <1>4, <1>13, <2>1, <2>2
  <2>3. ASSUME NEW s \in {"completed", "partial"}, Update(t.gen, [doc EXCEPT !.status = s]), Ack(t, {}) PROVE StatusInv'
    <3>1. doc'.status \in {doc.status, "completed", "partial"}
      BY <1>1, <2>3 DEF Update, Doc
    <3>2. \A u \in {} : u.typ \in {"index", "tree", "gencleanup"}
      OBVIOUS
    <3> QED
      BY <1>4, <1>12, <2>1, <2>3, <3>1, <3>2
  <2> QED
    BY <1>21, <2>2, <2>3 DEF TreeSettle
<1>22. CASE IndexFails(t)
  <2>1. (Careful => Only(t)) /\ UNCHANGED row /\ Error(t)
    BY <1>5, <1>22 DEF IndexFails, Starts, At, Settling
  <2>2. UNCHANGED doc \/ (Final(t) /\ doc'.status \in {doc.status, "failed"})
    BY <1>1, <1>22 DEF IndexFails, Update, Doc
  <2> QED
    BY <1>4, <1>13, <2>1, <2>2
<1>23. CASE Crash(t)
  <2>1. Moves({t}, Errored(t), {}) /\ ~Careful /\ UNCHANGED <<doc, row>>
    BY <1>1, <1>23, EnqueueNone, ErroredKin DEF Crash, Moves, Others, CanCrash, Careful, Late
  <2>2. \A u \in {} : u.typ \in {"index", "tree", "gencleanup"}
    OBVIOUS
  <2> QED
    BY <1>4, <1>7, <2>1, <2>2
<1> QED
  BY <1>15, <1>16, <1>17, <1>18, <1>19, <1>20, <1>21, <1>22, <1>23
     DEF Work, StrayPickup, SplitStart, SplitInit, SplitProbeFails, SplitReady, SplitHeld, LastAdvance,
         RenderStart, RenderEmit, RenderAdvance, RenderFails, RenderGiveUp, RenderCount, FailedAdvance, OcrStart,
         OcrSave, OcrRetry, OcrFail, OcrCount, OcrCountFailed, GenCleanup, DeleteObjects, DeletePurge, Starts, At, Late

LEMMA StatusWork ==
    ASSUME Tame, PipeInv, NEW t \in tasks, Work(t) \/ Crash(t) \/ StrayPickup(t)
    PROVE  StatusInv'
<1>1. TypeOK /\ GenInv /\ TurnInv /\ WorkerInv /\ StatusInv /\ QuietInv
  BY DEF PipeInv
<1>2. CASE ~Hired(t, doc.gen)
  BY <1>1, <1>2, StatusElsewhere
<1>3. CASE Hired(t, doc.gen) /\ doc.exists
  <2>1. t.typ \in {"split", "ocr", "render"} \cup Late
    BY <1>1, <1>3 DEF Hired, TypeOK, WellFormed, Tasks, TaskTypes, Late
  <2>2. t.typ \in {"ocr", "render"} => Worker(t)
    BY <1>3 DEF Hired, Worker
  <2> QED
    BY <1>1, <1>3, <2>1, <2>2, StatusSplit, StatusWorker, StatusLate
<1>4. CASE ~doc.exists
  <2>1. ~doc'.exists
    BY <1>1, <1>4, WorkGen
  <2> QED
    BY <2>1 DEF StatusInv
<1> QED
  BY <1>2, <1>3, <1>4

LEMMA StatusHousekeeping ==
    ASSUME Tame, PipeInv, Housekeeping
    PROVE  StatusInv'
<1>1. TypeOK /\ GenInv /\ TurnInv /\ WorkerInv /\ StatusInv /\ QuietInv /\ doc \in Doc /\ doc.gen \in Gen
  BY DEF PipeInv, TypeOK, Doc
<1>2. \A dead : Presume(dead) => dead
  BY <1>1, SizeAssumption DEF Presume, Tame, TypeOK, Used
<1>3. ASSUME NEW p \in Page, HkReset(p) PROVE StatusInv'
  <2>1. RowsHeld
    <3>1. row \in [Page -> Row] /\ row[p].st \in Busy
      BY <1>1, <1>3 DEF TypeOK, HkReset, Busy
    <3> QED
      BY <1>3, <3>1 DEF HkReset, RowsHeld, Row
  <2>2. SameView
    BY <1>3, <2>1 DEF HkReset, SameView, Asked
  <2> QED
    BY <1>1, <2>2, StatusKept
<1>4. ASSUME Idle, UNCHANGED reqs, NEW new, tasks' = Enqueue(new, tasks), NEW u \in tasks', Hired(u, doc.gen)
      PROVE  u \in new
  BY <1>4 DEF Idle, Enqueue, Hired, Live
<1>5. Idle => Nobody(doc.gen) /\ ~Asked(doc.gen) /\ \A r \in reqs : r.op \notin {"reparse", "pages"}
  BY DEF Idle, Nobody, Hired, Live, Asked
<1>6. CASE HkAdvance
  <2>1. /\ Idle /\ UNCHANGED <<doc, reqs>> /\ doc.status = "parsing"
        /\ Advance(doc.gen) /\ tasks' = Enqueue(NewTasks(doc.gen), tasks)
    BY <1>2, <1>6 DEF HkAdvance, Stuck
  <2>2. \A u \in tasks' : Hired(u, doc.gen) => u \in NewTasks(doc.gen)
    BY <1>4, <2>1
  <2> QED
    BY <1>1, <1>5, <2>1, <2>2, Restaffed
<1>7. ASSUME NEW b, NEW s, NEW typ \in {"split", "assemble", "index"}, HkDispatch(s, typ, b),
             s = IF typ = "split" THEN {"queued", "splitting"} ELSE IF typ = "assemble" THEN {"assembling"} ELSE {"indexing"}
      PROVE  StatusInv'
  <2>1. /\ Idle /\ UNCHANGED <<doc, row, reqs>> /\ doc.exists /\ doc.status \in s
        /\ tasks' = Enqueue({DocTask(typ, doc.gen, b)}, tasks)
    BY <1>2, <1>7 DEF HkDispatch, Stuck, Visible
  <2>2. PICK d : d.typ = typ /\ d.gen = doc.gen /\ d.pc = "queued" /\ d = DocTask(typ, doc.gen, b)
    BY DEF DocTask, Task
  <2>3. \A u \in tasks' : Hired(u, doc.gen) => u = d
    BY <1>4, <2>1, <2>2
  <2>4. CASE typ = "split"
    <3>1. Blank
      BY <1>1, <1>7, <2>1, <2>4 DEF StatusInv
    <3>2. \A u \in tasks' : Hired(u, doc.gen) => u.typ = "split"
      BY <2>2, <2>3, <2>4
    <3>3. Blank'
      BY <2>1, <3>1, <3>2 DEF Blank, Asked, Hired
    <3>4. SplitAt(d)'
      BY <1>7, <2>1, <2>2, <2>4 DEF SplitAt
    <3> QED
      BY <1>5, <2>1, <2>2, <2>3, <2>4, <3>3, <3>4, SplitAlone
  <2>5. CASE typ # "split"
    <3>1. Whole
      BY <1>1, <1>5, <1>7, <2>1, <2>5 DEF StatusInv
    <3>2. Whole' /\ doc'.status \in {"assembling", "indexing"}
      BY <1>7, <2>1, <2>5, <3>1 DEF Whole, AllAre, PageIs
    <3>3. \A u \in tasks' : Hired(u, doc.gen) => u.typ # "split" /\ Only(u)'
      BY <2>2, <2>3, <2>5 DEF Only, Hired
    <3> QED
      BY <1>5, <2>1, <3>2, <3>3 DEF StatusInv, Hired, Stopped, Settling
  <2> QED
    BY <2>4, <2>5
<1>8. ASSUME NEW b, HkDelete(b) PROVE StatusInv'
  <2>1. UNCHANGED <<doc, row, reqs>> /\ tasks' = Enqueue({DocTask("delete", 0, b)}, tasks)
    BY <1>8 DEF HkDelete
  <2>2. \A u \in tasks' : Hired(u, doc.gen) => u \in tasks
    BY <2>1 DEF Enqueue, Hired, DocTask, Task
  <2>3. SameView
    BY <2>1, <2>2 DEF SameView, RowsHeld, Asked
  <2> QED
    BY <1>1, <2>3, StatusKept
<1> QED
  BY <1>3, <1>6, <1>7, <1>8 DEF Housekeeping

LEMMA StatusAsk ==
    ASSUME Tame, Either, PipeInv, Ask
    PROVE  StatusInv'
<1>1. TypeOK /\ GenInv /\ TurnInv /\ MarkInv /\ StatusInv /\ QuietInv /\ doc \in Doc /\ doc.gen \in Nat
  BY SizeAssumption DEF PipeInv, TypeOK, Doc, Gen
<1>2. ASSUME NEW op \in {"cancel", "delete"}, NEW g, NEW P, NEW pc, Opens(op, g, P, pc), UNCHANGED <<row, tasks>>,
             doc'.gen = doc.gen, doc'.exists = doc.exists, doc'.status \in {doc.status} \cup Stopped,
             doc'.done = doc.done /\ doc'.failed = doc.failed /\ doc'.skipped = doc.skipped
      PROVE  StatusInv'
  <2>1. \A r \in reqs' : r.op \in {"reparse", "pages"} => r \in reqs
    BY <1>2 DEF Opens, Request
  <2>2. Asked(doc.gen) => Asked(doc.gen)'
    BY <1>2 DEF Opens, Asked
  <2>3. SameView
    BY <1>2, <2>1, <2>2 DEF SameView, RowsHeld, Hired
  <2> QED
    BY <1>1, <2>3, StatusKept
<1>3. CASE CancelCheck
  BY <1>2, <1>3 DEF CancelCheck, Open, Opens
<1>4. CASE DeleteMark
  <2>1. /\ doc'.gen = doc.gen /\ doc'.exists = doc.exists /\ doc'.status = "deleting"
        /\ doc'.done = doc.done /\ doc'.failed = doc.failed /\ doc'.skipped = doc.skipped
    BY <1>1, <1>4 DEF DeleteMark, Doc
  <2> QED
    BY <1>2, <1>4, <2>1 DEF DeleteMark, Open, Opens, Stopped
<1>5. CASE ReparseBump
  <2>1. /\ doc'.gen = doc.gen + 1 /\ doc'.status = "queued" /\ doc'.done = 0 /\ doc'.failed = 0 /\ doc'.skipped = 0
        /\ UNCHANGED <<row, tasks>>
    BY <1>1, <1>5 DEF ReparseBump, Doc
  <2>2. /\ \A t \in tasks : t.gen # doc'.gen
        /\ \A r \in reqs : r.gen # doc'.gen
        /\ \A p \in Page : row[p].gen # doc'.gen
    <3>1. (\A t \in tasks : t.gen \in Int) /\ (\A r \in reqs : r.gen \in Int) /\ \A p \in Page : row[p].gen \in Int
      BY <1>1, SizeAssumption DEF TypeOK, WellFormed, Tasks, Reqs, Row, Gen
    <3> QED
      BY <1>1, <2>1, <3>1 DEF GenInv, NoneAhead
  <2>3. PICK r : reqs' = reqs \cup {r} /\ r.op = "reparse"
    <3>1. Request("reparse", doc.gen + 1, {}, "enqueue").op = "reparse"
      BY DEF Request
    <3>2. reqs' = reqs \cup {Request("reparse", doc.gen + 1, {}, "enqueue")}
      BY <1>5 DEF ReparseBump, Open
    <3> QED
      BY <3>1, <3>2
  <2>4. Nobody(doc.gen)' /\ ~Asked(doc.gen)'
    BY <2>1, <2>2, <2>3 DEF Nobody, Hired, Asked
  <2>5. Blank'
    BY <2>1, <2>2, <2>4 DEF Blank, Nobody
  <2> QED
    BY <2>1, <2>4, <2>5 DEF StatusInv, Nobody, Asked, Stopped
<1>6. ASSUME NEW P, PagesCheck(P) PROVE StatusInv'
  <2>1. /\ Opens("pages", doc.gen, P, "reset") /\ UNCHANGED <<doc, row, tasks>>
        /\ doc.status \in Terminal \ {"cancelled", "deleting"} /\ doc.exists
    BY <1>1, <1>6 DEF PagesCheck, Open, Opens, MarkInv, Visible
  <2>2. Careful
    BY <2>1 DEF Opens, Either
  <2>3. Nobody(doc.gen)
    BY <1>1, <2>1, <2>2 DEF StatusInv, Terminal
  <2>4. \A r \in reqs' : r.op = "pages" /\ r.gen = doc.gen => r.pc # "advance" \/ r \in reqs
    BY <2>1 DEF Opens, Request
  <2>5. Asked(doc.gen)' /\ \A r \in reqs' : r.op = "reparse" => r \in reqs
    <3>1. /\ Request("pages", doc.gen, P, "reset").op = "pages" /\ Request("pages", doc.gen, P, "reset").gen = doc.gen
      BY DEF Request
    <3>2. reqs' = reqs \cup {Request("pages", doc.gen, P, "reset")}
      BY <2>1 DEF Opens
    <3> QED
      BY <2>1, <3>1, <3>2 DEF Asked
  <2> QED
    BY <1>1, <2>1, <2>3, <2>4, <2>5 DEF StatusInv, Nobody, Terminal, Stopped, Settling, Hired
<1> QED
  BY <1>3, <1>4, <1>5, <1>6 DEF Ask

(* A request for more pages goes on; it is the only one.                   *)
LEMMA PagesOn ==
    ASSUME PipeInv, doc.exists, NEW r \in reqs, r.op = "pages", r.gen = doc.gen, UNCHANGED tasks,
           NEW q, q.op = "pages", q.gen = r.gen, reqs' = (reqs \ {r}) \cup {q},
           doc'.gen = doc.gen, doc'.status \in IF q.pc = "advance" THEN Stopped \cup {"parsing"} ELSE Terminal
    PROVE  StatusInv'
<1>1. Nobody(doc.gen) /\ \A x \in reqs : x.op = "reparse" => x.gen # doc.gen
  BY DEF PipeInv, QuietInv
<1>2. \A x \in reqs' : x.op = "pages" => x = q
  BY DEF PipeInv, TurnInv, OnePages
<1>3. Asked(doc.gen)'
  BY DEF Asked
<1>4. \A x \in reqs' : x.op = "reparse" => x.gen # doc.gen
  BY <1>1
<1> QED
  BY <1>1, <1>2, <1>3, <1>4 DEF StatusInv, Nobody, Stopped, Terminal, Hired

LEMMA StatusServe ==
    ASSUME Tame, Either, PipeInv, NEW r \in reqs, ServeStep(r) \/ RequestDies(r)
    PROVE  StatusInv'
<1>1. /\ TypeOK /\ GenInv /\ TurnInv /\ StatusInv /\ QuietInv /\ doc \in Doc /\ doc.gen \in Gen /\ r \in Reqs /\ r.gen \in Gen
      /\ row \in [Page -> Row]
  BY DEF PipeInv, TypeOK, Doc, Reqs
<1>2. doc'.gen = doc.gen /\ doc'.exists = doc.exists
  <2>1. PagesParse(r) => doc'.gen = doc.gen /\ doc'.exists = doc.exists
    BY <1>1 DEF PagesParse, Update, Doc
  <2> QED
    BY <1>1, <2>1 DEF ServeStep, RequestDies, CancelWrite, DeleteEnqueue, ReparseEnqueue, PagesReset, PagesAdjust,
                      PagesPick, PagesAdvance, Doc
<1>3. ASSUME r.op # "pages" \/ r.gen # doc.gen, reqs' = reqs \ {r}, doc' = [doc EXCEPT !.status = doc'.status],
             doc'.status \in {doc.status} \cup Stopped, RowsHeld, \A u \in tasks' : Hired(u, doc.gen) => u \in tasks
      PROVE  StatusInv'
  <2>1. Asked(doc.gen) => Asked(doc.gen)'
    BY <1>2, <1>3 DEF Asked
  <2>2. doc'.done = doc.done /\ doc'.failed = doc.failed /\ doc'.skipped = doc.skipped
    BY <1>1, <1>3 DEF Doc
  <2>3. SameView
    BY <1>2, <1>3, <2>1, <2>2 DEF SameView
  <2> QED
    BY <1>1, <2>3, StatusKept
<1>4. UNCHANGED row => RowsHeld
  BY DEF RowsHeld
<1>5. UNCHANGED doc => doc' = [doc EXCEPT !.status = doc'.status]
  BY <1>1 DEF Doc
<1>6. CASE CancelWrite(r)
  <2>1. r.op # "pages" /\ reqs' = reqs \ {r} /\ UNCHANGED <<row, tasks>>
    BY <1>6 DEF CancelWrite, In, Close
  <2>2. doc' = [doc EXCEPT !.status = doc'.status] /\ doc'.status \in {doc.status} \cup Stopped
    BY <1>1, <1>5, <1>6 DEF CancelWrite, Doc, Stopped
  <2> QED
    BY <1>3, <1>4, <2>1, <2>2
<1>7. CASE DeleteEnqueue(r)
  <2>1. r.op # "pages" /\ reqs' = reqs \ {r} /\ UNCHANGED <<doc, row>> /\ tasks' = Enqueue({DocTask("delete", 0, 0)}, tasks)
    BY <1>7 DEF DeleteEnqueue, In, Close
  <2>2. \A u \in tasks' : Hired(u, doc.gen) => u \in tasks
    BY <2>1 DEF Enqueue, Hired, DocTask, Task
  <2> QED
    BY <1>3, <1>4, <1>5, <2>1, <2>2
<1>8. CASE ReparseEnqueue(r)
  <2>1. /\ r.op = "reparse" /\ reqs' = reqs \ {r} /\ UNCHANGED <<doc, row>>
        /\ tasks' = Enqueue({DocTask("split", r.gen, 0)}, tasks)
    BY <1>8 DEF ReparseEnqueue, In, Close
  <2>2. PICK d : d = DocTask("split", r.gen, 0) /\ d.typ = "split" /\ d.gen = r.gen /\ d.pc = "queued"
    <3>1. LET d == DocTask("split", r.gen, 0) IN d.typ = "split" /\ d.gen = r.gen /\ d.pc = "queued"
      BY DEF DocTask, Task
    <3> QED
      BY <3>1
  <2>3. \A u \in tasks' : u \in tasks \/ u = d
    BY <2>1, <2>2 DEF Enqueue
  <2>4. CASE r.gen # doc.gen
    <3>1. \A u \in tasks' : Hired(u, doc.gen) => u \in tasks
      BY <2>2, <2>3, <2>4 DEF Hired
    <3> QED
      BY <1>3, <1>4, <1>5, <2>1, <3>1
  <2>5. CASE r.gen = doc.gen /\ doc.exists
    <3>1. Blank /\ Nobody(doc.gen) /\ doc.status \in Stopped \cup {"queued"}
      BY <1>1, <2>1, <2>5 DEF StatusInv
    <3>2. \A u \in tasks' : Hired(u, doc.gen) => u = d
      BY <2>3, <3>1 DEF Nobody
    <3>3. Blank'
      BY <2>1, <2>2, <3>1, <3>2 DEF Blank, Asked, Hired
    <3>4. SplitAt(d)'
      BY <2>1, <2>2, <3>1 DEF SplitAt
    <3>5. \A x \in reqs' : x.op = "reparse" => x.gen # doc.gen
      BY <1>1, <2>1, <2>5 DEF GenInv, OneReparse
    <3> QED
      BY <1>2, <2>2, <2>5, <3>2, <3>3, <3>4, <3>5, SplitAlone
  <2> QED
    BY <1>2, <2>4, <2>5 DEF StatusInv
<1>9. CASE RequestDies(r)
  <2>1. "api" \in Crashable /\ reqs' = reqs \ {r} /\ UNCHANGED <<doc, row, tasks>>
    BY <1>9 DEF RequestDies, CanCrash, Close
  <2>2. r.op # "pages"
    BY <1>1, <2>1 DEF Either, Careful, GenInv, AsAsked
  <2> QED
    BY <1>3, <1>4, <1>5, <2>1, <2>2
<1>10. CASE PagesAdvance(r)
  <2>1. /\ r.op = "pages" /\ r.pc = "advance" /\ reqs' = reqs \ {r} /\ UNCHANGED doc
        /\ Advance(r.gen) /\ tasks' = Enqueue(NewTasks(r.gen), tasks)
    BY <1>10 DEF PagesAdvance, In, Close
  <2>2. \A u \in tasks' : u \in tasks \/ u \in NewTasks(r.gen)
    BY <2>1 DEF Enqueue
  <2>3. CASE r.gen # doc.gen
    <3>1. \A u \in tasks' : Hired(u, doc.gen) => u \in tasks
      BY <2>2, <2>3, NewTasksAre DEF Hired
    <3>2. RowsHeld
      BY <1>1, <2>1, <2>3, AdvanceOne DEF RowsHeld
    <3> QED
      BY <1>3, <1>5, <2>1, <2>3, <3>1, <3>2
  <2>4. CASE r.gen = doc.gen /\ doc.exists
    <3>1. Nobody(doc.gen) /\ \A x \in reqs : x.op = "reparse" => x.gen # doc.gen
      BY <1>1, <2>1, <2>4 DEF QuietInv
    <3>2. \A x \in reqs' : x.op \in {"reparse", "pages"} => x.gen # doc.gen
      BY <1>1, <2>1, <3>1 DEF TurnInv, OnePages
    <3>3. \A u \in tasks' : Hired(u, doc.gen) => u \in NewTasks(doc.gen)
      BY <2>2, <2>4, <3>1 DEF Nobody
    <3>4. doc'.status \in Stopped \cup {"parsing"}
      BY <1>1, <2>1, <2>4 DEF StatusInv
    <3> QED
      BY <1>1, <1>2, <2>1, <2>4, <3>2, <3>3, <3>4, Restaffed
  <2> QED
    BY <1>2, <2>3, <2>4 DEF StatusInv
<1>11. CASE PagesReset(r) \/ PagesAdjust(r) \/ PagesPick(r) \/ PagesParse(r)
  <2>1. PICK q : /\ q.op = "pages" /\ q.gen = r.gen /\ reqs' = (reqs \ {r}) \cup {q} /\ r.op = "pages"
                 /\ q.pc = "advance" <=> PagesParse(r)
                 /\ r.pc # "advance"
    <3>1. CASE PagesReset(r)
      <4>1. PICK d, f : reqs' = (reqs \ {r}) \cup {[r EXCEPT !.pc = "adjust", !.done = d, !.failed = f]}
        BY <3>1 DEF PagesReset
      <4>2. LET q == [r EXCEPT !.pc = "adjust", !.done = d, !.failed = f]
            IN  q.op = r.op /\ q.gen = r.gen /\ q.pc = "adjust"
        BY <1>1 DEF Reqs
      <4>3. ~PagesParse(r) /\ r.op = "pages" /\ r.pc # "advance"
        BY <3>1 DEF PagesReset, PagesParse, In
      <4> QED
        BY <4>1, <4>2, <4>3
    <3>2. CASE PagesAdjust(r) \/ PagesPick(r) \/ PagesParse(r)
      <4>1. PICK pc : /\ reqs' = (reqs \ {r}) \cup {[r EXCEPT !.pc = pc]} /\ (pc = "advance" <=> PagesParse(r))
        BY <3>2 DEF PagesAdjust, PagesPick, PagesParse, Serve, In
      <4>2. LET q == [r EXCEPT !.pc = pc] IN q.op = r.op /\ q.gen = r.gen /\ q.pc = pc
        BY <1>1 DEF Reqs
      <4>3. r.op = "pages" /\ r.pc # "advance"
        BY <3>2 DEF PagesAdjust, PagesPick, PagesParse, In
      <4> QED
        BY <4>1, <4>2, <4>3
    <3> QED
      BY <1>11, <3>1, <3>2
  <2>2. UNCHANGED tasks
    BY <1>11 DEF PagesReset, PagesAdjust, PagesPick, PagesParse
  <2>3. CASE r.gen = doc.gen /\ doc.exists
    <3>1. doc.status \in Terminal
      BY <1>1, <2>1, <2>3 DEF StatusInv
    <3>2. doc'.status \in IF q.pc = "advance" THEN Stopped \cup {"parsing"} ELSE Terminal
      <4>1. PagesParse(r) => doc'.status \in Stopped \cup {"parsing"}
        BY <1>1, <2>3 DEF PagesParse, Update, Stopped, Doc
      <4>2. ~PagesParse(r) => doc'.status = doc.status
        BY <1>1, <1>11 DEF PagesReset, PagesAdjust, PagesPick, Doc
      <4> QED
        BY <2>1, <3>1, <4>1, <4>2
    <3> QED
      BY <1>2, <2>1, <2>2, <2>3, <3>2, PagesOn
  <2>4. CASE r.gen # doc.gen
    <3>1. UNCHANGED doc
      BY <1>11, <2>4 DEF PagesReset, PagesAdjust, PagesPick, PagesParse, Counted, Update
    <3>2. RowsHeld
      <4>1. PagesReset(r) => RowsHeld
        BY <1>1, <2>4 DEF PagesReset, RowsHeld, Row
      <4> QED
        BY <1>4, <1>11, <4>1 DEF PagesAdjust, PagesPick, PagesParse
    <3>3. Asked(doc.gen) => Asked(doc.gen)'
      BY <1>2, <2>1, <2>4 DEF Asked
    <3>4. SameView
      BY <2>1, <2>2, <2>4, <3>1, <3>2, <3>3 DEF SameView
    <3> QED
      BY <1>1, <3>4, StatusKept
  <2> QED
    BY <1>2, <2>3, <2>4 DEF StatusInv
<1> QED
  BY <1>6, <1>7, <1>8, <1>9, <1>10, <1>11 DEF ServeStep


LEMMA StatusStep ==
    ASSUME Tame, Either, PipeInv, [Next]_vars
    PROVE  StatusInv'
<1>1. ASSUME UNCHANGED vars PROVE StatusInv'
  <2>1. SameView
    BY <1>1 DEF vars, SameView, RowsHeld, Asked
  <2> QED
    BY <2>1, StatusKept DEF PipeInv
<1> QED
  BY <1>1, StatusWork, StatusHousekeeping, StatusAsk, StatusServe DEF Next, WorkStep

LEMMA MarkStep == TypeOK /\ MarkInv /\ [Next]_vars => MarkInv'
BY StepStatus DEF MarkInv

LEMMA QuietStep ==
    ASSUME Tame, Either, PipeInv, [Next]_vars
    PROVE  QuietInv'
<1>1. /\ TypeOK /\ GenInv /\ TurnInv /\ MarkInv /\ StatusInv /\ QuietInv
      /\ doc.gen \in Int /\ \A r \in reqs : r.gen \in Int
  BY SizeAssumption DEF PipeInv, TypeOK, Doc, Reqs, Gen
<1>2. ASSUME \A r \in reqs' : r.op \in {"reparse", "pages"} => \E q \in reqs : q.op = r.op /\ q.gen = r.gen,
             \A r \in reqs' : \A u \in tasks' : r.op = "pages" /\ Hired(u, r.gen) => u \in tasks
      PROVE  QuietInv'
  <2>1. \A r \in reqs' : \A u : r.op = "pages" /\ Hired(u, r.gen) => u \notin tasks
    BY <1>1, <1>2 DEF QuietInv, Nobody
  <2>2. \A r \in reqs' : r.op = "pages" => \A x \in reqs' : x.op = "reparse" => x.gen # r.gen
    BY <1>1, <1>2 DEF QuietInv
  <2>3. \A r \in reqs' : r.op = "pages" => \A u \in tasks' : ~Hired(u, r.gen)
    BY <1>2, <2>1
  <2> QED
    BY <2>2, <2>3 DEF QuietInv, Nobody, Hired
<1>3. ASSUME NEW t \in tasks, Work(t) \/ Crash(t) \/ StrayPickup(t) PROVE QuietInv'
  <2>1. UNCHANGED reqs /\ t.pc # "archived" /\ t \in Tasks
    BY <1>1, <1>3, WorkReqs, WorkLive DEF TypeOK, WellFormed
  <2>2. PICK R, new : Moves({t}, R, new) /\ Given(new, t)
    BY <1>1, <1>3, WorkSteady DEF Steady
  <2>3. ASSUME NEW r \in reqs, r.op = "pages", NEW u \in tasks', Hired(u, r.gen), u \notin tasks PROVE FALSE
    <3>1. ~Hired(t, r.gen)
      BY <1>1, <2>3 DEF QuietInv, Nobody
    <3>2. u \in new
      BY <2>1, <2>2, <2>3, <3>1, HiredAfter
    <3>3. u.gen = t.gen
      BY <2>2, <3>2 DEF Given, Batched
    <3> QED
      BY <2>1, <2>2, <2>3, <3>1, <3>2, <3>3 DEF Given, Hired
  <2> QED
    BY <1>2, <2>1, <2>3
<1>4. CASE Housekeeping
  <2>1. CASE Idle /\ UNCHANGED reqs
    BY <2>1 DEF Idle, QuietInv
  <2>2. Presume(Idle) => Idle
    BY <1>1, SizeAssumption DEF Presume, Tame, TypeOK, Used
  <2>3. ASSUME NEW b, HkDelete(b) PROVE QuietInv'
    <3>1. tasks' = Enqueue({DocTask("delete", 0, b)}, tasks) /\ UNCHANGED reqs
      BY <2>3 DEF HkDelete
    <3>2. \A u \in tasks' : \A g : Hired(u, g) => u \in tasks
      BY <3>1 DEF Enqueue, Hired, DocTask, Task
    <3> QED
      BY <1>2, <3>1, <3>2
  <2>4. ASSUME NEW p, HkReset(p) PROVE QuietInv'
    BY <1>2, <2>4 DEF HkReset
  <2>5. ASSUME HkAdvance \/ \E s, typ, b : HkDispatch(s, typ, b) PROVE QuietInv'
    BY <2>1, <2>2, <2>5 DEF HkAdvance, HkDispatch, Stuck
  <2> QED
    BY <1>4, <2>3, <2>4, <2>5 DEF Housekeeping
<1>5. CASE Ask
  <2>1. CASE CancelCheck \/ DeleteMark
    <3>1. PICK op \in {"cancel", "delete"} : \E pc : Opens(op, doc.gen, {}, pc)
      BY <2>1 DEF CancelCheck, DeleteMark, Open, Opens
    <3>2. \A r \in reqs' : r.op \in {"reparse", "pages"} => r \in reqs
      BY <3>1 DEF Opens, Request
    <3> QED
      BY <1>2, <2>1, <3>2 DEF CancelCheck, DeleteMark
  <2>2. CASE ReparseBump
    <3>1. UNCHANGED tasks /\ reqs' = reqs \cup {Request("reparse", doc.gen + 1, {}, "enqueue")}
      BY <2>2 DEF ReparseBump, Open
    <3>2. PICK q : q = Request("reparse", doc.gen + 1, {}, "enqueue") /\ q.op = "reparse" /\ q.gen = doc.gen + 1
      <4>1. LET q == Request("reparse", doc.gen + 1, {}, "enqueue") IN q.op = "reparse" /\ q.gen = doc.gen + 1
        BY DEF Request
      <4> QED
        BY <4>1
    <3>3. \A r \in reqs : r.gen # q.gen
      BY <1>1, <3>2 DEF GenInv, NoneAhead
    <3>4. \A r \in reqs' : r.op = "pages" => r \in reqs
      BY <3>1, <3>2
    <3>5. \A r \in reqs' : r \in reqs \/ r = q
      BY <3>1, <3>2
    <3>6. \A r \in reqs' : r.op = "pages" => \A u \in tasks' : ~Hired(u, r.gen)
      BY <1>1, <3>1, <3>4 DEF QuietInv, Nobody
    <3> QED
      BY <1>1, <3>3, <3>4, <3>5, <3>6 DEF QuietInv, Nobody, Hired
  <2>3. ASSUME NEW P, PagesCheck(P) PROVE QuietInv'
    <3>1. /\ Opens("pages", doc.gen, P, "reset") /\ UNCHANGED <<doc, row, tasks>>
          /\ doc.status \in Terminal \ {"cancelled", "deleting"} /\ doc.exists
      BY <1>1, <2>3 DEF PagesCheck, Open, Opens, MarkInv, Visible
    <3>2. Careful
      BY <3>1 DEF Opens, Either
    <3>3. Nobody(doc.gen) /\ \A x \in reqs : x.op = "reparse" => x.gen # doc.gen
      BY <1>1, <3>1, <3>2 DEF StatusInv, Terminal, Stopped
    <3>4. \A r \in reqs' : r \in reqs \/ (r.op = "pages" /\ r.gen = doc.gen)
      <4>1. LET q == Request("pages", doc.gen, P, "reset") IN q.op = "pages" /\ q.gen = doc.gen
        BY DEF Request
      <4> QED
        BY <3>1, <4>1 DEF Opens
    <3>5. \A r \in reqs' : r.op = "pages" => \A u \in tasks' : ~Hired(u, r.gen)
      BY <1>1, <3>1, <3>3, <3>4 DEF QuietInv, Nobody
    <3> QED
      BY <1>1, <3>3, <3>4, <3>5 DEF QuietInv, Nobody, Hired
  <2> QED
    BY <1>5, <2>1, <2>2, <2>3 DEF Ask
<1>6. ASSUME NEW r \in reqs, ServeStep(r) \/ RequestDies(r) PROVE QuietInv'
  <2>1. Runs(r) => \A x \in reqs' : x.op \in {"reparse", "pages"} => \E q \in reqs : q.op = x.op /\ q.gen = x.gen
    BY DEF Runs
  <2>2. Runs(r)
    BY <1>1, <1>6, ServeRuns
  <2>3. CASE UNCHANGED tasks
    BY <1>2, <2>1, <2>2, <2>3
  <2>4. CASE DeleteEnqueue(r)
    <3>1. \A u \in tasks' : \A g : Hired(u, g) => u \in tasks
      BY <2>4 DEF DeleteEnqueue, Enqueue, Hired, DocTask, Task
    <3> QED
      BY <1>2, <2>1, <2>2, <3>1
  <2>5. CASE ReparseEnqueue(r)
    <3>1. r.op = "reparse" /\ tasks' = Enqueue({DocTask("split", r.gen, 0)}, tasks) /\ reqs' = reqs \ {r}
      BY <2>5 DEF ReparseEnqueue, In, Close
    <3>2. \A u \in tasks' : u \in tasks \/ u.gen = r.gen
      <4>1. DocTask("split", r.gen, 0).gen = r.gen
        BY DEF DocTask, Task
      <4> QED
        BY <3>1, <4>1 DEF Enqueue
    <3>3. \A x \in reqs' : x.op = "pages" => x.gen # r.gen
      BY <1>1, <3>1 DEF QuietInv
    <3> QED
      BY <1>2, <2>1, <2>2, <3>2, <3>3 DEF Hired
  <2>6. CASE PagesAdvance(r)
    <3>1. \A x \in reqs' : x.op # "pages"
      BY <1>1, <2>6 DEF PagesAdvance, In, Close, TurnInv, OnePages
    <3> QED
      BY <3>1 DEF QuietInv
  <2> QED
    BY <1>6, <2>3, <2>4, <2>5, <2>6
       DEF ServeStep, RequestDies, CancelWrite, PagesReset, PagesAdjust, PagesPick, PagesParse
<1>7. CASE UNCHANGED vars
  BY <1>2, <1>7 DEF vars
<1> QED
  BY <1>3, <1>4, <1>5, <1>6, <1>7 DEF Next, WorkStep


LEMMA PipeInit == Init => PipeInv
<1> SUFFICES ASSUME Init PROVE PipeInv
  OBVIOUS
<1>1. TypeOK /\ GenInv
  BY GenInit, TypeInit
<1>2. /\ doc.gen = 1 /\ doc.done = 0 /\ doc.failed = 0 /\ doc.skipped = 0 /\ doc.status = "queued"
      /\ reqs = {} /\ \A p \in Page : row[p].gen = 0 /\ row[p].st = "absent"
  BY DEF Init, NoRow
<1>3. \A t \in tasks : t.typ = "split" /\ t.pc = "queued" /\ \A u \in tasks : u = t
  <2>1. LET d == DocTask("split", 1, 0) IN d.typ = "split" /\ d.pc = "queued"
    BY DEF DocTask, Task
  <2>2. tasks = {DocTask("split", 1, 0)} \/ tasks = {}
    BY DEF Init
  <2> QED
    BY <2>1, <2>2
<1>4. TurnInv
  BY <1>2, <1>3 DEF TurnInv, NewestSplits, Past, OnePages, Plain
<1>5. WorkerInv
  BY <1>3 DEF WorkerInv, Worker
<1>6. Blank /\ ~Asked(doc.gen)
  BY <1>2, <1>3 DEF Blank, Asked
<1>7. StatusInv
  BY <1>2, <1>3, <1>6 DEF StatusInv, SplitAt, Only, Late, Settling
<1> QED
  BY <1>1, <1>2, <1>4, <1>5, <1>7 DEF PipeInv, MarkInv, QuietInv

LEMMA PipeStep == Tame /\ Either /\ PipeInv /\ [Next]_vars => PipeInv'
<1> SUFFICES ASSUME Tame, Either, PipeInv, [Next]_vars PROVE PipeInv'
  OBVIOUS
<1>1. TypeOK /\ GenInv /\ TurnInv /\ MarkInv
  BY DEF PipeInv
<1> QED
  BY <1>1, TypeStep, GenStep, TurnStep, MarkStep, WorkersStep, StatusStep, QuietStep DEF PipeInv

(* What ties the tasks of a document to its rows, its status and the       *)
(* requests for it holds throughout.                                       *)
THEOREM PipeAlways ==
    ASSUME Tame, Either
    PROVE  Spec => []PipeInv
<1>1. Tame /\ Either
  OBVIOUS
<1> QED
  BY <1>1, PipeInit, PipeStep, PTL DEF Spec


(* A document is assembled only when its pages are finished.               *)
THEOREM AssembledWhenWhole ==
    ASSUME Tame, Either
    PROVE  Spec => []AssembledWhole
<1>1. Tame /\ Either
  OBVIOUS
<1>2. PipeInv => AssembledWhole
  BY DEF PipeInv, StatusInv, AssembledWhole, NoPageRequest, Asked, Whole, AllAre
<1> QED
  BY <1>1, <1>2, PipeAlways, PTL

-----------------------------------------------------------------------------
(* Pages that were read.                                                   *)

(* Only a split, the purge and a request for pages take back a page that   *)
(* is finished.                                                            *)
LEMMA StepFlow ==
    ASSUME TypeOK, WorkerInv, [Next]_vars
    PROVE  \/ Flow
           \/ \E t \in tasks : SplitInit(t) /\ RowsAllowed
           \/ \E t \in tasks : DeletePurge(t)
           \/ \E r \in reqs : PagesReset(r)
<1>1. row \in [Page -> Row] /\ doc.gen \in Gen /\ \A r \in reqs : r.gen \in Gen
  BY DEF TypeOK, Doc, Reqs
<1>2. UNCHANGED row => Flow
  BY DEF Flow
<1>3. ASSUME NEW t \in tasks, Work(t) \/ Crash(t) \/ StrayPickup(t), ~DeletePurge(t), ~(SplitInit(t) /\ RowsAllowed)
      PROVE  Flow
  <2>1. SplitInit(t) /\ ~RowsAllowed => UNCHANGED row
    BY DEF SplitInit
  <2> QED
    BY <1>2, <1>3, <2>1, WorkFlow
<1>4. CASE Housekeeping
  <2>1. ASSUME NEW p \in Page, HkReset(p) PROVE Flow
    BY <1>1, <2>1 DEF HkReset, Flow, Busy, Row
  <2> QED
    BY <1>1, <1>2, <1>4, <2>1, AdvanceFlow DEF Housekeeping, HkAdvance, HkDispatch, HkDelete
<1>5. CASE Ask
  BY <1>2, <1>5 DEF Ask, CancelCheck, DeleteMark, ReparseBump, PagesCheck
<1>6. ASSUME NEW r \in reqs, ServeStep(r) \/ RequestDies(r), ~PagesReset(r) PROVE Flow
  BY <1>1, <1>2, <1>6, AdvanceFlow
     DEF ServeStep, RequestDies, CancelWrite, DeleteEnqueue, ReparseEnqueue, PagesAdjust, PagesPick, PagesParse, PagesAdvance
<1> QED
  BY <1>2, <1>3, <1>4, <1>5, <1>6 DEF Next, WorkStep, vars

(* A page with no row has no status.                                       *)
Rowless == \A p \in Page : row[p].gen = 0 => row[p].st = "absent"

LEMMA RowlessStep == TypeOK /\ WorkerInv /\ Rowless /\ [Next]_vars => Rowless'
<1> SUFFICES ASSUME TypeOK, WorkerInv, Rowless, [Next]_vars PROVE Rowless'
  OBVIOUS
<1>1. CASE Flow
  BY <1>1 DEF Flow, Rowless, Busy
<1>2. ASSUME NEW t \in tasks, SplitInit(t), RowsAllowed PROVE Rowless'
  <2>1. t.gen # 0
    BY <1>2, SizeAssumption DEF SplitInit, At, TypeOK, WellFormed, Gen
  <2>2. \A p \in Page : row'[p].gen = t.gen
    BY <1>2 DEF SplitInit, FreshRows
  <2> QED
    BY <2>1, <2>2 DEF Rowless
<1>3. ASSUME NEW t \in tasks, DeletePurge(t) PROVE Rowless'
  BY <1>3 DEF DeletePurge, Rowless, NoRow
<1>4. ASSUME NEW r \in reqs, PagesReset(r) PROVE Rowless'
  <2>1. r.gen # 0 /\ row \in [Page -> Row]
    BY SizeAssumption DEF TypeOK, Reqs, Gen
  <2> QED
    BY <1>4, <2>1 DEF PagesReset, Rowless, Row
<1> QED
  BY <1>1, <1>2, <1>3, <1>4, StepFlow

LEMMA StepKeepsRead ==
    ASSUME PipeInv, Rowless, [Next]_vars, NEW p \in Page, row[p].st = "done", row'[p].gen = row[p].gen, NoPageRequest
    PROVE  row'[p].st = "done"
<1>1. TypeOK /\ TurnInv /\ WorkerInv /\ StatusInv
  BY DEF PipeInv
<1>2. CASE Flow
  BY <1>2 DEF Flow, Busy
<1>3. ASSUME NEW t \in tasks, SplitInit(t), RowsAllowed PROVE FALSE
  <2>1. t.typ = "split" /\ t.pc \in {"probe", "probe_hold"} /\ row'[p].gen = t.gen
    BY <1>3 DEF SplitInit, FreshRows, At
  <2>2. t.gen = doc.gen /\ doc.exists
    BY <1>1, <1>3, <2>1 DEF TurnInv, NewestSplits, Past, RowsAllowed
  <2>3. Blank
    BY <1>1, <2>1, <2>2 DEF StatusInv, Hired
  <2> QED
    BY <2>1, <2>2, <2>3 DEF Blank
<1>4. ~\E t \in tasks : DeletePurge(t)
  BY DEF DeletePurge, NoRow, Rowless
<1>5. ~\E r \in reqs : PagesReset(r)
  BY DEF PagesReset, In, NoPageRequest
<1> QED
  BY <1>1, <1>2, <1>3, <1>4, <1>5, StepFlow

(* A page that was read is not read again: a retry, a duplicate task, a    *)
(* dead worker or housekeeping never puts it back.                         *)
THEOREM NeverReadAgain ==
    ASSUME Tame, Either
    PROVE  Spec => NeverReread
<1>1. Tame /\ Either
  OBVIOUS
<1>2. Init => Rowless
  BY DEF Init, NoRow, Rowless
<1>3. PipeInv /\ Rowless /\ [Next]_vars => Rowless'
  BY RowlessStep DEF PipeInv
<1>4. PipeInv /\ Rowless /\ [Next]_vars =>
         [\A p \in Page : row[p].st = "done" /\ row'[p].gen = row[p].gen /\ NoPageRequest => row'[p].st = "done"]_vars
  BY StepKeepsRead
<1> QED
  BY <1>1, <1>2, <1>3, <1>4, PipeAlways, PTL DEF Spec, NeverReread

-----------------------------------------------------------------------------
(* What is asked of the machine: pages rendered ahead, and pages read at   *)
(* once, while no user disturbs the document.                              *)

Ahead(g) == Rows(g, "rendering") \cup Rows(g, "rendered") \cup Rows(g, "ocr")
Underway == {"rendering", "rendered", "ocr"}

(* No page gets under way but from the batches that Advance claims.        *)
NoneStarts == \A p \in Page : row'[p].st \in Underway => row[p].st \in Underway /\ row'[p].gen = row[p].gen

LEMMA AheadShrinks == ASSUME NoneStarts, NEW g PROVE Ahead(g)' \subseteq Ahead(g)
BY DEF NoneStarts, Ahead, Rows, Underway

LEMMA StepAhead ==
    ASSUME TypeOK, WorkerInv, [Next]_vars, reqs = {}
    PROVE  NoneStarts \/ \E g \in Gen : Advance(g)
<1>1. row \in [Page -> Row] /\ doc.gen \in Gen
  BY DEF TypeOK, Doc
<1>2. UNCHANGED row => NoneStarts
  BY DEF NoneStarts
<1>3. \A p, g, s : SetPage(p, g, s) /\ s \notin Underway => NoneStarts
  BY <1>1 DEF SetPage, NoneStarts, Row
<1>4. ASSUME NEW t \in tasks, Work(t) \/ Crash(t) \/ StrayPickup(t) PROVE NoneStarts \/ \E g \in Gen : Advance(g)
  <2>1. t \in Tasks /\ t.pc # "archived" /\ (t.typ # "delete" => t.gen \in Gen)
    BY <1>4, WorkLive DEF TypeOK, WellFormed
  <2>2. CASE SplitInit(t)
    BY <1>2, <2>2 DEF SplitInit, FreshRows, NoneStarts, Underway
  <2>3. CASE DeletePurge(t)
    BY <2>3 DEF DeletePurge, NoRow, NoneStarts, Underway
  <2>4. CASE RenderEmit(t)
    <3>1. t.typ = "render" /\ t.pc = "emit" /\ InHand(t)
      BY <2>4 DEF RenderEmit, At, WorkerInv, Worker
    <3>2. t.left \in SUBSET Page /\ t.left # {} /\ \A p \in t.left : row[p].gen = t.gen => row[p].st = "rendering"
      BY <2>1, <3>1 DEF InHand, RenderHand, Tasks
    <3>3. PICK p \in t.left : row' = IF row[p].gen = t.gen THEN [row EXCEPT ![p].st = "rendered", ![p].img = TRUE] ELSE row
      BY <2>4, <3>2, LeastIn DEF RenderEmit
    <3> QED
      BY <1>1, <3>2, <3>3 DEF NoneStarts, Row, Underway
  <2>5. CASE LastAdvance(t) \/ RenderAdvance(t) \/ FailedAdvance(t)
    BY <2>1, <2>5 DEF LastAdvance, RenderAdvance, FailedAdvance, At
  <2>6. CASE OcrSave(t) \/ OcrFail(t) \/ RenderGiveUp(t)
    BY <1>2, <1>3, <2>6 DEF OcrSave, OcrFail, RenderGiveUp, Underway
  <2> QED
    BY <1>2, <1>4, <2>2, <2>3, <2>4, <2>5, <2>6
       DEF Work, Crash, StrayPickup, Drop, SplitStart, SplitProbeFails, SplitReady, SplitHeld, RenderStart, RenderFails,
           RenderCount, OcrStart, OcrRetry, OcrCount, OcrCountFailed, AssembleStart, AssembleDecide, AssembleHandover,
           IndexBuild, TreeStart, TreeSettle, IndexFails, GenCleanup, DeleteObjects
<1>5. CASE Housekeeping
  <2>1. ASSUME NEW p \in Page, HkReset(p) PROVE NoneStarts
    BY <1>1, <2>1 DEF HkReset, NoneStarts, Row, Underway
  <2> QED
    BY <1>1, <1>2, <1>5, <2>1 DEF Housekeeping, HkAdvance, HkDispatch, HkDelete
<1>6. CASE Ask
  BY <1>2, <1>6 DEF Ask, CancelCheck, DeleteMark, ReparseBump, PagesCheck
<1> QED
  BY <1>2, <1>4, <1>5, <1>6 DEF Next, WorkStep, vars

LEMMA Overshoot ==
    ASSUME NEW c \in Nat, NEW k \in Nat, NEW b \in Nat, NEW a \in Nat, c + k * b < a
    PROVE  c < a
<1>1. k * b \in Nat
  OBVIOUS
<1> QED
  BY <1>1

LEMMA AheadBound ==
    ASSUME row \in [Page -> Row], NEW g \in Gen, Advance(g),
           Cardinality(Rows(g, "rendering")') <= RenderInflight * Batch,
           Cardinality(Ahead(g)) < RenderAhead + RenderInflight * Batch
    PROVE  Cardinality(Ahead(g)') < RenderAhead + RenderInflight * Batch
<1>1. /\ Rows(g, "rendering")' \in SUBSET Page /\ Ahead(g) \in SUBSET Page /\ Ahead(g)' \in SUBSET Page
      /\ Rows(g, "rendered") \in SUBSET Page /\ Rows(g, "ocr") \in SUBSET Page /\ Rows(g, "pending") \in SUBSET Page
  BY DEF Rows, Ahead
<1>2. /\ Cardinality(Rows(g, "rendering")') \in Nat /\ Cardinality(Ahead(g)) \in Nat /\ Cardinality(Ahead(g)') \in Nat
      /\ Cardinality(Rows(g, "rendered")) \in Nat /\ Cardinality(Rows(g, "ocr")) \in Nat
      /\ RenderInflight * Batch \in Nat
  BY <1>1, PagesFinite, SizeAssumption
<1>3. \A p \in Page : /\ row'[p].gen = row[p].gen
                      /\ row'[p].st \in Underway => \/ row[p].st \in Underway
                                                    \/ p \in RenderClaims(g) /\ row'[p].st = "rendering"
                      /\ row'[p].st \in {"rendered", "ocr"} => row[p].st \in {"rendered", "ocr"}
  BY AdvanceOne DEF Underway
<1>4. CASE RenderClaims(g) = {}
  <2>1. Ahead(g)' \subseteq Ahead(g)
    BY <1>3, <1>4 DEF Ahead, Rows, Underway
  <2>2. Cardinality(Ahead(g)') <= Cardinality(Ahead(g))
    BY <1>1, <2>1, SubsetCount
  <2> QED
    BY <1>2, <2>2, SizeAssumption
<1>5. ASSUME NEW p \in RenderClaims(g) PROVE Cardinality(Ahead(g)') < RenderAhead + RenderInflight * Batch
  <2> DEFINE old == Rows(g, "rendered") \cup Rows(g, "ocr")
  <2>1. PagesAhead(g) + RenderBatchOf(p, g) * Batch < RenderAhead
    BY <1>5 DEF RenderClaims
  <2>2. PagesAhead(g) = Cardinality(Rows(g, "rendered")) + Cardinality(Rows(g, "ocr"))
    BY DEF PagesAhead
  <2>3. RenderBatchOf(p, g) \in Nat
    <3>1. p \in Page
      BY <1>5 DEF RenderClaims, Rows
    <3>2. Rank(p, Rows(g, "pending")) \in 0..N
      BY <1>1, <3>1, RankType
    <3> QED
      BY <3>2, SizeAssumption DEF RenderBatchOf
  <2>4. PagesAhead(g) < RenderAhead
    BY <1>2, <2>1, <2>2, <2>3, Overshoot, SizeAssumption
  <2>5. Ahead(g)' \subseteq Rows(g, "rendering")' \cup old
    BY <1>3 DEF Ahead, Rows
  <2>6. old \in SUBSET Page /\ Rows(g, "rendering")' \cup old \in SUBSET Page
    BY <1>1
  <2>7. Cardinality(old) <= Cardinality(Rows(g, "rendered")) + Cardinality(Rows(g, "ocr"))
    BY <1>1, UnionCount
  <2>8. Cardinality(Rows(g, "rendering")' \cup old) <= Cardinality(Rows(g, "rendering")') + Cardinality(old)
    BY <1>1, <2>6, UnionCount
  <2>9. Cardinality(Ahead(g)') <= Cardinality(Rows(g, "rendering")' \cup old)
    BY <1>1, <2>5, <2>6, SubsetCount
  <2>10. Cardinality(old) \in Nat /\ Cardinality(Rows(g, "rendering")' \cup old) \in Nat
    BY <2>6, PagesFinite
  <2> HIDE DEF old
  <2> QED
    BY <1>2, <2>2, <2>4, <2>7, <2>8, <2>9, <2>10, SizeAssumption
<1> QED
  BY <1>4, <1>5

(* Until a first request is made, nobody stops, deletes or reparses the    *)
(* document.                                                               *)
Untouched ==
    used.req = 0 =>
        /\ reqs = {} /\ doc.exists /\ doc.gen = 1 /\ doc.status # "deleting"
        /\ \A t \in tasks : t.typ # "delete"

LEMMA NobodyAsks ==
    ASSUME TypeOK, [Next]_vars, used'.req = 0
    PROVE  used.req = 0 /\ ~Ask
<1>1. used \in Used
  BY DEF TypeOK
<1>2. ASSUME NEW t, NEW new, Ack(t, new) PROVE used'.req = used.req
  BY <1>1, <1>2 DEF Ack, Spend, Used
<1>3. ASSUME NEW dead, Presume(dead) PROVE used'.req = used.req
  BY <1>1, <1>3 DEF Presume, Spend, Used
<1>4. ASSUME NEW t \in tasks, Work(t) \/ Crash(t) \/ StrayPickup(t) PROVE used'.req = used.req
  <2>1. Crash(t) \/ StrayPickup(t) => used'.req = used.req
    BY <1>1 DEF Crash, StrayPickup, Spend, Used
  <2> QED
    BY <1>2, <1>4, <2>1
       DEF Work, Drop, SplitStart, SplitInit, SplitProbeFails, SplitReady, SplitHeld, LastAdvance,
           RenderStart, RenderEmit, RenderAdvance, RenderFails, RenderGiveUp, RenderCount, FailedAdvance, OcrStart,
           OcrSave, OcrRetry, OcrFail, OcrCount, OcrCountFailed, AssembleStart, AssembleDecide, AssembleHandover,
           IndexBuild, TreeStart, TreeSettle, IndexFails, GenCleanup, DeleteObjects, DeletePurge, Goto, Error, DeadLetter
<1>5. Housekeeping => used'.req = used.req
  BY <1>3 DEF Housekeeping, HkReset, HkAdvance, HkDispatch, HkDelete, Stuck
<1>6. ASSUME NEW r \in reqs, ServeStep(r) \/ RequestDies(r) PROVE used'.req = used.req
  BY <1>1, <1>6
     DEF ServeStep, RequestDies, CancelWrite, DeleteEnqueue, ReparseEnqueue, PagesReset, PagesAdjust, PagesPick,
         PagesParse, PagesAdvance, Spend, Used
<1>7. Ask => used'.req = used.req + 1
  BY <1>1 DEF Ask, CancelCheck, DeleteMark, ReparseBump, PagesCheck, Open, Spend, Used
<1>8. used.req \in Nat
  BY <1>1 DEF Used
<1> QED
  BY <1>4, <1>5, <1>6, <1>7, <1>8 DEF Next, WorkStep, vars

LEMMA WorkExists ==
    ASSUME TypeOK, NEW t \in tasks, Work(t) \/ Crash(t) \/ StrayPickup(t), ~DeletePurge(t)
    PROVE  doc'.exists = doc.exists
<1>1. doc \in Doc
  BY DEF TypeOK
<1>2. ASSUME NEW g, NEW new, Update(g, new), new.exists = doc.exists PROVE doc'.exists = doc.exists
  BY <1>2 DEF Update
<1>3. ASSUME NEW g PROVE /\ FailDoc(g) => doc'.exists = doc.exists
                         /\ \A c \in {"done", "failed"} : CountPage(g, c) => doc'.exists = doc.exists
  BY <1>1 DEF FailDoc, Update, CountPage, Doc
<1>4. ASSUME SplitStart(t) \/ SplitReady(t) \/ SplitHeld(t) \/ AssembleStart(t) PROVE doc'.exists = doc.exists
  BY <1>1, <1>2, <1>4 DEF SplitStart, SplitReady, SplitHeld, AssembleStart, Doc
<1>5. ASSUME SplitProbeFails(t) \/ RenderCount(t) \/ OcrCount(t) \/ OcrCountFailed(t) PROVE doc'.exists = doc.exists
  BY <1>3, <1>5 DEF SplitProbeFails, RenderCount, OcrCount, OcrCountFailed
<1>6. ASSUME TreeSettle(t) \/ IndexFails(t) PROVE doc'.exists = doc.exists
  BY <1>1, <1>2, <1>6 DEF TreeSettle, IndexFails, Doc
<1>7. ASSUME AssembleDecide(t) PROVE doc'.exists = doc.exists
  BY <1>1, <1>2, <1>3, <1>7 DEF AssembleDecide, Doc
<1> QED
  BY <1>4, <1>5, <1>6, <1>7
     DEF Work, Crash, StrayPickup, Drop, SplitInit, LastAdvance, RenderStart, RenderEmit, RenderAdvance, RenderFails,
         RenderGiveUp, FailedAdvance, OcrStart, OcrSave, OcrRetry, OcrFail, AssembleHandover, IndexBuild, TreeStart,
         GenCleanup, DeleteObjects

LEMMA UntouchedStep == TypeOK /\ Untouched /\ [Next]_vars => Untouched'
<1> SUFFICES ASSUME TypeOK, Untouched, [Next]_vars, used'.req = 0
             PROVE  /\ reqs' = {} /\ doc'.exists /\ doc'.gen = 1 /\ doc'.status # "deleting"
                    /\ \A t \in tasks' : t.typ # "delete"
  BY DEF Untouched
<1>1. /\ ~Ask /\ reqs = {} /\ doc.exists /\ doc.gen = 1 /\ doc.status # "deleting"
      /\ \A t \in tasks : t.typ # "delete"
  BY NobodyAsks DEF Untouched
<1>2. \/ \E t \in tasks : Work(t) \/ Crash(t) \/ StrayPickup(t)
      \/ Housekeeping
      \/ UNCHANGED vars
  BY <1>1 DEF Next, WorkStep
<1>3. doc'.gen = 1
  BY <1>1, StepGen DEF Ask
<1>4. doc'.status # "deleting"
  BY <1>1, StepStatus DEF Ask
<1>5. CASE \E t \in tasks : Work(t) \/ Crash(t) \/ StrayPickup(t)
  <2>1. PICK t \in tasks : Work(t) \/ Crash(t) \/ StrayPickup(t)
    BY <1>5
  <2>2. UNCHANGED reqs
    BY <2>1, WorkReqs
  <2>3. PICK R, new : Moves({t}, R, new) /\ Given(new, t)
    BY <2>1, WorkSteady DEF Steady
  <2>4. \A u \in new : u.typ # "delete"
    BY <2>3, NewTasksAre DEF Given, OcrTask, RenderTask, AssembleTask
  <2>5. \A u \in tasks' : u \in tasks \/ u \in R \/ u \in new
    BY <2>3 DEF Moves, Enqueue
  <2>6. \A u \in R : u.typ = t.typ
    BY <2>3 DEF Moves, Kin
  <2>7. ~DeletePurge(t)
    BY <1>1 DEF DeletePurge, At
  <2>8. doc'.exists
    BY <1>1, <2>1, <2>7, WorkExists
  <2> QED
    BY <1>1, <1>3, <1>4, <2>2, <2>4, <2>5, <2>6, <2>8
<1>6. CASE Housekeeping
  <2>1. UNCHANGED <<doc, reqs>>
    BY <1>6 DEF Housekeeping, HkReset, HkAdvance, HkDispatch, HkDelete
  <2>2. \A u \in tasks' : u.typ # "delete"
    <3>1. ASSUME NEW typ, NEW g, NEW b PROVE DocTask(typ, g, b).typ = typ
      BY DEF DocTask, Task
    <3>2. \A u \in NewTasks(doc.gen) : u.typ # "delete"
      BY NewTasksAre DEF OcrTask, RenderTask, AssembleTask
    <3> QED
      BY <1>1, <1>6, <3>1, <3>2 DEF Housekeeping, HkReset, HkAdvance, HkDispatch, HkDelete, Enqueue
  <2> QED
    BY <1>1, <1>3, <1>4, <2>1, <2>2
<1>7. CASE UNCHANGED vars
  BY <1>1, <1>7 DEF vars
<1> QED
  BY <1>2, <1>5, <1>6, <1>7

Bounded == used.req = 0 => \A g \in Gen : Cardinality(Ahead(g)) < RenderAhead + RenderInflight * Batch

LEMMA BoundedStep ==
    TypeOK /\ WorkerInv /\ Untouched /\ Bounded /\ RenderWindow' /\ [Next]_vars => Bounded'
<1> SUFFICES ASSUME TypeOK, WorkerInv, Untouched, Bounded, RenderWindow', [Next]_vars, used'.req = 0, NEW g \in Gen
             PROVE  Cardinality(Ahead(g)') < RenderAhead + RenderInflight * Batch
  BY DEF Bounded
<1>1. used.req = 0 /\ reqs = {} /\ row \in [Page -> Row]
  BY NobodyAsks DEF Untouched, TypeOK
<1>2. Cardinality(Ahead(g)) < RenderAhead + RenderInflight * Batch
  BY <1>1 DEF Bounded
<1>3. Ahead(g) \in SUBSET Page /\ Ahead(g)' \in SUBSET Page
  BY DEF Ahead, Rows
<1>4. Ahead(g)' \subseteq Ahead(g) => Cardinality(Ahead(g)') < RenderAhead + RenderInflight * Batch
  <2> SUFFICES ASSUME Ahead(g)' \subseteq Ahead(g) PROVE Cardinality(Ahead(g)') < RenderAhead + RenderInflight * Batch
    OBVIOUS
  <2>1. Cardinality(Ahead(g)') <= Cardinality(Ahead(g))
    BY <1>3, SubsetCount
  <2>2. Cardinality(Ahead(g)') \in Nat /\ Cardinality(Ahead(g)) \in Nat /\ RenderInflight * Batch \in Nat
    BY <1>3, PagesFinite, SizeAssumption
  <2> QED
    BY <1>2, <2>1, <2>2, SizeAssumption
<1>5. CASE NoneStarts
  BY <1>4, <1>5, AheadShrinks
<1>6. ASSUME NEW h \in Gen, Advance(h), h # g PROVE Ahead(g)' \subseteq Ahead(g)
  BY <1>1, <1>6, AdvanceOne DEF Ahead, Rows
<1>7. CASE Advance(g)
  <2>1. Cardinality(Rows(g, "rendering")') <= RenderInflight * Batch
    BY DEF RenderWindow
  <2> QED
    BY <1>1, <1>2, <1>7, <2>1, AheadBound
<1> QED
  BY <1>1, <1>4, <1>5, <1>6, <1>7, StepAhead

LEMMA OcrLoadHolds ==
    ASSUME Careful, PipeInv, Untouched, OcrWindow, used.req = 0
    PROVE  OcrLoad
<1>1. TypeOK /\ GenInv /\ WorkerInv
  BY DEF PipeInv
<1>2. doc.exists /\ doc.gen = 1
  BY DEF Untouched
<1>3. ASSUME NEW g \in Gen, NEW t \in Reading(g)
      PROVE  /\ g = 1 /\ t.page \in Rows(1, "ocr") /\ t.pages = {t.page} /\ t.typ = "ocr" /\ t.gen = 1
             /\ t \in tasks /\ Worker(t)
  <2>1. t \in tasks /\ t.typ = "ocr" /\ t.gen = g /\ t.pc \in {"queued", "read"} /\ t \in Tasks
    BY <1>1 DEF Reading, TypeOK, WellFormed
  <2>2. g = 1
    BY <1>1, <1>2, <2>1, SizeAssumption DEF GenInv, NoneAhead, Gen
  <2>3. Worker(t)
    BY <2>1 DEF Worker
  <2>4. Own(t) /\ OcrHand(t) /\ Waits(t)
    BY <1>1, <2>1, <2>3 DEF WorkerInv, InHand
  <2>5. t.pages = {t.page} /\ t.page \in Page
    BY <2>1, <2>4 DEF OcrHand, Tasks
  <2>6. row[t.page].gen = 1
    BY <1>2, <2>1, <2>2, <2>4, <2>5 DEF Own
  <2>7. row[t.page].st = "ocr"
    BY <1>2, <2>1, <2>2, <2>4, <2>5, <2>6 DEF OcrHand, Waits, Doing
  <2> QED
    BY <2>1, <2>2, <2>3, <2>5, <2>6, <2>7 DEF Rows
<1>4. ASSUME NEW g \in Gen, NEW t \in Reading(g), NEW u \in Reading(g), t.page = u.page PROVE t = u
  <2>1. Alone(t, u)
    BY <1>1, <1>3 DEF WorkerInv
  <2> QED
    BY <1>3, <1>4, <2>1 DEF Alone, Rows, Doing
<1>5. ASSUME NEW g \in Gen PROVE Cardinality(Reading(g)) <= OcrInflight
  <2> DEFINE f == [t \in Reading(g) |-> t.page]
             T == Rows(1, "ocr")
  <2>1. f \in Injection(Reading(g), T)
    <3>1. f \in [Reading(g) -> T]
      BY <1>3
    <3> QED
      BY <1>4, <3>1 DEF Injection, IsInjective
  <2>2. T \in SUBSET Page
    BY DEF Rows
  <2>3. IsFiniteSet(T) /\ Cardinality(T) \in Nat
    BY <2>2, PagesFinite, SizeAssumption
  <2>4. Cardinality(T) <= OcrInflight
    BY SizeAssumption DEF OcrWindow, Gen
  <2>5. IsFiniteSet(Reading(g)) /\ Cardinality(Reading(g)) <= Cardinality(T)
    BY <2>1, <2>3, FS_Injection
  <2>6. Cardinality(Reading(g)) \in Nat
    BY <2>5, FS_CardinalityType
  <2> HIDE DEF T
  <2> QED
    BY <2>3, <2>4, <2>5, <2>6, SizeAssumption
<1> QED
  BY <1>4, <1>5 DEF OcrLoad

(* What is rendered ahead and what the OCR pool is asked to read stay      *)
(* within their bounds while no user disturbs the document.                *)
THEOREM LoadIsBounded ==
    ASSUME Tame, Either, Careful
    PROVE  Spec => []Load
<1>1. Tame /\ Either /\ Careful
  OBVIOUS
<1>2. Init => Untouched /\ Bounded
  <2> SUFFICES ASSUME Init PROVE Untouched /\ Bounded
    OBVIOUS
  <2>1. \A t \in tasks : t.typ # "delete"
    BY DEF Init, DocTask, Task
  <2>2. ASSUME NEW g \in Gen PROVE Cardinality(Ahead(g)) < RenderAhead + RenderInflight * Batch
    <3>1. Ahead(g) = {}
      BY DEF Init, NoRow, Ahead, Rows
    <3>2. Cardinality(Ahead(g)) = 0 /\ RenderInflight * Batch \in Nat
      BY <3>1, FS_EmptySet, SizeAssumption
    <3> QED
      BY <3>2, SizeAssumption
  <2> QED
    BY <2>1, <2>2 DEF Init, Untouched, Bounded
<1>3. TypeOK /\ Untouched /\ [Next]_vars => Untouched'
  BY UntouchedStep
<1>4. PipeInv => TypeOK /\ WorkerInv
  BY DEF PipeInv
<1>5. Careful /\ PipeInv /\ Untouched /\ OcrWindow /\ Bounded => Load
  <2> SUFFICES ASSUME Careful, PipeInv, Untouched, OcrWindow, Bounded, used.req = 0 PROVE Backpressure /\ OcrLoad
    BY DEF Load
  <2>1. Backpressure
    BY DEF Bounded, Backpressure, Ahead
  <2> QED
    BY <2>1, OcrLoadHolds
<1> QED
  BY <1>1, <1>2, <1>3, <1>4, <1>5, BoundedStep, PipeAlways, OcrWindowHolds, RenderWindowHolds, PTL DEF Spec

-----------------------------------------------------------------------------
(* What a task leaves behind when it runs out of attempts.                 *)

(* The pages a task was enqueued for, outside S, do not wait for it.       *)
Off(t, S) == \A p \in t.pages \ S : row[p].gen = t.gen => row[p].st # Doing(t.typ)

(* A worker past its page leaves nothing else of its batch behind, and one *)
(* that gives up has been through all but what it has left.                *)
Handled(t) ==
    /\ t.typ = "ocr" /\ t.pc \notin {"queued", "read"} => Off(t, {})
    /\ t.typ = "render" /\ t.pc # "queued" => Off(t, t.todo)
    /\ t.typ = "render" /\ t.pc = "give_up" => Off(t, t.left)
    /\ t.typ = "render" /\ t.pc = "count" => Off(t, t.left \ {Least(t.left)})
AllHandled == \A t \in tasks : Worker(t) => Handled(t)
Pageless == \A t \in tasks : t.typ \notin {"ocr", "render"} => t.pages = {}

LEMMA OffStays ==
    ASSUME TypeOK, WorkerInv, [Next]_vars, NEW t \in tasks, Worker(t), NEW S, Off(t, S),
           NEW u, u.typ = t.typ, u.gen = t.gen, u.pages = t.pages
    PROVE  Off(u, S)'
<1>1. t.pages \subseteq Page /\ row \in [Page -> Row] /\ Own(t)
  BY DEF TypeOK, WellFormed, Tasks, WorkerInv
<1>2. CASE Calm
  BY <1>1, <1>2 DEF Calm, StartsNone, Busy, Off, Doing
<1>3. ASSUME NEW g \in Gen, Advance(g) PROVE Off(u, S)'
  <2> SUFFICES ASSUME NEW p \in t.pages \ S, row'[p].gen = t.gen PROVE row'[p].st # Doing(t.typ)
    BY DEF Off
  <2>1. row[p].gen = t.gen /\ row[p].st # Doing(t.typ)
    BY <1>1, <1>3, AdvanceOne DEF Off
  <2>2. row[p].st \in Held(t.typ)
    BY <1>1, <2>1 DEF Own
  <2> QED
    BY <1>1, <1>3, <2>1, <2>2, AdvanceOne DEF Held, Doing
<1> QED
  BY <1>2, <1>3, StepRows

LEMMA PagelessStep == TypeOK /\ Pageless /\ [Next]_vars => Pageless'
<1> SUFFICES ASSUME TypeOK, Pageless, [Next]_vars PROVE Pageless'
  OBVIOUS
<1>1. \A typ, g, b : DocTask(typ, g, b).pages = {}
  BY DEF DocTask, Task
<1>2. \A g : \A u \in NewTasks(g) : u.typ \in {"ocr", "render"} \/ u.pages = {}
  <2>1. ASSUME NEW g PROVE \A u \in NewTasks(g) : u.typ \in {"ocr", "render"} \/ u.pages = {}
    BY <1>1 DEF NewTasks, Task
  <2> QED
    BY <2>1
<1>3. ASSUME NEW t \in tasks, Work(t) \/ Crash(t) \/ StrayPickup(t) PROVE Pageless'
  <2>1. PICK R, new : Moves({t}, R, new) /\ Given(new, t)
    BY <1>3, WorkSteady DEF Steady
  <2>2. \A u \in tasks' : u \in tasks \/ u \in R \/ u \in new
    BY <2>1 DEF Moves, Enqueue
  <2>3. \A u \in R : u.typ = t.typ /\ u.pages = t.pages
    BY <2>1 DEF Moves, Kin
  <2>4. CASE t.typ \notin {"assemble", "index"}
    <3>1. \A u \in new : u.typ \in {"ocr", "render"} \/ u.pages = {}
      BY <1>2, <2>1, <2>4 DEF Given
    <3> QED
      BY <2>2, <2>3, <3>1 DEF Pageless
  <2>5. CASE t.typ \in {"assemble", "index"}
    <3>1. t \in Tasks /\ t.pages = {}
      BY <2>5 DEF TypeOK, WellFormed, Pageless
    <3>2. \A u \in Errored(t) : u.pages = {}
      BY <3>1, ErroredKin DEF Kin
    <3>3. ASSUME NEW pc PROVE [t EXCEPT !.pc = pc].pages = {}
      BY <3>1 DEF Tasks
    <3>4. ASSUME NEW made, Ack(t, made), \A u \in made : u.pages = {} PROVE Pageless'
      BY <3>2, <3>4 DEF Ack, Enqueue, Others, Pageless
    <3>5. ASSUME NEW pc, Goto(t, pc) PROVE Pageless'
      BY <3>3, <3>5 DEF Goto, Others, Pageless
    <3>6. Error(t) => Pageless'
      BY <3>2 DEF Error, Others, Pageless
    <3>7. DeadLetter(t) => Pageless'
      BY <3>1, RestartKin DEF DeadLetter, Others, Pageless, Kin
    <3>8. Crash(t) => Pageless'
      BY <3>2 DEF Crash, Others, Pageless
    <3>9. AssembleHandover(t) \/ IndexBuild(t) \/ Drop(t) => Pageless'
      BY <1>1, <3>4 DEF AssembleHandover, IndexBuild, Drop
    <3>10. AssembleStart(t) \/ AssembleDecide(t) \/ IndexFails(t) => Pageless'
      BY <3>5, <3>6, <3>7 DEF AssembleStart, AssembleDecide, IndexFails
    <3> QED
      BY <1>3, <2>5, <3>8, <3>9, <3>10
         DEF Work, StrayPickup, SplitStart, SplitInit, SplitProbeFails, SplitReady, SplitHeld, LastAdvance, RenderStart,
             RenderEmit, RenderAdvance, RenderFails, RenderGiveUp, RenderCount, FailedAdvance, OcrStart, OcrSave, OcrRetry,
             OcrFail, OcrCount, OcrCountFailed, TreeStart, TreeSettle, GenCleanup, DeleteObjects, DeletePurge, Starts, At
  <2> QED
    BY <2>4, <2>5
<1>4. Housekeeping => Pageless'
  BY <1>1, <1>2 DEF Housekeeping, HkReset, HkAdvance, HkDispatch, HkDelete, Enqueue, Pageless
<1>5. Ask => Pageless'
  BY DEF Ask, CancelCheck, DeleteMark, ReparseBump, PagesCheck, Pageless
<1>6. ASSUME NEW r \in reqs, ServeStep(r) \/ RequestDies(r) PROVE Pageless'
  <2>1. DeleteEnqueue(r) \/ ReparseEnqueue(r) => Pageless'
    BY <1>1 DEF DeleteEnqueue, ReparseEnqueue, Enqueue, Pageless
  <2>2. PagesAdvance(r) => Pageless'
    BY <1>2 DEF PagesAdvance, Enqueue, Pageless
  <2> QED
    BY <1>6, <2>1, <2>2
       DEF ServeStep, RequestDies, CancelWrite, PagesReset, PagesAdjust, PagesPick, PagesParse, Pageless
<1> QED
  BY <1>3, <1>4, <1>5, <1>6 DEF Next, WorkStep, Pageless, vars

(* What becomes of a worker in one of its steps.                           *)
LEMMA HandledWork ==
    ASSUME TypeOK, WorkerInv, AllHandled, [Next]_vars, NEW t \in tasks, Work(t), t.typ \in {"ocr", "render"},
           NEW u \in tasks', u \notin tasks, u.typ \in {"ocr", "render"}, u.pc # "archived"
    PROVE  Handled(u)'
<1>1. t \in Tasks /\ t.pc # "archived" /\ Worker(t) /\ Handled(t) /\ InHand(t)
  BY WorkLive DEF TypeOK, WellFormed, Worker, AllHandled, WorkerInv
<1>2. u.pc = "queued" => Handled(u)'
  BY DEF Handled
<1>3. \A g : \A v \in NewTasks(g) : v.pc = "queued"
  BY NewTasksAre
<1>4. \A v \in Errored(t) \cup Archived(t) : v.pc \in {"queued", "archived"}
  BY <1>1, ErroredKin, RestartKin
<1>5. \A S : Off(t, S) => \A v : v.typ = t.typ /\ v.gen = t.gen /\ v.pages = t.pages => Off(v, S)'
  <2>1. ASSUME NEW S, Off(t, S), NEW v, v.typ = t.typ, v.gen = t.gen, v.pages = t.pages PROVE Off(v, S)'
    BY <1>1, <2>1, OffStays
  <2> QED
    BY <2>1
<1>6. ASSUME NEW new, Ack(t, new), \A v \in new : v.pc = "queued" PROVE Handled(u)'
  BY <1>2, <1>4, <1>6 DEF Ack, Enqueue, Others
<1>7. Error(t) \/ DeadLetter(t) => Handled(u)'
  BY <1>2, <1>4 DEF Error, DeadLetter, Others
<1>8. ASSUME NEW pc, Goto(t, pc) PROVE u = [t EXCEPT !.pc = pc]
  BY <1>8 DEF Goto, Others
<1>9. CASE OcrStart(t) \/ OcrRetry(t) \/ Drop(t) \/ LastAdvance(t)
  <2>1. ASSUME OcrStart(t), Goto(t, "read") PROVE Handled(u)'
    BY <1>1, <1>8, <2>1 DEF OcrStart, Starts, At, Handled, Tasks
  <2> QED
    BY <1>3, <1>6, <1>7, <1>9, <2>1 DEF OcrStart, OcrRetry, Drop, LastAdvance
<1>10. CASE OcrSave(t) \/ OcrFail(t)
  <2>1. PICK pc \in {"count", "count_failed"} : Goto(t, pc) \/ Ack(t, {})
    BY <1>10 DEF OcrSave, OcrFail
  <2>2. CASE Goto(t, pc)
    <3>1. u.pages = t.pages /\ u.gen = t.gen /\ u.typ = t.typ /\ u.typ = "ocr"
      BY <1>1, <1>8, <1>10, <2>2 DEF OcrSave, OcrFail, At, Tasks
    <3>2. t.pages = {t.page}
      BY <1>1, <3>1 DEF InHand, OcrHand
    <3>3. PICK s \in {"done", "failed"} : SetPage(t.page, t.gen, s)
      BY <1>10 DEF OcrSave, OcrFail
    <3>4. t.page \in Page /\ row \in [Page -> Row]
      BY <1>1, <3>2 DEF Tasks, TypeOK
    <3>5. row'[t.page].gen = t.gen => row'[t.page].st = s
      BY <3>3, <3>4 DEF SetPage, Row
    <3>6. Off(u, {})'
      BY <3>1, <3>2, <3>5 DEF Off, Doing
    <3> QED
      BY <3>1, <3>6 DEF Handled
  <2> QED
    BY <1>6, <2>1, <2>2
<1>11. CASE OcrCount(t) \/ OcrCountFailed(t)
  <2>1. PICK pc \in {"advance", "give_up"} : Goto(t, pc) \/ Error(t)
    BY <1>11 DEF OcrCount, OcrCountFailed
  <2>2. CASE Goto(t, pc)
    <3>1. u.pages = t.pages /\ u.gen = t.gen /\ u.typ = t.typ /\ u.typ = "ocr" /\ t.pc \in {"count", "count_failed"}
      BY <1>1, <1>8, <1>11, <2>2 DEF OcrCount, OcrCountFailed, At, Tasks
    <3>2. Off(t, {})
      BY <1>1, <3>1 DEF Handled
    <3> QED
      BY <1>5, <3>1, <3>2 DEF Handled
  <2> QED
    BY <1>7, <2>1, <2>2
<1>12. CASE RenderStart(t)
  <2>0. PICK todo : todo = StillRendering(t)
    OBVIOUS
  <2>1. CASE Ack(t, {})
    BY <1>6, <2>1
  <2>2. CASE u = [t EXCEPT !.pc = "emit", !.todo = todo, !.left = todo]
    <3>1. u.pages = t.pages /\ u.gen = t.gen /\ u.typ = "render" /\ u.pc = "emit" /\ u.todo = todo
      BY <1>1, <1>12, <2>2 DEF RenderStart, Starts, At, Tasks
    <3>2. Off(u, todo)'
      BY <1>12, <2>0, <3>1 DEF RenderStart, StillRendering, Off, Doing
    <3> QED
      BY <3>1, <3>2 DEF Handled
  <2> QED
    BY <1>12, <2>0, <2>1, <2>2 DEF RenderStart, Others
<1>13. ASSUME u.typ = t.typ, t.typ = "render", u.gen = t.gen, u.pages = t.pages, u.todo = t.todo, t.pc # "queued"
       PROVE  Off(u, u.todo)'
  BY <1>1, <1>5, <1>13 DEF Handled
<1>14. CASE RenderEmit(t) \/ RenderAdvance(t)
  <2>1. t.typ = "render" /\ t.pc \in {"emit", "advance"}
    BY <1>14 DEF RenderEmit, RenderAdvance, At
  <2>2. ASSUME u = [t EXCEPT !.pc = "advance", !.left = @ \ {Least(t.left)}] \/ u = [t EXCEPT !.pc = "emit"]
        PROVE  Handled(u)'
    <3>1. u.typ = t.typ /\ u.gen = t.gen /\ u.pages = t.pages /\ u.todo = t.todo /\ u.pc \in {"advance", "emit"}
      BY <1>1, <2>2 DEF Tasks
    <3> QED
      BY <1>13, <2>1, <3>1 DEF Handled
  <2> QED
    BY <1>2, <1>3, <1>6, <1>14, <2>2 DEF RenderEmit, RenderAdvance, Enqueue, Others
<1>15. CASE RenderFails(t)
  <2>1. t.typ = "render" /\ t.pc = "emit"
    BY <1>15 DEF RenderFails, At
  <2>2. ASSUME u = [t EXCEPT !.pc = "give_up", !.left = t.todo] PROVE Handled(u)'
    <3>1. u.typ = t.typ /\ u.gen = t.gen /\ u.pages = t.pages /\ u.todo = t.todo /\ u.left = t.todo /\ u.pc = "give_up"
      BY <1>1, <2>2 DEF Tasks
    <3> QED
      BY <1>13, <2>1, <3>1 DEF Handled
  <2> QED
    BY <1>7, <1>15, <2>2 DEF RenderFails, Others
<1>16. CASE RenderGiveUp(t)
  <2> DEFINE p == Least(t.left)
  <2>1. t.typ = "render" /\ t.pc = "give_up" /\ Off(t, t.left) /\ row \in [Page -> Row]
    BY <1>1, <1>16 DEF RenderGiveUp, At, Handled, TypeOK
  <2>2. CASE row[p].st = "rendering"
    <3>1. u = [t EXCEPT !.pc = "count"] /\ SetPage(p, t.gen, "failed")
      BY <1>8, <1>16, <2>2 DEF RenderGiveUp
    <3>2. u.typ = t.typ /\ u.gen = t.gen /\ u.pages = t.pages /\ u.todo = t.todo /\ u.left = t.left /\ u.pc = "count"
      BY <1>1, <3>1 DEF Tasks
    <3>3. Off(u, u.left)' /\ Off(u, u.todo)'
      BY <1>5, <1>13, <2>1, <3>2
    <3>4. p \in Page => (row'[p].gen = t.gen => row'[p].st # "rendering")
      BY <2>1, <3>1 DEF SetPage, Row
    <3>5. Off(u, u.left \ {Least(u.left)})'
      BY <1>1, <2>1, <3>2, <3>3, <3>4 DEF Off, Doing, Tasks
    <3> QED
      BY <2>1, <3>2, <3>3, <3>5 DEF Handled
  <2>3. CASE row[p].st # "rendering"
    <3>1. u = [t EXCEPT !.left = @ \ {p}] /\ UNCHANGED row
      BY <1>16, <2>3 DEF RenderGiveUp, Others
    <3>2. u.typ = t.typ /\ u.gen = t.gen /\ u.pages = t.pages /\ u.todo = t.todo /\ u.left = t.left \ {p} /\ u.pc = "give_up"
      BY <1>1, <2>1, <3>1 DEF Tasks
    <3>3. Off(u, u.todo)'
      BY <1>13, <2>1, <3>2
    <3>4. Off(u, u.left)'
      BY <2>1, <2>3, <3>1, <3>2 DEF Off, Doing
    <3> QED
      BY <2>1, <3>2, <3>3, <3>4 DEF Handled
  <2> QED
    BY <2>2, <2>3
<1>17. CASE RenderCount(t)
  <2>1. t.typ = "render" /\ t.pc = "count" /\ Off(t, t.left \ {Least(t.left)})
    BY <1>1, <1>17 DEF RenderCount, At, Handled
  <2>2. u = [t EXCEPT !.pc = "give_up", !.left = @ \ {Least(@)}]
    BY <1>17 DEF RenderCount, Others
  <2>3. /\ u.typ = t.typ /\ u.gen = t.gen /\ u.pages = t.pages /\ u.todo = t.todo
        /\ u.left = t.left \ {Least(t.left)} /\ u.pc = "give_up"
    BY <1>1, <2>2 DEF Tasks
  <2> QED
    BY <1>5, <1>13, <2>1, <2>3 DEF Handled
<1>18. FailedAdvance(t) => Handled(u)'
  BY <1>2, <1>3, <1>4 DEF FailedAdvance, Enqueue, Others
<1> QED
  BY <1>7, <1>9, <1>10, <1>11, <1>12, <1>14, <1>15, <1>16, <1>17, <1>18
     DEF Work, SplitStart, SplitInit, SplitProbeFails, SplitReady, SplitHeld, AssembleStart, AssembleDecide,
         AssembleHandover, IndexBuild, TreeStart, TreeSettle, IndexFails, GenCleanup, DeleteObjects, DeletePurge, Starts, At

LEMMA HandledStep == Careful /\ TypeOK /\ WorkerInv /\ AllHandled /\ [Next]_vars => AllHandled'
<1> SUFFICES ASSUME Careful, TypeOK, WorkerInv, AllHandled, [Next]_vars, NEW u \in tasks', Worker(u)
             PROVE  Handled(u)'
  BY DEF AllHandled, Worker
<1>1. CASE u \in tasks
  <2>1. Handled(u)
    BY <1>1 DEF AllHandled
  <2>2. \A S : Off(u, S) => Off(u, S)'
    BY <1>1, OffStays
  <2> QED
    BY <2>1, <2>2 DEF Handled
<1>2. CASE u.pc = "queued"
  BY <1>2 DEF Handled
<1>3. ASSUME u \notin tasks, u.pc # "queued", NEW t \in tasks, Work(t) \/ Crash(t) \/ StrayPickup(t) PROVE Handled(u)'
  <2>1. PICK R, new : Moves({t}, R, new) /\ Batched(new, t.gen)
    BY <1>3, WorkSteady DEF Steady, Given
  <2>2. u \in R /\ u.typ = t.typ
    BY <1>3, <2>1 DEF Moves, Batched, Enqueue, Kin
  <2>3. t.typ \in {"ocr", "render"} /\ u.typ \in {"ocr", "render"} /\ u.pc # "archived"
    BY <2>2 DEF Worker
  <2>4. ~Crash(t)
    BY <2>3 DEF Crash, CanCrash, Careful
  <2>5. ~StrayPickup(t)
    BY <1>3 DEF StrayPickup, Others
  <2> QED
    BY <1>3, <2>3, <2>4, <2>5, HandledWork
<1>4. \A g : \A v \in NewTasks(g) : v.pc = "queued"
  BY NewTasksAre
<1>5. \A typ, g, b : DocTask(typ, g, b).pc = "queued"
  BY DEF DocTask, Task
<1>6. Housekeeping => u \in tasks \/ u.pc = "queued"
  BY <1>4, <1>5 DEF Housekeeping, HkReset, HkAdvance, HkDispatch, HkDelete, Enqueue
<1>7. Ask => u \in tasks
  BY DEF Ask, CancelCheck, DeleteMark, ReparseBump, PagesCheck
<1>8. ASSUME NEW r \in reqs, ServeStep(r) \/ RequestDies(r) PROVE u \in tasks \/ u.pc = "queued"
  <2>1. DeleteEnqueue(r) \/ ReparseEnqueue(r) => u \in tasks \/ u.pc = "queued"
    BY <1>5 DEF DeleteEnqueue, ReparseEnqueue, Enqueue
  <2>2. PagesAdvance(r) => u \in tasks \/ u.pc = "queued"
    BY <1>4 DEF PagesAdvance, Enqueue
  <2> QED
    BY <1>8, <2>1, <2>2 DEF ServeStep, RequestDies, CancelWrite, PagesReset, PagesAdjust, PagesPick, PagesParse
<1> QED
  BY <1>1, <1>2, <1>3, <1>6, <1>7, <1>8 DEF Next, WorkStep, vars

(* A page task that ends in the archive got there from one of these steps. *)
LEMMA Buried ==
    ASSUME Careful, ~IsImage \/ MaxRetry = 0, TypeOK, NEW t \in tasks, Work(t), t.typ \in {"ocr", "render"},
           NEW u \in tasks', u \notin tasks, u.pc = "archived"
    PROVE  (OcrCount(t) /\ UNCHANGED row) \/ FailedAdvance(t)
<1>1. t \in Tasks /\ t.pc # "archived"
  BY WorkLive DEF TypeOK, WellFormed
<1>2. ~CanCrash(t.typ)
  BY DEF CanCrash, Careful
<1>3. \A g : \A v \in NewTasks(g) : v.pc = "queued"
  BY NewTasksAre
<1>4. ASSUME NEW new, Ack(t, new), \A v \in new : v.pc = "queued" PROVE FALSE
  BY <1>2, <1>4 DEF Ack, Enqueue, Others
<1>5. ASSUME Error(t), ~Final(t) PROVE FALSE
  BY <1>1, <1>5, RestartKin DEF Error, Errored, Others
<1>6. ASSUME NEW pc, pc # "archived", Goto(t, pc) PROVE FALSE
  BY <1>1, <1>6 DEF Goto, Others, Tasks
<1>7. ~(OcrStart(t) \/ Drop(t) \/ LastAdvance(t) \/ OcrSave(t) \/ OcrFail(t) \/ OcrRetry(t) \/ OcrCountFailed(t))
  BY <1>3, <1>4, <1>5, <1>6 DEF OcrStart, Drop, LastAdvance, OcrSave, OcrFail, OcrRetry, OcrCountFailed
<1>8. ~RenderStart(t)
  <2>1. ASSUME NEW todo, u = [t EXCEPT !.pc = "emit", !.todo = todo, !.left = todo] PROVE FALSE
    BY <1>1, <2>1 DEF Tasks
  <2> QED
    BY <1>4, <2>1 DEF RenderStart, Others
<1>9. ~RenderEmit(t)
  <2>1. u # [t EXCEPT !.pc = "advance", !.left = @ \ {Least(t.left)}]
    BY <1>1 DEF Tasks
  <2> QED
    BY <2>1 DEF RenderEmit, Others
<1>10. ~RenderAdvance(t)
  <2>1. u # [t EXCEPT !.pc = "emit"]
    BY <1>1 DEF Tasks
  <2> QED
    BY <1>3, <1>4, <2>1 DEF RenderAdvance, Enqueue, Others
<1>11. ~RenderFails(t)
  <2>1. u # [t EXCEPT !.pc = "give_up", !.left = t.todo]
    BY <1>1 DEF Tasks
  <2>2. MaxRetry = 0 => Final(t)
    BY <1>1 DEF Final, Tasks
  <2> QED
    BY <1>5, <2>1, <2>2 DEF RenderFails, Others
<1>12. ~RenderGiveUp(t)
  <2>1. t.pc = "give_up" => u # [t EXCEPT !.left = @ \ {Least(t.left)}]
    BY <1>1 DEF Tasks
  <2> QED
    BY <1>6, <2>1 DEF RenderGiveUp, Others, At
<1>13. ~RenderCount(t)
  <2>1. u # [t EXCEPT !.pc = "give_up", !.left = @ \ {Least(@)}]
    BY <1>1 DEF Tasks
  <2> QED
    BY <2>1 DEF RenderCount, Others
<1>14. OcrCount(t) => UNCHANGED row
  BY DEF OcrCount
<1> QED
  BY <1>7, <1>8, <1>9, <1>10, <1>11, <1>12, <1>13, <1>14
     DEF Work, SplitStart, SplitInit, SplitProbeFails, SplitReady, SplitHeld, AssembleStart, AssembleDecide,
         AssembleHandover, IndexBuild, TreeStart, TreeSettle, IndexFails, GenCleanup, DeleteObjects, DeletePurge, Starts, At

LEMMA GiveUpStep ==
    ASSUME Careful, ~IsImage \/ MaxRetry = 0, TypeOK, WorkerInv, AllHandled, Pageless, [Next]_vars,
           NEW u \in tasks' \ tasks, u.pc = "archived", NEW p \in u.pages, row'[p].gen = u.gen
    PROVE  row'[p].st # IF u.typ = "ocr" THEN "ocr" ELSE "rendering"
<1>1. \A g : \A v \in NewTasks(g) : v.pc = "queued"
  BY NewTasksAre
<1>2. \A typ, g, b : DocTask(typ, g, b).pc = "queued"
  BY DEF DocTask, Task
<1>3. ~Housekeeping
  BY <1>1, <1>2 DEF Housekeeping, HkReset, HkAdvance, HkDispatch, HkDelete, Enqueue
<1>4. ~Ask
  BY DEF Ask, CancelCheck, DeleteMark, ReparseBump, PagesCheck
<1>5. ASSUME NEW r \in reqs, ServeStep(r) \/ RequestDies(r) PROVE FALSE
  <2>1. ~DeleteEnqueue(r) /\ ~ReparseEnqueue(r)
    BY <1>2 DEF DeleteEnqueue, ReparseEnqueue, Enqueue
  <2>2. ~PagesAdvance(r)
    BY <1>1 DEF PagesAdvance, Enqueue
  <2> QED
    BY <1>5, <2>1, <2>2 DEF ServeStep, RequestDies, CancelWrite, PagesReset, PagesAdjust, PagesPick, PagesParse
<1>6. PICK t \in tasks : Work(t) \/ Crash(t) \/ StrayPickup(t)
  BY <1>3, <1>4, <1>5 DEF Next, WorkStep, vars
<1>7. PICK R, new : Moves({t}, R, new) /\ Batched(new, t.gen)
  BY <1>6, WorkSteady DEF Steady, Given
<1>8. u \in R /\ u.typ = t.typ /\ u.gen = t.gen /\ u.pages = t.pages
  BY <1>7 DEF Moves, Batched, Enqueue, Kin
<1>9. t.typ \in {"ocr", "render"}
  BY <1>8 DEF Pageless
<1>10. ~Crash(t) /\ ~StrayPickup(t)
  BY <1>9 DEF Crash, CanCrash, Careful, StrayPickup, Others
<1>11. (OcrCount(t) /\ UNCHANGED row) \/ FailedAdvance(t)
  BY <1>6, <1>9, <1>10, Buried
<1>12. Worker(t) /\ Handled(t)
  BY <1>6, <1>9, WorkLive DEF Worker, AllHandled
<1>13. Off(t, {})
  <2>1. CASE OcrCount(t)
    BY <1>12, <2>1 DEF OcrCount, At, Handled
  <2>2. CASE FailedAdvance(t)
    BY <1>12, <2>2 DEF FailedAdvance, At, Handled
  <2> QED
    BY <1>11, <2>1, <2>2
<1>14. Off(u, {})'
  BY <1>8, <1>12, <1>13, OffStays
<1> QED
  BY <1>14 DEF Off, Doing

(* A page task that ran out of attempts leaves no page waiting for it.     *)
(* An image that does not decode is given up before its last attempt, so   *)
(* the theorem is about PDFs, or about tasks that are tried once.          *)
THEOREM PagesAreGivenUp ==
    ASSUME Tame, Either, Careful, ~IsImage \/ MaxRetry = 0
    PROVE  Spec => GivesUp
<1>1. Tame /\ Either /\ Careful /\ (~IsImage \/ MaxRetry = 0)
  OBVIOUS
<1>2. Init => AllHandled /\ Pageless
  BY DEF Init, DocTask, Task, AllHandled, Worker, Pageless
<1>3. PipeInv => TypeOK /\ WorkerInv
  BY DEF PipeInv
<1>4. TypeOK /\ WorkerInv /\ AllHandled /\ Pageless /\ [Next]_vars =>
         [\A t \in tasks' \ tasks : t.pc = "archived" =>
            \A p \in t.pages : row'[p].gen = t.gen =>
                row'[p].st # IF t.typ = "ocr" THEN "ocr" ELSE "rendering"]_vars
  BY <1>1, GiveUpStep
<1> QED
  BY <1>1, <1>2, <1>3, <1>4, HandledStep, PagelessStep, PipeAlways, PTL DEF Spec, GivesUp

-----------------------------------------------------------------------------
(* A page is counted in two statements: its row is finished, then the      *)
(* counter moves.  ToCount are the finishers between the two for a page    *)
(* read, ToLose for a page given up.                                       *)

Reads(t) == t.typ = "ocr" /\ t.pc = "count"
Loses(t) == (t.typ = "ocr" /\ t.pc = "count_failed") \/ (t.typ = "render" /\ t.pc = "count")
ToCount == {t \in tasks : t.gen = doc.gen /\ Reads(t)}
ToLose == {t \in tasks : t.gen = doc.gen /\ Loses(t)}

Match(a, b) == a <= b /\ (Careful => a = b)

(* A request for pages that took pages back owes the counters their number *)
(* until its next statement.                                               *)
Due(r) == r.op = "pages" /\ r.gen = doc.gen /\ r.pc = "adjust"
Fits(d, f) ==
    /\ Match(doc.done + Cardinality(ToCount), Cardinality(Rows(doc.gen, "done")) + d)
    /\ Match(doc.failed + Cardinality(ToLose), Cardinality(Rows(doc.gen, "failed")) + f)
CountInv ==
    doc.exists =>
        /\ (\A r \in reqs : ~Due(r)) => Fits(0, 0)
        /\ \A r \in reqs : Due(r) => Fits(r.done, r.failed)

LEMMA CountsFinite ==
    ASSUME IsFiniteSet(tasks)
    PROVE  /\ IsFiniteSet(ToCount) /\ Cardinality(ToCount) \in Nat
           /\ IsFiniteSet(ToLose) /\ Cardinality(ToLose) \in Nat
<1>1. ToCount \in SUBSET tasks /\ ToLose \in SUBSET tasks
  BY DEF ToCount, ToLose
<1> QED
  BY <1>1, FS_Subset, FS_CardinalityType

LEMMA OneMore ==
    ASSUME NEW S, IsFiniteSet(S), NEW x
    PROVE  x \notin S => Cardinality(S \cup {x}) = Cardinality(S) + 1
BY FS_AddElement

LEMMA OneLess ==
    ASSUME NEW S, IsFiniteSet(S), NEW x
    PROVE  Cardinality(S \ {x}) = IF x \in S THEN Cardinality(S) - 1 ELSE Cardinality(S)
BY FS_RemoveElement

(* The counters of the model's properties.                                 *)
LEMMA BehindCounts ==
    ASSUME TypeOK, IsFiniteSet(tasks)
    PROVE  Behind = doc.done + Cardinality(ToCount) /\ BehindFailed = doc.failed + Cardinality(ToLose)
<1> DEFINE A == {t \in tasks : t.typ = "ocr" /\ t.pc = "count_failed" /\ t.gen = doc.gen}
           B == {t \in tasks : t.typ = "render" /\ t.pc = "count" /\ t.gen = doc.gen}
<1>1. ToLose = A \cup B /\ A \cap B = {} /\ A \in SUBSET tasks /\ B \in SUBSET tasks
  BY DEF ToLose, Loses
<1>2. IsFiniteSet(A) /\ IsFiniteSet(B) /\ Cardinality(A) \in Nat /\ Cardinality(B) \in Nat
  BY <1>1, FS_Subset, FS_CardinalityType
<1>3. BehindFailed = doc.failed + Cardinality(A) + Cardinality(B)
  BY DEF BehindFailed, Counting
<1>4. ToCount = {t \in tasks : t.typ = "ocr" /\ t.pc = "count" /\ t.gen = doc.gen}
  BY DEF ToCount, Reads
<1>5. Behind = doc.done + Cardinality(ToCount)
  BY <1>4 DEF Behind, Counting
<1> HIDE DEF A, B
<1>6. Cardinality(A \cap B) = 0
  BY <1>1, FS_EmptySet
<1>7. Cardinality(ToLose) = Cardinality(A) + Cardinality(B)
  <2>1. Cardinality(A \cup B) = Cardinality(A) + Cardinality(B) - Cardinality(A \cap B)
    BY <1>2, FS_Union
  <2> QED
    BY <1>1, <1>2, <1>6, <2>1
<1> QED
  BY <1>2, <1>3, <1>5, <1>7 DEF TypeOK, Doc

(* What a step does to the finishers.                                      *)
LEMMA FinishersAfter ==
    ASSUME TypeOK, Unique, doc'.gen = doc.gen, NEW X, NEW R, NEW new, Moves(X, R, new), NEW g, Batched(new, g)
    PROVE  /\ ToCount' = (ToCount \ X) \cup {u \in R : u.gen = doc.gen /\ Reads(u)}
           /\ ToLose' = (ToLose \ X) \cup {u \in R : u.gen = doc.gen /\ Loses(u)}
           /\ \A u \in R : u \in tasks => u \in X
<1>1. \A u \in new : ~Reads(u) /\ ~Loses(u)
  BY DEF Batched, Reads, Loses
<1>2. \A u \in tasks' : u \in (tasks \ X) \cup R \cup new
  BY DEF Moves, Enqueue
<1>3. \A u \in (tasks \ X) \cup R : u \in tasks'
  BY DEF Moves, Enqueue
<1>4. ASSUME NEW u \in R, u \in tasks PROVE u \in X
  <2>1. PICK t \in X : Kin(u, t)
    BY DEF Moves
  <2>2. Id(u) = Id(t) /\ t \in tasks
    BY <2>1 DEF Id, Kin, Moves
  <2> QED
    BY <1>4, <2>1, <2>2 DEF Unique
<1>5. ToCount' = (ToCount \ X) \cup {u \in R : u.gen = doc.gen /\ Reads(u)}
  BY <1>1, <1>2, <1>3 DEF ToCount, Reads
<1>6. ToLose' = (ToLose \ X) \cup {u \in R : u.gen = doc.gen /\ Loses(u)}
  BY <1>1, <1>2, <1>3 DEF ToLose, Loses
<1> QED
  BY <1>4, <1>5, <1>6

(* A step that finishes no page and counts none.                           *)
Uncounted ==
    /\ doc'.gen = doc.gen /\ (doc'.exists => doc.exists)
    /\ doc'.done = doc.done /\ doc'.failed = doc.failed
    /\ \A p \in Page : \A s \in {"done", "failed"} :
          row'[p].gen = doc.gen /\ row'[p].st = s <=> row[p].gen = doc.gen /\ row[p].st = s
SameDue == \A r : Due(r) => (r \in reqs' <=> r \in reqs)

LEMMA CountStill ==
    ASSUME CountInv, Uncounted, SameDue, ToCount' = ToCount, ToLose' = ToLose
    PROVE  CountInv'
<1>1. Rows(doc.gen, "done")' = Rows(doc.gen, "done") /\ Rows(doc.gen, "failed")' = Rows(doc.gen, "failed")
  BY DEF Uncounted, Rows
<1>2. \A d, f : Fits(d, f) => Fits(d, f)'
  BY <1>1 DEF Fits, Match, Uncounted
<1>3. \A r : Due(r)' <=> Due(r)
  BY DEF Due, Uncounted
<1> QED
  BY <1>2, <1>3 DEF CountInv, SameDue, Uncounted

(* The same, for a step that moves no finisher.                            *)
LEMMA CountPassing ==
    ASSUME TypeOK, GenInv, CountInv, Uncounted, SameDue, NEW X, NEW R, NEW new, Moves(X, R, new), NEW g, Batched(new, g),
           \A t \in X : t.gen = doc.gen => ~Reads(t) /\ ~Loses(t),
           \A u \in R : u.gen = doc.gen => ~Reads(u) /\ ~Loses(u)
    PROVE  CountInv'
<1>1. /\ ToCount' = (ToCount \ X) \cup {u \in R : u.gen = doc.gen /\ Reads(u)}
      /\ ToLose' = (ToLose \ X) \cup {u \in R : u.gen = doc.gen /\ Loses(u)}
  BY FinishersAfter DEF GenInv, Uncounted
<1>2. ToCount' = ToCount /\ ToLose' = ToLose
  BY <1>1 DEF ToCount, ToLose
<1> QED
  BY <1>2, CountStill

(* One page is finished or counted while no request owes the counters.     *)
LEMMA CountMoves ==
    ASSUME CountInv, doc'.exists => doc.exists, doc'.gen = doc.gen, UNCHANGED reqs, ~Asked(doc.gen),
           Fits(0, 0) => Fits(0, 0)'
    PROVE  CountInv'
<1>1. \A r \in reqs : ~Due(r) /\ ~Due(r)'
  BY DEF Asked, Due
<1> QED
  BY <1>1 DEF CountInv


-----------------------------------------------------------------------------
(* The tasks' steps.                                                       *)

(* A task that is no finisher goes on, goes back to the queue or ends.     *)
LEMMA CountQueued ==
    ASSUME TypeOK, GenInv, CountInv, Uncounted, UNCHANGED reqs, NEW t \in tasks, ~Reads(t), ~Loses(t),
           \/ Error(t) \/ DeadLetter(t)
           \/ \E pc \in Steps \ {"count", "count_failed"} : Goto(t, pc)
           \/ \E new, g : Ack(t, new) /\ Batched(new, g)
           \/ \E new, g : tasks' = Enqueue(new, Others(t) \cup Archived(t)) /\ Batched(new, g)
    PROVE  CountInv'
<1>1. t \in Tasks /\ SameDue
  BY DEF TypeOK, WellFormed, SameDue
<1>2. \A u \in Errored(t) \cup Archived(t) : ~Reads(u) /\ ~Loses(u)
  BY <1>1, ErroredKin, RestartKin DEF Reads, Loses
<1>3. ASSUME NEW R, NEW new, NEW g, Moves({t}, R, new), Batched(new, g), R \subseteq Errored(t) \cup Archived(t)
      PROVE  CountInv'
  BY <1>1, <1>2, <1>3, CountPassing
<1>4. CASE Error(t) \/ DeadLetter(t)
  <2>1. Moves({t}, Errored(t), {}) \/ Moves({t}, Archived(t), {})
    BY <1>4, ErrorMoves
  <2> QED
    BY <1>3, <2>1, NoneBatched
<1>5. ASSUME NEW pc \in Steps \ {"count", "count_failed"}, Goto(t, pc) PROVE CountInv'
  <2>1. Moves({t}, {[t EXCEPT !.pc = pc]}, {})
    BY <1>5, GotoMoves
  <2>2. \A u \in {[t EXCEPT !.pc = pc]} : ~Reads(u) /\ ~Loses(u)
    BY <1>1, <1>5, PcKin DEF Reads, Loses
  <2> QED
    BY <1>1, <2>1, <2>2, CountPassing, NoneBatched
<1>6. ASSUME NEW new, NEW g, Ack(t, new), Batched(new, g) PROVE CountInv'
  <2>1. Moves({t}, {}, new) \/ Moves({t}, Errored(t), new)
    BY <1>6, AckMoves
  <2> QED
    BY <1>3, <1>6, <2>1
<1>7. ASSUME NEW new, NEW g, tasks' = Enqueue(new, Others(t) \cup Archived(t)), Batched(new, g) PROVE CountInv'
  <2>1. Moves({t}, Archived(t), new)
    BY <1>1, <1>7, RestartKin DEF Moves, Others
  <2> QED
    BY <1>3, <1>7, <2>1
<1> QED
  BY <1>4, <1>5, <1>6, <1>7

(* A worker finishes a page and becomes its finisher.                      *)
LEMMA CountFinish ==
    ASSUME TypeOK, GenInv, CountInv, UNCHANGED <<doc, reqs>>, ~Asked(doc.gen),
           NEW t \in tasks, t.gen = doc.gen, ~Reads(t), ~Loses(t), NEW pc \in Steps, Goto(t, pc),
           NEW p \in Page, row[p].gen = doc.gen, row[p].st \in Busy, NEW s \in {"done", "failed"}, SetPage(p, t.gen, s),
           NEW u, u = [t EXCEPT !.pc = pc], IF s = "done" THEN Reads(u) ELSE Loses(u)
    PROVE  CountInv'
<1>1. t \in Tasks /\ doc \in Doc /\ IsFiniteSet(tasks) /\ row \in [Page -> Row]
  BY DEF TypeOK, WellFormed, GenInv
<1>2. Moves({t}, {u}, {}) /\ Kin(u, t)
  BY <1>1, GotoMoves, PcKin
<1>3. /\ ToCount' = (ToCount \ {t}) \cup {v \in {u} : v.gen = doc.gen /\ Reads(v)}
      /\ ToLose' = (ToLose \ {t}) \cup {v \in {u} : v.gen = doc.gen /\ Loses(v)}
      /\ u \in tasks => u = t
  BY <1>2, FinishersAfter, NoneBatched DEF GenInv
<1>4. ~(Reads(u) /\ Loses(u)) /\ u.gen = doc.gen /\ t \notin ToCount /\ t \notin ToLose
  BY <1>2 DEF Reads, Loses, Kin, ToCount, ToLose
<1>5. u \notin ToCount /\ u \notin ToLose
  BY <1>3, <1>4 DEF ToCount, ToLose
<1>6. /\ ToCount' = IF s = "done" THEN ToCount \cup {u} ELSE ToCount
      /\ ToLose' = IF s = "done" THEN ToLose ELSE ToLose \cup {u}
  BY <1>3, <1>4
<1>7. \A x \in {"done", "failed"} :
         Rows(doc.gen, x)' = IF x = s THEN Rows(doc.gen, x) \cup {p} ELSE Rows(doc.gen, x)
  BY <1>1 DEF SetPage, Rows, Row, Busy
<1>8. \A x \in {"done", "failed"} : p \notin Rows(doc.gen, x) /\ Rows(doc.gen, x) \in SUBSET Page
  BY DEF Rows, Busy
<1>9. /\ IsFiniteSet(ToCount) /\ Cardinality(ToCount) \in Nat
      /\ IsFiniteSet(ToLose) /\ Cardinality(ToLose) \in Nat
  BY <1>1, CountsFinite
<1>10. \A x \in {"done", "failed"} : IsFiniteSet(Rows(doc.gen, x)) /\ Cardinality(Rows(doc.gen, x)) \in Nat
  BY <1>8, PagesFinite, SizeAssumption
<1>11. /\ Cardinality(ToCount)' = Cardinality(ToCount) + (IF s = "done" THEN 1 ELSE 0)
       /\ Cardinality(ToLose)' = Cardinality(ToLose) + (IF s = "done" THEN 0 ELSE 1)
  <2>1. /\ Cardinality(ToCount \cup {u}) = Cardinality(ToCount) + 1
        /\ Cardinality(ToLose \cup {u}) = Cardinality(ToLose) + 1
    BY <1>5, <1>9, OneMore
  <2> QED
    BY <1>6, <1>9, <2>1
<1>12. /\ Cardinality(Rows(doc.gen, "done"))' = Cardinality(Rows(doc.gen, "done")) + (IF s = "done" THEN 1 ELSE 0)
       /\ Cardinality(Rows(doc.gen, "failed"))' = Cardinality(Rows(doc.gen, "failed")) + (IF s = "done" THEN 0 ELSE 1)
  <2>1. \A x \in {"done", "failed"} : Cardinality(Rows(doc.gen, x) \cup {p}) = Cardinality(Rows(doc.gen, x)) + 1
    BY <1>8, <1>10, OneMore
  <2> QED
    BY <1>7, <1>10, <2>1
<1>13. doc.done \in Nat /\ doc.failed \in Nat
  BY <1>1 DEF Doc
<1>14. Fits(0, 0) => Fits(0, 0)'
  BY <1>9, <1>10, <1>11, <1>12, <1>13 DEF Fits, Match
<1> QED
  BY <1>14, CountMoves

LEMMA PageCounted ==
    ASSUME doc \in Doc, doc.exists
    PROVE  /\ CountPage(doc.gen, "done") => /\ doc'.gen = doc.gen /\ doc'.exists = doc.exists
                                           /\ doc'.done = doc.done + 1 /\ doc'.failed = doc.failed
           /\ CountPage(doc.gen, "failed") => /\ doc'.gen = doc.gen /\ doc'.exists = doc.exists
                                             /\ doc'.done = doc.done /\ doc'.failed = doc.failed + 1
BY DEF CountPage, Counted, Doc

(* A finisher counts its page.                                             *)
LEMMA CountCounts ==
    ASSUME TypeOK, GenInv, CountInv, doc.exists, UNCHANGED <<row, reqs>>, ~Asked(doc.gen),
           NEW t \in tasks, t.gen = doc.gen, Reads(t) \/ Loses(t), CountPage(t.gen, IF Reads(t) THEN "done" ELSE "failed"),
           NEW u, Kin(u, t), ~Reads(u), ~Loses(u), tasks' = Others(t) \cup {u}
    PROVE  CountInv'
<1>1. doc \in Doc /\ IsFiniteSet(tasks)
  BY DEF TypeOK, GenInv
<1>2. /\ doc'.gen = doc.gen /\ doc'.exists = doc.exists
      /\ doc'.done = doc.done + (IF Reads(t) THEN 1 ELSE 0)
      /\ doc'.failed = doc.failed + (IF Reads(t) THEN 0 ELSE 1)
  <2>1. CASE Reads(t)
    <3>1. CountPage(doc.gen, "done")
      BY <2>1
    <3>2. /\ doc'.gen = doc.gen /\ doc'.exists = doc.exists
          /\ doc'.done = doc.done + 1 /\ doc'.failed = doc.failed
      BY <1>1, <3>1, PageCounted
    <3> QED
      BY <1>1, <2>1, <3>2 DEF Doc
  <2>2. CASE ~Reads(t)
    <3>1. CountPage(doc.gen, "failed")
      BY <2>2
    <3>2. /\ doc'.gen = doc.gen /\ doc'.exists = doc.exists
          /\ doc'.done = doc.done /\ doc'.failed = doc.failed + 1
      BY <1>1, <3>1, PageCounted
    <3> QED
      BY <1>1, <2>2, <3>2 DEF Doc
  <2> QED
    BY <2>1, <2>2
<1>3. Moves({t}, {u}, {})
  BY OneMoves, EnqueueNone
<1>4. /\ ToCount' = (ToCount \ {t}) \cup {v \in {u} : v.gen = doc.gen /\ Reads(v)}
      /\ ToLose' = (ToLose \ {t}) \cup {v \in {u} : v.gen = doc.gen /\ Loses(v)}
  BY <1>2, <1>3, FinishersAfter, NoneBatched DEF GenInv
<1>5. ToCount' = ToCount \ {t} /\ ToLose' = ToLose \ {t}
  BY <1>4
<1>6. (t \in ToCount <=> Reads(t)) /\ (t \in ToLose <=> ~Reads(t))
  BY DEF ToCount, ToLose, Reads, Loses
<1>7. /\ IsFiniteSet(ToCount) /\ Cardinality(ToCount) \in Nat
      /\ IsFiniteSet(ToLose) /\ Cardinality(ToLose) \in Nat
  BY <1>1, CountsFinite
<1>8. /\ Cardinality(ToCount)' = Cardinality(ToCount) - (IF Reads(t) THEN 1 ELSE 0)
      /\ Cardinality(ToLose)' = Cardinality(ToLose) - (IF Reads(t) THEN 0 ELSE 1)
  <2>1. /\ Cardinality(ToCount \ {t}) = IF t \in ToCount THEN Cardinality(ToCount) - 1 ELSE Cardinality(ToCount)
        /\ Cardinality(ToLose \ {t}) = IF t \in ToLose THEN Cardinality(ToLose) - 1 ELSE Cardinality(ToLose)
    BY <1>7, OneLess
  <2> QED
    BY <1>5, <1>6, <1>7, <2>1
<1>9. /\ Cardinality(Rows(doc.gen, "done"))' = Cardinality(Rows(doc.gen, "done"))
      /\ Cardinality(Rows(doc.gen, "failed"))' = Cardinality(Rows(doc.gen, "failed"))
  BY <1>2 DEF Rows
<1>10. doc.done \in Nat /\ doc.failed \in Nat
  BY <1>1 DEF Doc
<1>11. Fits(0, 0) => Fits(0, 0)'
  BY <1>2, <1>7, <1>8, <1>9, <1>10 DEF Fits, Match
<1> QED
  BY <1>2, <1>11, CountMoves

(* A count dies with its worker.                                           *)
LEMMA CountDies ==
    ASSUME TypeOK, GenInv, CountInv, ~Careful, ~Asked(doc.gen), NEW t \in tasks, NEW R, Moves({t}, R, {}),
           \A u \in R : ~Reads(u) /\ ~Loses(u), UNCHANGED <<doc, row, reqs>>
    PROVE  CountInv'
<1>1. doc \in Doc /\ IsFiniteSet(tasks)
  BY DEF TypeOK, GenInv
<1>2. /\ ToCount' = (ToCount \ {t}) \cup {v \in R : v.gen = doc.gen /\ Reads(v)}
      /\ ToLose' = (ToLose \ {t}) \cup {v \in R : v.gen = doc.gen /\ Loses(v)}
  BY FinishersAfter, NoneBatched DEF GenInv
<1>3. ToCount' = ToCount \ {t} /\ ToLose' = ToLose \ {t}
  BY <1>2
<1>4. /\ IsFiniteSet(ToCount) /\ Cardinality(ToCount) \in Nat
      /\ IsFiniteSet(ToLose) /\ Cardinality(ToLose) \in Nat
  BY <1>1, CountsFinite
<1>5. /\ Cardinality(ToCount)' <= Cardinality(ToCount) /\ Cardinality(ToCount)' \in Int
      /\ Cardinality(ToLose)' <= Cardinality(ToLose) /\ Cardinality(ToLose)' \in Int
  <2>1. /\ Cardinality(ToCount \ {t}) = IF t \in ToCount THEN Cardinality(ToCount) - 1 ELSE Cardinality(ToCount)
        /\ Cardinality(ToLose \ {t}) = IF t \in ToLose THEN Cardinality(ToLose) - 1 ELSE Cardinality(ToLose)
    BY <1>4, OneLess
  <2> QED
    BY <1>3, <1>4, <2>1
<1>6. /\ Cardinality(Rows(doc.gen, "done"))' = Cardinality(Rows(doc.gen, "done"))
      /\ Cardinality(Rows(doc.gen, "failed"))' = Cardinality(Rows(doc.gen, "failed"))
      /\ Cardinality(Rows(doc.gen, "done")) \in Nat /\ Cardinality(Rows(doc.gen, "failed")) \in Nat
  <2>1. Rows(doc.gen, "done") \in SUBSET Page /\ Rows(doc.gen, "failed") \in SUBSET Page
    BY DEF Rows
  <2> QED
    BY <2>1, PagesFinite, SizeAssumption DEF Rows
<1>7. doc.done \in Nat /\ doc.failed \in Nat
  BY <1>1 DEF Doc
<1>8. Fits(0, 0) => Fits(0, 0)'
  BY <1>4, <1>5, <1>6, <1>7 DEF Fits, Match
<1> QED
  BY <1>8, CountMoves


LEMMA UncountedSteps ==
    ASSUME TypeOK, UNCHANGED doc
    PROVE  /\ UNCHANGED row => Uncounted
           /\ \A g \in Gen : Advance(g) => Uncounted
<1>1. ASSUME NEW g \in Gen, Advance(g), NEW p \in Page, NEW s \in {"done", "failed"}
      PROVE  row'[p].gen = doc.gen /\ row'[p].st = s <=> row[p].gen = doc.gen /\ row[p].st = s
  <2>1. row \in [Page -> Row]
    BY DEF TypeOK
  <2> QED
    BY <1>1, <2>1, AdvanceOne
<1>2. ASSUME NEW g \in Gen, Advance(g) PROVE Uncounted
  BY <1>1, <1>2 DEF Uncounted
<1> QED
  BY <1>2 DEF Uncounted

LEMMA CountElsewhere ==
    ASSUME TypeOK, GenInv, TurnInv, CountInv, NEW t \in tasks, t.gen # doc.gen, t.typ # "delete",
           Work(t) \/ Crash(t) \/ StrayPickup(t)
    PROVE  CountInv'
<1>1. UNCHANGED doc /\ \A p \in Page : row'[p].gen = row[p].gen /\ (row[p].gen # t.gen => row'[p].st = row[p].st)
  BY Elsewhere
<1>2. Uncounted /\ SameDue
  BY <1>1, WorkReqs DEF Uncounted, SameDue
<1>3. PICK R, new : Moves({t}, R, new) /\ Given(new, t)
  BY WorkSteady DEF Steady
<1>4. \A u \in R : u.gen # doc.gen
  BY <1>3 DEF Moves, Kin
<1> QED
  BY <1>2, <1>3, <1>4, CountPassing DEF Given

(* Tasks that are no workers finish no page.                               *)
LEMMA CountOther ==
    ASSUME TypeOK, GenInv, TurnInv, StatusInv, CountInv, NEW t \in tasks, t.typ \notin {"ocr", "render"},
           Work(t) \/ Crash(t) \/ StrayPickup(t), t.gen = doc.gen \/ t.typ = "delete"
    PROVE  CountInv'
<1>1. t \in Tasks /\ doc \in Doc /\ row \in [Page -> Row] /\ t.pc # "archived" /\ SameDue /\ (t.typ # "delete" => t.gen \in Gen)
  BY WorkLive, WorkReqs DEF TypeOK, WellFormed, SameDue
<1>2. PICK R, new : Moves({t}, R, new) /\ Given(new, t)
  BY WorkSteady DEF Steady
<1>3. ~Reads(t) /\ ~Loses(t) /\ \A u \in R : ~Reads(u) /\ ~Loses(u)
  BY <1>2 DEF Moves, Kin, Reads, Loses
<1>4. Uncounted => CountInv'
  BY <1>1, <1>2, <1>3, CountPassing DEF Given
<1>5. ASSUME UNCHANGED row, doc'.gen = doc.gen, doc'.exists = doc.exists, doc'.done = doc.done, doc'.failed = doc.failed
      PROVE  Uncounted
  BY <1>5 DEF Uncounted
<1>6. CASE UNCHANGED <<doc, row>>
  BY <1>4, <1>5, <1>6
<1>7. CASE SplitInit(t) /\ RowsAllowed
  <2>1. t.typ = "split" /\ t.gen = doc.gen /\ doc.exists /\ UNCHANGED doc
    BY <1>1, <1>7 DEF SplitInit, At, RowsAllowed
  <2>2. Blank
    BY <1>1, <2>1 DEF StatusInv, Hired
  <2>3. PICK s \in {"pending", "skipped"} : row' = FreshRows(t.gen, s)
    BY <1>7 DEF SplitInit
  <2>4. \A p \in Page : row'[p].st \in {"pending", "skipped"}
    BY <2>3 DEF FreshRows
  <2>5. \A p \in Page : row[p].gen = doc.gen => row[p].st \notin {"done", "failed"}
    BY <2>2 DEF Blank
  <2>6. Uncounted
    BY <2>1, <2>4, <2>5 DEF Uncounted
  <2> QED
    BY <1>4, <2>6
<1>8. CASE LastAdvance(t)
  BY <1>1, <1>4, <1>8, UncountedSteps DEF LastAdvance
<1>9. CASE DeletePurge(t)
  <2>1. ~doc'.exists
    BY <1>1, <1>9 DEF DeletePurge, Doc
  <2> QED
    BY <2>1 DEF CountInv
<1>10. ASSUME NEW g, NEW d, Update(g, d), UNCHANGED row, d.gen = doc.gen, d.exists = doc.exists, d.done = doc.done,
              d.failed = doc.failed
       PROVE  Uncounted
  <2>1. doc'.gen = doc.gen /\ doc'.exists = doc.exists /\ doc'.done = doc.done /\ doc'.failed = doc.failed
    BY <1>10 DEF Update
  <2> QED
    BY <1>5, <1>10, <2>1
<1>11. CASE SplitStart(t) \/ SplitReady(t) \/ SplitHeld(t)
  BY <1>1, <1>4, <1>10, <1>11 DEF SplitStart, SplitReady, SplitHeld, Doc
<1>12. CASE AssembleStart(t) \/ TreeSettle(t) \/ IndexFails(t)
  BY <1>1, <1>4, <1>6, <1>10, <1>12 DEF AssembleStart, TreeSettle, IndexFails, Doc
<1>13. FailDoc(t.gen) /\ UNCHANGED row => Uncounted
  BY <1>1, <1>10 DEF FailDoc, Doc
<1>14. CASE SplitProbeFails(t)
  BY <1>4, <1>6, <1>13, <1>14 DEF SplitProbeFails
<1>15. CASE AssembleDecide(t)
  <2>1. ASSUME Update(t.gen, [doc EXCEPT !.status = "indexing", !.parse = IF doc.failed > 0 THEN "partial" ELSE "done"])
        PROVE  CountInv'
    BY <1>1, <1>4, <1>10, <1>15, <2>1 DEF AssembleDecide, Doc
  <2> QED
    BY <1>4, <1>6, <1>13, <1>15, <2>1 DEF AssembleDecide
<1> QED
  BY <1>6, <1>7, <1>8, <1>9, <1>11, <1>12, <1>14, <1>15
     DEF Work, Crash, StrayPickup, Drop, SplitInit, RenderStart, RenderEmit, RenderAdvance, RenderFails, RenderGiveUp,
         RenderCount, FailedAdvance, OcrStart, OcrSave, OcrRetry, OcrFail, OcrCount, OcrCountFailed, AssembleHandover,
         IndexBuild, TreeStart, GenCleanup, DeleteObjects, Starts, At

LEMMA CountDied ==
    ASSUME Either, TypeOK, GenInv, CountInv, NEW t \in tasks, t.typ \in {"ocr", "render"} \cap Crashable,
           NEW R, Moves({t}, R, {}), \A u \in R : ~Reads(u) /\ ~Loses(u), UNCHANGED <<doc, row, reqs>>
    PROVE  CountInv'
<1>1. ~Careful
  BY DEF Careful
<1>2. ~Asked(doc.gen)
  BY <1>1 DEF Either, GenInv, AsAsked, Asked
<1> QED
  BY <1>1, <1>2, CountDies


LEMMA CountOcr ==
    ASSUME Either, TypeOK, GenInv, WorkerInv, QuietInv, CountInv, doc.exists, NEW t \in tasks, t.typ = "ocr",
           t.pc # "archived", t.gen = doc.gen,
           OcrStart(t) \/ OcrSave(t) \/ OcrRetry(t) \/ OcrFail(t) \/ OcrCount(t) \/ OcrCountFailed(t)
    PROVE  CountInv'
<1>1. t \in Tasks /\ doc \in Doc /\ row \in [Page -> Row] /\ IsFiniteSet(tasks) /\ UNCHANGED reqs
  BY DEF TypeOK, WellFormed, GenInv, OcrStart, OcrSave, OcrRetry, OcrFail, OcrCount, OcrCountFailed
<1>2. Worker(t) /\ OcrHand(t) /\ Own(t)
  BY DEF Worker, WorkerInv, InHand
<1>3. ~Asked(doc.gen)
  BY DEF QuietInv, Asked, Nobody, Hired
<1>4. UNCHANGED <<doc, row>> => Uncounted
  BY UncountedSteps
<1>5. CASE OcrStart(t)
  <2>1. ~Reads(t) /\ ~Loses(t)
    BY <1>5 DEF OcrStart, Starts, At, Reads, Loses
  <2>2. Goto(t, "read") \/ Ack(t, {})
    BY <1>5 DEF OcrStart
  <2> QED
    BY <1>1, <1>4, <1>5, <2>1, <2>2, CountQueued, NoneBatched DEF OcrStart, Steps
<1>6. CASE OcrRetry(t)
  BY <1>1, <1>4, <1>6, CountQueued DEF OcrRetry, At, Reads, Loses
<1>7. ASSUME t.pc = "read", NEW pc \in {"count", "count_failed"}, NEW s, s = IF pc = "count" THEN "done" ELSE "failed",
             SetPage(t.page, t.gen, s), Goto(t, pc), UNCHANGED doc
      PROVE  CountInv'
  <2>1. t.page \in Page /\ row[t.page].gen = doc.gen /\ row[t.page].st \in Busy
    BY <1>1, <1>2, <1>7 DEF OcrHand, Own, Tasks, Busy
  <2>2. ~Reads(t) /\ ~Loses(t) /\ pc \in Steps
    BY <1>7 DEF Reads, Loses, Steps
  <2>3. PICK u : u = [t EXCEPT !.pc = pc]
    OBVIOUS
  <2>4. IF s = "done" THEN Reads(u) ELSE Loses(u)
    BY <1>1, <1>7, <2>2, <2>3, PcKin DEF Reads, Loses, Kin
  <2>5. PICK p \in Page : p = t.page
    BY <2>1
  <2> QED
    BY <1>1, <1>3, <1>7, <2>1, <2>2, <2>3, <2>4, <2>5, CountFinish
<1>8. CASE OcrSave(t)
  <2>1. row[t.page].gen = t.gen
    BY <1>2 DEF OcrHand, Own
  <2> QED
    BY <1>7, <1>8, <2>1 DEF OcrSave, At
<1>9. CASE OcrFail(t)
  BY <1>7, <1>9 DEF OcrFail, At
<1>10. ASSUME Reads(t) \/ Loses(t), CountPage(t.gen, IF Reads(t) THEN "done" ELSE "failed"),
              NEW pc \in {"advance", "give_up"}, Goto(t, pc), UNCHANGED row
       PROVE  CountInv'
  <2>1. PICK u : u = [t EXCEPT !.pc = pc]
    OBVIOUS
  <2>2. Kin(u, t) /\ ~Reads(u) /\ ~Loses(u)
    BY <1>1, <2>1, PcKin DEF Steps, Reads, Loses
  <2> QED
    BY <1>1, <1>3, <1>10, <2>1, <2>2, CountCounts DEF Goto
<1>11. CASE OcrCount(t)
  <2>1. Reads(t) /\ CountPage(t.gen, "done") /\ UNCHANGED row
    BY <1>11 DEF OcrCount, At, Reads
  <2>2. Goto(t, "advance")
    BY <1>11 DEF OcrCount, Counted
  <2> QED
    BY <1>10, <2>1, <2>2
<1>12. CASE OcrCountFailed(t)
  <2>1. ~Reads(t) /\ Loses(t) /\ CountPage(t.gen, "failed") /\ UNCHANGED row
    BY <1>12 DEF OcrCountFailed, At, Reads, Loses
  <2>2. Goto(t, "give_up")
    BY <1>12 DEF OcrCountFailed
  <2> QED
    BY <1>10, <2>1, <2>2
<1> QED
  BY <1>5, <1>6, <1>8, <1>9, <1>11, <1>12

LEMMA CountRender ==
    ASSUME Either, TypeOK, GenInv, WorkerInv, QuietInv, CountInv, doc.exists, NEW t \in tasks, t.typ = "render",
           t.pc # "archived", t.gen = doc.gen,
           RenderStart(t) \/ RenderEmit(t) \/ RenderAdvance(t) \/ RenderFails(t) \/ RenderGiveUp(t) \/ RenderCount(t)
    PROVE  CountInv'
<1>1. /\ t \in Tasks /\ doc \in Doc /\ doc.gen \in Gen /\ row \in [Page -> Row] /\ IsFiniteSet(tasks) /\ UNCHANGED reqs
  BY DEF TypeOK, WellFormed, Doc, GenInv, RenderStart, RenderEmit, RenderAdvance, RenderFails, RenderGiveUp, RenderCount
<1>2. Worker(t) /\ RenderHand(t) /\ Own(t)
  BY DEF Worker, WorkerInv, InHand
<1>3. ~Asked(doc.gen) /\ SameDue
  BY <1>1 DEF QuietInv, Asked, Nobody, Hired, SameDue
<1>4. UNCHANGED doc => (UNCHANGED row => Uncounted) /\ (Advance(doc.gen) => Uncounted)
  BY <1>1, UncountedSteps
<1>5. Batched(NewTasks(t.gen), t.gen)
  BY <1>1, NewTasksBatched
<1>6. ASSUME Uncounted, t.pc # "count", NEW u, Kin(u, t), u.pc # "count", NEW new, NEW g, Batched(new, g),
             tasks' = Enqueue(new, Others(t) \cup {u})
      PROVE  CountInv'
  <2>1. Moves({t}, {u}, new)
    BY <1>6, OneMoves
  <2>2. ~Reads(t) /\ ~Loses(t) /\ ~Reads(u) /\ ~Loses(u)
    BY <1>6 DEF Reads, Loses, Kin
  <2> QED
    BY <1>3, <1>6, <2>1, <2>2, CountPassing
<1>8. t.left \in SUBSET Page /\ t.todo \in SUBSET Page /\ t.pages \in SUBSET Page /\ t.typ = "render"
  BY <1>1 DEF Tasks
<1>9. ~Reads(t) /\ (t.pc # "count" => ~Loses(t))
  BY DEF Reads, Loses
<1>10. \A T : Enqueue({}, T) = T
  BY EnqueueNone
<1>11. CASE RenderStart(t)
  <2>1. Uncounted /\ t.pc = "queued"
    BY <1>4, <1>11 DEF RenderStart, Starts, At
  <2>2. CASE Ack(t, {})
    BY <1>1, <1>9, <2>1, <2>2, CountQueued, NoneBatched
  <2>3. CASE ~Ack(t, {})
    <3>1. PICK todo \in SUBSET Page : tasks' = Others(t) \cup {[t EXCEPT !.pc = "emit", !.todo = todo, !.left = todo]}
      BY <1>8, <1>11, <2>3 DEF RenderStart, StillRendering
    <3>2. PICK u : u = [t EXCEPT !.pc = "emit", !.todo = todo, !.left = todo] /\ Kin(u, t) /\ u.pc = "emit"
      <4>1. LET u == [t EXCEPT !.pc = "emit", !.todo = todo, !.left = todo] IN Kin(u, t) /\ u.pc = "emit"
        BY <1>1, <3>1 DEF Kin, Tasks, Steps
      <4> QED
        BY <4>1
    <3> QED
      BY <1>6, <1>10, <2>1, <3>1, <3>2, NoneBatched
  <2> QED
    BY <2>2, <2>3
<1>12. CASE RenderEmit(t)
  <2>1. t.pc = "emit" /\ t.left # {}
    BY <1>2, <1>12 DEF RenderEmit, At, RenderHand
  <2>2. PICK p \in t.left : row' = IF row[p].gen = t.gen THEN [row EXCEPT ![p].st = "rendered", ![p].img = TRUE] ELSE row
    BY <1>8, <1>12, <2>1, LeastIn DEF RenderEmit
  <2>3. row[p].gen = t.gen => row[p].st = "rendering"
    BY <1>2, <2>1, <2>2 DEF RenderHand
  <2>4. UNCHANGED doc
    BY <1>12 DEF RenderEmit
  <2>5. ASSUME NEW q \in Page, NEW s \in {"done", "failed"}
        PROVE  row'[q].gen = doc.gen /\ row'[q].st = s <=> row[q].gen = doc.gen /\ row[q].st = s
    BY <1>1, <1>8, <2>2, <2>3, <2>5 DEF Row
  <2>6. Uncounted
    BY <2>4, <2>5 DEF Uncounted
  <2>7. PICK l \in SUBSET Page : tasks' = Others(t) \cup {[t EXCEPT !.pc = "advance", !.left = l]}
    BY <1>8, <1>12 DEF RenderEmit
  <2>8. PICK u : u = [t EXCEPT !.pc = "advance", !.left = l] /\ Kin(u, t) /\ u.pc = "advance"
    <3>1. LET u == [t EXCEPT !.pc = "advance", !.left = l] IN Kin(u, t) /\ u.pc = "advance"
      BY <1>1 DEF Kin, Tasks, Steps
    <3> QED
      BY <3>1
  <2> QED
    BY <1>6, <1>10, <2>1, <2>6, <2>7, <2>8, NoneBatched
<1>13. CASE RenderAdvance(t)
  <2>1. Uncounted /\ t.pc = "advance"
    BY <1>4, <1>13 DEF RenderAdvance, At
  <2>2. CASE Ack(t, NewTasks(t.gen))
    BY <1>1, <1>5, <1>9, <2>1, <2>2, CountQueued
  <2>3. CASE ~Ack(t, NewTasks(t.gen))
    <3>1. tasks' = Enqueue(NewTasks(t.gen), Others(t) \cup {[t EXCEPT !.pc = "emit"]})
      BY <1>13, <2>3 DEF RenderAdvance
    <3>2. PICK u : u = [t EXCEPT !.pc = "emit"] /\ Kin(u, t) /\ u.pc = "emit"
      <4>1. LET u == [t EXCEPT !.pc = "emit"] IN Kin(u, t) /\ u.pc = "emit"
        BY <1>1, PcKin DEF Steps
      <4> QED
        BY <4>1
    <3> QED
      BY <1>5, <1>6, <2>1, <3>1, <3>2
  <2> QED
    BY <2>2, <2>3
<1>14. CASE RenderFails(t)
  <2>1. Uncounted /\ t.pc = "emit"
    BY <1>4, <1>14 DEF RenderFails, At
  <2>2. CASE Error(t) \/ DeadLetter(t)
    BY <1>1, <1>9, <2>1, <2>2, CountQueued
  <2>3. CASE tasks' = Others(t) \cup {[t EXCEPT !.pc = "give_up", !.left = t.todo]}
    <3>1. PICK u : u = [t EXCEPT !.pc = "give_up", !.left = t.todo] /\ Kin(u, t) /\ u.pc = "give_up"
      <4>1. LET u == [t EXCEPT !.pc = "give_up", !.left = t.todo] IN Kin(u, t) /\ u.pc = "give_up"
        BY <1>1, <1>8 DEF Kin, Tasks, Steps
      <4> QED
        BY <4>1
    <3> QED
      BY <1>6, <1>10, <2>1, <2>3, <3>1, NoneBatched
  <2> QED
    BY <1>14, <2>2, <2>3 DEF RenderFails
<1>15. CASE RenderGiveUp(t)
  <2>1. t.pc = "give_up" /\ t.left # {} /\ UNCHANGED doc
    BY <1>15 DEF RenderGiveUp, At
  <2>2. PICK p \in t.left : \/ row[p].st = "rendering" /\ SetPage(p, t.gen, "failed") /\ Goto(t, "count")
                            \/ tasks' = Others(t) \cup {[t EXCEPT !.left = @ \ {p}]} /\ UNCHANGED row
    BY <1>8, <1>15, <2>1, LeastIn DEF RenderGiveUp
  <2>3. CASE row[p].st = "rendering" /\ SetPage(p, t.gen, "failed") /\ Goto(t, "count")
    <3>1. p \in Page /\ row[p].gen = doc.gen /\ row[p].st \in Busy
      BY <1>2, <1>8, <2>3 DEF RenderHand, Own, Busy
    <3>2. PICK u : u = [t EXCEPT !.pc = "count"] /\ Kin(u, t) /\ u.pc = "count"
      <4>1. LET u == [t EXCEPT !.pc = "count"] IN Kin(u, t) /\ u.pc = "count"
        BY <1>1, PcKin DEF Steps
      <4> QED
        BY <4>1
    <3>3. Loses(u) /\ "count" \in Steps
      BY <3>2 DEF Loses, Kin, Steps
    <3> QED
      BY <1>1, <1>3, <1>9, <2>1, <2>3, <3>1, <3>2, <3>3, CountFinish
  <2>4. CASE tasks' = Others(t) \cup {[t EXCEPT !.left = @ \ {p}]} /\ UNCHANGED row
    <3>1. PICK u : u = [t EXCEPT !.left = @ \ {p}] /\ Kin(u, t) /\ u.pc = "give_up"
      <4>1. LET u == [t EXCEPT !.left = @ \ {p}] IN Kin(u, t) /\ u.pc = "give_up"
        BY <1>1, <1>8, <2>1 DEF Kin, Tasks
      <4> QED
        BY <4>1
    <3> QED
      BY <1>4, <1>6, <1>10, <2>1, <2>4, <3>1, NoneBatched
  <2> QED
    BY <2>2, <2>3, <2>4
<1>16. CASE RenderCount(t)
  <2>1. t.pc = "count" /\ CountPage(t.gen, "failed") /\ UNCHANGED row /\ ~Reads(t) /\ Loses(t)
    BY <1>9, <1>16 DEF RenderCount, At, Loses
  <2>2. PICK l \in SUBSET Page : tasks' = Others(t) \cup {[t EXCEPT !.pc = "give_up", !.left = l]}
    BY <1>8, <1>16 DEF RenderCount
  <2>3. PICK u : u = [t EXCEPT !.pc = "give_up", !.left = l] /\ Kin(u, t) /\ u.pc = "give_up"
    <3>1. LET u == [t EXCEPT !.pc = "give_up", !.left = l] IN Kin(u, t) /\ u.pc = "give_up"
      BY <1>1 DEF Kin, Tasks, Steps
    <3> QED
      BY <3>1
  <2>4. ~Reads(u) /\ ~Loses(u)
    BY <2>3 DEF Reads, Loses
  <2> QED
    BY <1>1, <1>3, <2>1, <2>2, <2>3, <2>4, CountCounts
<1> QED
  BY <1>11, <1>12, <1>13, <1>14, <1>15, <1>16


LEMMA CountWork ==
    ASSUME Either, PipeInv, CountInv, NEW t \in tasks, Work(t) \/ Crash(t) \/ StrayPickup(t)
    PROVE  CountInv'
<1>1. /\ TypeOK /\ GenInv /\ TurnInv /\ WorkerInv /\ StatusInv /\ QuietInv
      /\ t \in Tasks /\ t.pc # "archived" /\ UNCHANGED reqs /\ (t.typ # "delete" => t.gen \in Gen)
  BY WorkLive, WorkReqs DEF PipeInv, TypeOK, WellFormed
<1>2. CASE ~doc.exists
  <2>1. ~doc'.exists
    BY <1>1, <1>2, WorkGen
  <2> QED
    BY <2>1 DEF CountInv
<1>3. CASE t.gen # doc.gen /\ t.typ # "delete"
  BY <1>1, <1>3, CountElsewhere
<1>4. CASE t.typ \notin {"ocr", "render"} /\ (t.gen = doc.gen \/ t.typ = "delete")
  BY <1>1, <1>4, CountOther
<1>5. CASE t.typ \in {"ocr", "render"} /\ t.gen = doc.gen /\ doc.exists
  <2>1. UNCHANGED doc => (UNCHANGED row => Uncounted) /\ (Advance(t.gen) => Uncounted)
    BY <1>1, <1>5, UncountedSteps
  <2>2. Batched(NewTasks(t.gen), t.gen)
    BY <1>1, <1>5, NewTasksBatched DEF TypeOK
  <2>3. t.pc \in {"queued", "advance", "give_up"} => ~Reads(t) /\ ~Loses(t)
    BY DEF Reads, Loses
  <2>4. CASE Crash(t)
    <3>1. Moves({t}, Errored(t), {}) /\ t.typ \in Crashable /\ \A u \in Errored(t) : ~Reads(u) /\ ~Loses(u)
      BY <1>1, <2>4, EnqueueNone, ErroredKin DEF Crash, CanCrash, Moves, Others, Reads, Loses
    <3>2. UNCHANGED <<doc, row, reqs>>
      BY <2>4 DEF Crash
    <3>3. t.typ \in {"ocr", "render"} \cap Crashable
      BY <1>5, <3>1
    <3> QED
      BY <1>1, <3>1, <3>2, <3>3, CountDied
  <2>5. CASE StrayPickup(t)
    <3>1. Moves({t}, {}, {}) /\ Uncounted /\ SameDue /\ t.pc = "queued"
      BY <1>1, <2>1, <2>5, EnqueueNone DEF StrayPickup, Moves, Others, At, SameDue
    <3> QED
      BY <1>1, <2>3, <3>1, CountPassing, NoneBatched
  <2>6. CASE Drop(t)
    <3>1. Ack(t, {}) /\ Uncounted /\ t.pc = "queued"
      BY <2>1, <2>6 DEF Drop
    <3> QED
      BY <1>1, <2>3, <3>1, CountQueued, NoneBatched
  <2>7. CASE LastAdvance(t)
    <3>1. Ack(t, NewTasks(t.gen)) /\ Uncounted /\ t.pc = "advance"
      BY <2>1, <2>7 DEF LastAdvance
    <3> QED
      BY <1>1, <2>2, <2>3, <3>1, CountQueued
  <2>8. CASE FailedAdvance(t)
    <3>1. tasks' = Enqueue(NewTasks(t.gen), Others(t) \cup Archived(t)) /\ Uncounted /\ t.pc = "give_up"
      BY <2>1, <2>8 DEF FailedAdvance, At
    <3> QED
      BY <1>1, <2>2, <2>3, <3>1, CountQueued
  <2>9. CASE OcrStart(t) \/ OcrSave(t) \/ OcrRetry(t) \/ OcrFail(t) \/ OcrCount(t) \/ OcrCountFailed(t)
    BY <1>1, <1>5, <2>9, CountOcr DEF OcrStart, OcrSave, OcrRetry, OcrFail, OcrCount, OcrCountFailed, At, Starts
  <2>10. CASE RenderStart(t) \/ RenderEmit(t) \/ RenderAdvance(t) \/ RenderFails(t) \/ RenderGiveUp(t) \/ RenderCount(t)
    BY <1>1, <1>5, <2>10, CountRender
       DEF RenderStart, RenderEmit, RenderAdvance, RenderFails, RenderGiveUp, RenderCount, At, Starts
  <2> QED
    BY <1>5, <2>4, <2>5, <2>6, <2>7, <2>8, <2>9, <2>10
       DEF Work, SplitStart, SplitInit, SplitProbeFails, SplitReady, SplitHeld, AssembleStart, AssembleDecide,
           AssembleHandover, IndexBuild, TreeStart, TreeSettle, IndexFails, GenCleanup, DeleteObjects, DeletePurge,
           At, Starts
<1> QED
  BY <1>2, <1>3, <1>4, <1>5

-----------------------------------------------------------------------------
(* The steps of housekeeping and users.                                    *)

LEMMA CountEnqueue ==
    ASSUME TypeOK, GenInv, CountInv, Uncounted, SameDue, NEW new, NEW g, Batched(new, g), tasks' = Enqueue(new, tasks)
    PROVE  CountInv'
<1>1. Moves({}, {}, new)
  BY NoTaskMoves
<1>2. \A t \in {} : t.gen = doc.gen => ~Reads(t) /\ ~Loses(t)
  OBVIOUS
<1> QED
  BY <1>1, <1>2, CountPassing

LEMMA CountHousekeeping ==
    ASSUME TypeOK, GenInv, CountInv, Housekeeping
    PROVE  CountInv'
<1>1. /\ row \in [Page -> Row] /\ doc.gen \in Gen /\ SameDue /\ UNCHANGED doc
      /\ (UNCHANGED row => Uncounted) /\ (Advance(doc.gen) => Uncounted)
  <2>1. UNCHANGED <<doc, reqs>>
    BY DEF Housekeeping, HkReset, HkAdvance, HkDispatch, HkDelete
  <2> QED
    BY <2>1, UncountedSteps DEF TypeOK, Doc, SameDue
<1>2. ASSUME NEW p \in Page, HkReset(p) PROVE CountInv'
  <2>1. ASSUME NEW q \in Page, NEW s \in {"done", "failed"}
        PROVE  row'[q].gen = doc.gen /\ row'[q].st = s <=> row[q].gen = doc.gen /\ row[q].st = s
    BY <1>1, <1>2, <2>1 DEF HkReset, Row
  <2>2. Uncounted
    BY <1>1, <2>1 DEF Uncounted
  <2>3. tasks' = Enqueue({}, tasks)
    BY <1>2, EnqueueNone DEF HkReset
  <2> QED
    BY <1>1, <2>2, <2>3, CountEnqueue, NoneBatched
<1>3. CASE HkAdvance
  BY <1>1, <1>3, CountEnqueue, NewTasksBatched DEF HkAdvance
<1>4. ASSUME NEW s, NEW typ, NEW b, HkDispatch(s, typ, b) PROVE CountInv'
  BY <1>1, <1>4, CountEnqueue, DocTaskBatched DEF HkDispatch
<1>5. ASSUME NEW b, HkDelete(b) PROVE CountInv'
  BY <1>1, <1>5, CountEnqueue, DocTaskBatched DEF HkDelete
<1> QED
  BY <1>2, <1>3, <1>4, <1>5 DEF Housekeeping

LEMMA CountAsk ==
    ASSUME TypeOK, GenInv, CountInv, Ask
    PROVE  CountInv'
<1>1. doc \in Doc /\ doc.gen \in Nat /\ tasks' = Enqueue({}, tasks)
  BY SizeAssumption, EnqueueNone DEF TypeOK, Doc, Gen, Ask, CancelCheck, DeleteMark, ReparseBump, PagesCheck
<1>2. ASSUME NEW op, NEW g, NEW P, NEW pc, Opens(op, g, P, pc), op # "pages" \/ pc # "adjust", UNCHANGED row,
             doc'.gen = doc.gen, doc'.exists = doc.exists, doc'.done = doc.done, doc'.failed = doc.failed
      PROVE  CountInv'
  <2>1. ~Due(Request(op, g, P, pc))
    BY <1>2 DEF Due, Request
  <2>2. SameDue /\ Uncounted
    BY <1>2, <2>1 DEF Opens, SameDue, Uncounted
  <2> QED
    BY <1>1, <2>2, CountEnqueue, NoneBatched
<1>3. CASE CancelCheck
  BY <1>2, <1>3 DEF CancelCheck, Open, Opens
<1>4. CASE DeleteMark
  BY <1>1, <1>2, <1>4 DEF DeleteMark, Open, Opens, Doc
<1>5. ASSUME NEW P, PagesCheck(P) PROVE CountInv'
  BY <1>2, <1>5 DEF PagesCheck, Open, Opens
<1>6. CASE ReparseBump
  <2>1. /\ doc'.gen = doc.gen + 1 /\ doc'.done = 0 /\ doc'.failed = 0 /\ UNCHANGED <<row, tasks>>
    BY <1>1, <1>6 DEF ReparseBump, Doc
  <2>2. /\ \A t \in tasks : t.gen # doc'.gen
        /\ \A r \in reqs : r.gen # doc'.gen
        /\ \A p \in Page : row[p].gen # doc'.gen
    <3>1. (\A t \in tasks : t.gen \in Int) /\ (\A r \in reqs : r.gen \in Int) /\ \A p \in Page : row[p].gen \in Int
      BY SizeAssumption DEF TypeOK, WellFormed, Tasks, Reqs, Row, Gen
    <3> QED
      BY <1>1, <2>1, <3>1 DEF GenInv, NoneAhead
  <2>3. ToCount' = {} /\ ToLose' = {} /\ Rows(doc.gen, "done")' = {} /\ Rows(doc.gen, "failed")' = {}
    BY <2>1, <2>2 DEF ToCount, ToLose, Rows
  <2>4. Fits(0, 0)'
    BY <2>1, <2>3, FS_EmptySet DEF Fits, Match
  <2>5. \A r \in reqs' : ~Due(r)'
    <3>1. Request("reparse", doc.gen + 1, {}, "enqueue").op = "reparse"
      BY DEF Request
    <3> QED
      BY <1>6, <2>1, <2>2, <3>1 DEF ReparseBump, Open, Due
  <2> QED
    BY <2>4, <2>5 DEF CountInv
<1> QED
  BY <1>3, <1>4, <1>5, <1>6 DEF Ask

(* Pages taken back are owed to the counters.                              *)
LEMMA CountReset ==
    ASSUME TypeOK, TurnInv, CountInv, doc.exists, NEW r \in reqs, r.gen = doc.gen, PagesReset(r)
    PROVE  CountInv'
<1> DEFINE hit == {p \in r.pages : row[p].gen = r.gen}
           hitDone == {p \in hit : row[p].st = "done"}
           hitFailed == {p \in hit : row[p].st = "failed"}
<1>1. /\ r \in Reqs /\ r.op = "pages" /\ r.pc = "reset" /\ row \in [Page -> Row] /\ doc \in Doc /\ r.pages \in SUBSET Page
      /\ UNCHANGED <<doc, tasks>>
  BY DEF TypeOK, PagesReset, In, Reqs
<1>2. \A x \in reqs : ~Due(x)
  BY <1>1 DEF TurnInv, OnePages, Due
<1>3. Fits(0, 0)
  BY <1>2 DEF CountInv
<1>4. PICK q : q = [r EXCEPT !.pc = "adjust", !.done = Cardinality(hitDone), !.failed = Cardinality(hitFailed)]
  OBVIOUS
<1>5. q.op = "pages" /\ q.gen = doc.gen /\ q.pc = "adjust" /\ q.done = Cardinality(hitDone) /\ q.failed = Cardinality(hitFailed)
  BY <1>1, <1>4 DEF Reqs
<1>6. reqs' = (reqs \ {r}) \cup {q}
  BY <1>4 DEF PagesReset
<1>7. \A x \in reqs' : Due(x)' => x = q
  BY <1>1, <1>6 DEF TurnInv, OnePages, Due
<1>8. q \in reqs' /\ Due(q)'
  BY <1>1, <1>5, <1>6 DEF Due
<1>9. \A p \in Page : /\ p \notin hit => row'[p] = row[p]
                      /\ p \in hit => row'[p].gen = row[p].gen /\ row'[p].st \in {"rendered", "pending"}
  BY <1>1 DEF PagesReset, Row
<1>10. /\ Rows(doc.gen, "done")' = Rows(doc.gen, "done") \ hitDone
       /\ Rows(doc.gen, "failed")' = Rows(doc.gen, "failed") \ hitFailed
       /\ hitDone \subseteq Rows(doc.gen, "done") /\ hitFailed \subseteq Rows(doc.gen, "failed")
  BY <1>1, <1>9 DEF Rows
<1> HIDE DEF hit, hitDone, hitFailed
<1>11. ASSUME NEW S \in SUBSET Page, NEW T \in SUBSET S
       PROVE  /\ Cardinality(S \ T) = Cardinality(S) - Cardinality(T)
              /\ Cardinality(S) \in Nat /\ Cardinality(T) \in Nat
  <2>1. IsFiniteSet(S) /\ IsFiniteSet(T) /\ Cardinality(S) \in 0..N /\ Cardinality(T) \in 0..N
    BY PagesFinite
  <2>2. Cardinality(S \ T) = Cardinality(S) - Cardinality(S \cap T) /\ S \cap T = T
    BY <2>1, FS_Difference
  <2> QED
    BY <2>1, <2>2, SizeAssumption
<1>12. Rows(doc.gen, "done") \in SUBSET Page /\ Rows(doc.gen, "failed") \in SUBSET Page
  BY DEF Rows
<1>13. /\ Cardinality(Rows(doc.gen, "done"))' = Cardinality(Rows(doc.gen, "done")) - q.done
       /\ Cardinality(Rows(doc.gen, "failed"))' = Cardinality(Rows(doc.gen, "failed")) - q.failed
       /\ Cardinality(Rows(doc.gen, "done")) \in Nat /\ Cardinality(Rows(doc.gen, "failed")) \in Nat
       /\ q.done \in Nat /\ q.failed \in Nat
  <2>1. /\ Cardinality(Rows(doc.gen, "done") \ hitDone) = Cardinality(Rows(doc.gen, "done")) - Cardinality(hitDone)
        /\ Cardinality(Rows(doc.gen, "done")) \in Nat /\ Cardinality(hitDone) \in Nat
    BY <1>10, <1>11, <1>12
  <2>2. /\ Cardinality(Rows(doc.gen, "failed") \ hitFailed) = Cardinality(Rows(doc.gen, "failed")) - Cardinality(hitFailed)
        /\ Cardinality(Rows(doc.gen, "failed")) \in Nat /\ Cardinality(hitFailed) \in Nat
    BY <1>10, <1>11, <1>12
  <2> QED
    BY <1>5, <1>10, <2>1, <2>2
<1>14. ToCount' = ToCount /\ ToLose' = ToLose
  BY <1>1 DEF ToCount, ToLose
<1>15. Fits(0, 0) => Fits(q.done, q.failed)'
  <2>1. \A c, d, e : Match(c, d + 0) /\ d \in Nat /\ e \in Nat => Match(c, (d - e) + e)
    <3>1. \A d, e \in Nat : d + 0 = (d - e) + e
      OBVIOUS
    <3> QED
      BY <3>1
  <2> QED
    BY <1>1, <1>13, <1>14, <2>1 DEF Fits
<1> QED
  BY <1>3, <1>7, <1>8, <1>15 DEF CountInv

(* The debt is paid: while pages are asked for nobody works, so there is   *)
(* no finisher to clash with.                                              *)
LEMMA CountAdjust ==
    ASSUME Careful, TypeOK, GenInv, TurnInv, QuietInv, CountInv, doc.exists, NEW r \in reqs, r.gen = doc.gen, PagesAdjust(r)
    PROVE  CountInv'
<1>1. r \in Reqs /\ Due(r) /\ r.op = "pages" /\ doc \in Doc /\ IsFiniteSet(tasks) /\ UNCHANGED <<row, tasks>>
  BY DEF TypeOK, PagesAdjust, In, GenInv, Due
<1>2. ToCount = {} /\ ToLose = {}
  BY <1>1 DEF QuietInv, Nobody, Hired, ToCount, ToLose, Reads, Loses
<1>3. Cardinality(ToCount) = 0 /\ Cardinality(ToLose) = 0
  BY <1>2, FS_EmptySet
<1>4. doc.done \in Nat /\ doc.failed \in Nat /\ r.done \in Nat /\ r.failed \in Nat
  BY <1>1 DEF Doc, Reqs
<1>5. /\ Cardinality(Rows(doc.gen, "done")) \in Nat /\ Cardinality(Rows(doc.gen, "failed")) \in Nat
  <2>1. Rows(doc.gen, "done") \in SUBSET Page /\ Rows(doc.gen, "failed") \in SUBSET Page
    BY DEF Rows
  <2> QED
    BY <2>1, PagesFinite, SizeAssumption
<1>6. /\ doc.done = Cardinality(Rows(doc.gen, "done")) + r.done
      /\ doc.failed = Cardinality(Rows(doc.gen, "failed")) + r.failed
  BY <1>1, <1>3, <1>4 DEF CountInv, Fits, Match
<1>7. /\ doc'.gen = doc.gen /\ doc'.exists = doc.exists
      /\ doc'.done = Minus(doc.done, r.done) /\ doc'.failed = Minus(doc.failed, r.failed)
  BY <1>1 DEF PagesAdjust, Counted, Doc
<1>8. /\ doc'.done = Cardinality(Rows(doc.gen, "done")) /\ doc'.failed = Cardinality(Rows(doc.gen, "failed"))
  BY <1>4, <1>5, <1>6, <1>7 DEF Minus
<1>9. Rows(doc.gen, "done")' = Rows(doc.gen, "done") /\ Rows(doc.gen, "failed")' = Rows(doc.gen, "failed")
  BY <1>1, <1>7 DEF Rows
<1>10. ToCount' = {} /\ ToLose' = {}
  BY <1>1, <1>2, <1>7 DEF ToCount, ToLose
<1>11. Fits(0, 0)'
  <2>1. Cardinality(ToCount)' = 0 /\ Cardinality(ToLose)' = 0
    BY <1>10, FS_EmptySet
  <2> QED
    BY <1>5, <1>8, <1>9, <2>1 DEF Fits, Match
<1>12. \A x \in reqs' : ~Due(x)'
  <2>1. LET q == [r EXCEPT !.pc = "pick"] IN q.pc = "pick"
    BY <1>1 DEF Reqs
  <2>2. \A x \in reqs' : x \in reqs \ {r} \/ x.pc = "pick"
    BY <2>1 DEF PagesAdjust, Serve
  <2> QED
    BY <1>1, <2>2 DEF TurnInv, OnePages, Due
<1> QED
  BY <1>11, <1>12 DEF CountInv

LEMMA CountServe ==
    ASSUME Either, PipeInv, CountInv, NEW r \in reqs, ServeStep(r) \/ RequestDies(r)
    PROVE  CountInv'
<1>1. /\ TypeOK /\ GenInv /\ TurnInv /\ QuietInv
      /\ r \in Reqs /\ r.gen \in Gen /\ doc \in Doc /\ row \in [Page -> Row]
  BY DEF PipeInv, TypeOK, Reqs
<1>2. (UNCHANGED <<doc, row>> => Uncounted) /\ (UNCHANGED doc /\ Advance(r.gen) => Uncounted)
  BY <1>1, UncountedSteps
<1>3. ASSUME Uncounted, SameDue, UNCHANGED tasks PROVE CountInv'
  <2>1. tasks' = Enqueue({}, tasks)
    BY <1>3, EnqueueNone
  <2> QED
    BY <1>1, <1>3, <2>1, CountEnqueue, NoneBatched
<1>4. ASSUME ~Due(r), reqs' = reqs \ {r} PROVE SameDue
  BY <1>4 DEF SameDue
<1>5. ASSUME ~Due(r), NEW pc \in {"pick", "parse", "advance"}, Serve(r, pc) PROVE SameDue
  <2>1. LET q == [r EXCEPT !.pc = pc] IN q.pc = pc
    BY <1>1 DEF Reqs
  <2>2. PICK q : reqs' = (reqs \ {r}) \cup {q} /\ q.pc = pc
    BY <1>5, <2>1 DEF Serve
  <2> QED
    BY <1>5, <2>2 DEF SameDue, Due
<1>6. ASSUME UNCHANGED row, doc'.gen = doc.gen, doc'.exists = doc.exists, doc'.done = doc.done, doc'.failed = doc.failed
      PROVE  Uncounted
  BY <1>6 DEF Uncounted
<1>7. CASE CancelWrite(r)
  <2>1. doc'.gen = doc.gen /\ doc'.exists = doc.exists /\ doc'.done = doc.done /\ doc'.failed = doc.failed
    BY <1>1, <1>7 DEF CancelWrite, Doc
  <2> QED
    BY <1>3, <1>4, <1>6, <1>7, <2>1 DEF CancelWrite, In, Due, Close
<1>8. CASE DeleteEnqueue(r) \/ ReparseEnqueue(r)
  <2>1. PICK typ, g, b : tasks' = Enqueue({DocTask(typ, g, b)}, tasks)
    BY <1>8 DEF DeleteEnqueue, ReparseEnqueue
  <2>2. Batched({DocTask(typ, g, b)}, g)
    BY DocTaskBatched
  <2>3. Uncounted /\ SameDue
    BY <1>2, <1>4, <1>8 DEF DeleteEnqueue, ReparseEnqueue, In, Due, Close
  <2> QED
    BY <1>1, <2>1, <2>2, <2>3, CountEnqueue
<1>9. CASE RequestDies(r)
  <2>1. "api" \in Crashable
    BY <1>9 DEF RequestDies, CanCrash
  <2>2. ~Due(r)
    BY <1>1, <2>1 DEF Either, GenInv, AsAsked, Due
  <2> QED
    BY <1>2, <1>3, <1>4, <1>9, <2>2 DEF RequestDies, Close
<1>10. CASE r.op = "pages" /\ r.gen # doc.gen
  <2>1. ~Due(r)
    BY <1>10 DEF Due
  <2>2. CASE PagesReset(r)
    <3>1. UNCHANGED <<doc, tasks>> /\ \A p \in Page : row'[p].gen = row[p].gen /\ (row[p].gen = doc.gen => row'[p].st = row[p].st)
      BY <1>1, <1>10, <2>2 DEF PagesReset, Row
    <3>2. PICK d, f : reqs' = (reqs \ {r}) \cup {[r EXCEPT !.pc = "adjust", !.done = d, !.failed = f]}
      BY <2>2 DEF PagesReset
    <3>3. LET q == [r EXCEPT !.pc = "adjust", !.done = d, !.failed = f] IN q.gen = r.gen
      BY <1>1 DEF Reqs
    <3>4. PICK q : reqs' = (reqs \ {r}) \cup {q} /\ q.gen = r.gen
      BY <3>2, <3>3
    <3>5. SameDue
      BY <1>10, <2>1, <3>4 DEF SameDue, Due
    <3>6. Uncounted
      BY <3>1 DEF Uncounted
    <3> QED
      BY <1>3, <3>1, <3>5, <3>6
  <2>3. CASE PagesAdjust(r) \/ PagesPick(r) \/ PagesParse(r)
    <3>1. UNCHANGED <<doc, row, tasks>>
      BY <1>10, <2>3 DEF PagesAdjust, PagesPick, PagesParse, Counted, Update
    <3>2. PICK pc \in {"pick", "parse", "advance"} : Serve(r, pc)
      BY <2>3 DEF PagesAdjust, PagesPick, PagesParse
    <3> QED
      BY <1>2, <1>3, <1>5, <2>1, <3>1, <3>2
  <2>4. CASE PagesAdvance(r)
    BY <1>1, <1>2, <1>4, <2>1, <2>4, CountEnqueue, NewTasksBatched DEF PagesAdvance, Close
  <2> QED
    BY <1>7, <1>8, <1>9, <2>2, <2>3, <2>4 DEF ServeStep
<1>11. CASE r.op = "pages" /\ r.gen = doc.gen
  <2>1. Careful
    BY <1>1, <1>11 DEF Either, GenInv, AsAsked
  <2>2. CASE PagesReset(r) \/ PagesAdjust(r)
    <3>1. CASE ~doc.exists
      <4>1. ~doc'.exists
        BY <2>2, <3>1 DEF PagesReset, PagesAdjust, Counted
      <4> QED
        BY <4>1 DEF CountInv
    <3> QED
      BY <1>1, <1>11, <2>1, <2>2, <3>1, CountReset, CountAdjust
  <2>3. CASE PagesPick(r) \/ PagesParse(r)
    <3>1. doc'.gen = doc.gen /\ doc'.exists = doc.exists /\ doc'.done = doc.done /\ doc'.failed = doc.failed
      BY <1>1, <2>3 DEF PagesPick, PagesParse, Update, Doc
    <3>2. ~Due(r) /\ UNCHANGED <<row, tasks>> /\ \E pc \in {"pick", "parse", "advance"} : Serve(r, pc)
      BY <2>3 DEF PagesPick, PagesParse, In, Due
    <3> QED
      BY <1>3, <1>5, <1>6, <3>1, <3>2
  <2>4. CASE PagesAdvance(r)
    <3>1. ~Due(r)
      BY <2>4 DEF PagesAdvance, In, Due
    <3> QED
      BY <1>1, <1>2, <1>4, <2>4, <3>1, CountEnqueue, NewTasksBatched DEF PagesAdvance, Close
  <2> QED
    BY <1>7, <1>8, <1>9, <2>2, <2>3, <2>4 DEF ServeStep
<1>12. CASE r.op # "pages"
  BY <1>7, <1>8, <1>9, <1>12 DEF ServeStep, PagesReset, PagesAdjust, PagesPick, PagesParse, PagesAdvance, In
<1> QED
  BY <1>10, <1>11, <1>12

-----------------------------------------------------------------------------

LEMMA CountInit == Init => CountInv
<1> SUFFICES ASSUME Init PROVE CountInv
  OBVIOUS
<1>1. /\ doc.gen = 1 /\ doc.done = 0 /\ doc.failed = 0 /\ reqs = {}
      /\ \A p \in Page : row[p].gen = 0
  BY DEF Init, NoRow
<1>2. \A t \in tasks : ~Reads(t) /\ ~Loses(t)
  <2>1. LET d == DocTask("split", 1, 0) IN d.typ = "split"
    BY DEF DocTask, Task
  <2> QED
    BY <2>1 DEF Init, Reads, Loses
<1>3. ToCount = {} /\ ToLose = {} /\ Rows(doc.gen, "done") = {} /\ Rows(doc.gen, "failed") = {}
  BY <1>1, <1>2 DEF ToCount, ToLose, Rows
<1>4. Fits(0, 0)
  BY <1>1, <1>3, FS_EmptySet DEF Fits, Match
<1> QED
  BY <1>1, <1>4 DEF CountInv

LEMMA CountStep == Either /\ PipeInv /\ CountInv /\ [Next]_vars => CountInv'
<1> SUFFICES ASSUME Either, PipeInv, CountInv, [Next]_vars PROVE CountInv'
  OBVIOUS
<1>1. TypeOK /\ GenInv
  BY DEF PipeInv
<1>2. CASE UNCHANGED vars
  <2>1. Uncounted /\ SameDue /\ ToCount' = ToCount /\ ToLose' = ToLose
    BY <1>2 DEF vars, Uncounted, SameDue, ToCount, ToLose
  <2> QED
    BY <2>1, CountStill
<1> QED
  BY <1>1, <1>2, CountWork, CountHousekeeping, CountAsk, CountServe DEF Next, WorkStep

(* The counters follow the rows throughout, but for what finishers and a   *)
(* request for pages are about to write.                                   *)
THEOREM CountsFollow ==
    ASSUME Tame, Either
    PROVE  Spec => []CountInv
<1>1. Tame /\ Either
  OBVIOUS
<1> QED
  BY <1>1, CountInit, CountStep, PipeAlways, PTL DEF Spec

LEMMA Overcount == PipeInv /\ CountInv => NeverOvercounted /\ (Careful => CountersExact)
<1> SUFFICES ASSUME PipeInv, CountInv, doc.exists, NoPageRequest
             PROVE  /\ Behind <= Cardinality(Rows(doc.gen, "done")) /\ BehindFailed <= Cardinality(Rows(doc.gen, "failed"))
                    /\ Careful => /\ Behind = Cardinality(Rows(doc.gen, "done"))
                                  /\ BehindFailed = Cardinality(Rows(doc.gen, "failed"))
  BY DEF NeverOvercounted, CountersExact
<1>1. Behind = doc.done + Cardinality(ToCount) /\ BehindFailed = doc.failed + Cardinality(ToLose)
  BY BehindCounts DEF PipeInv, GenInv
<1>2. Fits(0, 0)
  BY DEF CountInv, NoPageRequest, Due
<1>3. Cardinality(Rows(doc.gen, "done")) \in Nat /\ Cardinality(Rows(doc.gen, "failed")) \in Nat
  <2>1. Rows(doc.gen, "done") \in SUBSET Page /\ Rows(doc.gen, "failed") \in SUBSET Page
    BY DEF Rows
  <2> QED
    BY <2>1, PagesFinite, SizeAssumption
<1> QED
  BY <1>1, <1>2, <1>3 DEF Fits, Match

(* Whatever workers die, no page is counted twice, and nothing is          *)
(* assembled before its pages are finished (savePage, finishPageFailed,    *)
(* the retries of the queue, ResetStale).                                  *)
THEOREM CrashesAreSafe ==
    ASSUME Tame, Either
    PROVE  Spec => []CrashSafe
<1>1. Tame /\ Either
  OBVIOUS
<1>2. PipeInv /\ CountInv /\ AssembledWhole => CrashSafe
  BY Overcount DEF CrashSafe
<1> QED
  BY <1>1, <1>2, PipeAlways, CountsFollow, AssembledWhenWhole, PTL

(* Where no task of a parse dies, the counters are the rows they count,    *)
(* but for the finishers between their two statements: also after users    *)
(* took pages back and had them read again.                                *)
THEOREM CountersAreExact ==
    ASSUME Tame, Either, Careful
    PROVE  Spec => []CountersExact
<1>1. Tame /\ Either /\ Careful
  OBVIOUS
<1>2. PipeInv /\ CountInv => CountersExact
  BY <1>1, Overcount
<1> QED
  BY <1>1, <1>2, PipeAlways, CountsFollow, PTL

-----------------------------------------------------------------------------
(* The verdict.  It is drawn from the counters, so it is true only where   *)
(* they are exact: no task of a parse dies (Careful).                      *)

Skips == doc.pageCount = N /\ doc.skipped = Cardinality(Rows(doc.gen, "skipped"))
PageWork(t) ==
    Hired(t, doc.gen) /\ \/ t.typ \in {"ocr", "render"}
                         \/ t.typ = "assemble" /\ t.pc # "handover"
                         \/ t.typ = "split" /\ t.pc = "advance"
Deciding(t) == Hired(t, doc.gen) /\ t.typ = "assemble" /\ t.pc = "decide"
Indexing(t) == Hired(t, doc.gen) /\ (t.typ \in {"index", "tree"} \/ (t.typ = "assemble" /\ t.pc = "handover"))
Picked == \E r \in reqs : r.op = "pages" /\ r.gen = doc.gen /\ r.pc \in {"parse", "advance"}
Some(s) == \E p \in Page : PageIs(p, {s})

(* What the verdict rests on: the number of pages to expect is known while *)
(* pages are worked on, the assembly decides once, and what it found is    *)
(* still so when the index settles the document.                           *)
VerdictInv ==
    doc.exists /\ doc.status \notin Stopped =>
        /\ doc.status \in {"parsing", "assembling"} \/ Picked \/ (\E t \in tasks : PageWork(t)) => Skips
        /\ Asked(doc.gen) => doc.pageCount = N
        /\ \A t \in tasks : Deciding(t) => doc.status = "assembling"
        /\ \A t \in tasks : Indexing(t) => doc.status = "indexing"
        /\ doc.status = "indexing" => Some("done") /\ doc.parse = IF Some("failed") THEN "partial" ELSE "done"
        /\ ~Asked(doc.gen) => /\ doc.status = "completed" => AllAre({"done", "skipped"})
                              /\ doc.status = "partial" => Some("done") /\ Some("failed")

LEMMA VerdictVoid == ASSUME ~doc'.exists \/ doc'.status \in Stopped PROVE VerdictInv'
BY DEF VerdictInv

(* The document is at rest, or a split is at work on it.                   *)
LEMMA VerdictRest ==
    ASSUME \A u \in tasks' : Hired(u, doc'.gen) => u.typ = "split" /\ u.pc # "advance",
           Asked(doc.gen)' => doc'.pageCount = N, Picked' => Skips',
           \/ doc'.status \in {"queued", "splitting", "not_started", "failed"}
           \/ doc'.status \in {"completed", "partial"} /\ Asked(doc.gen)'
    PROVE  VerdictInv'
BY DEF VerdictInv, PageWork, Deciding, Indexing

(* A step that leaves the document's pages and their tasks what they were. *)
SkipsKept == \A p \in Page : row'[p].st = "skipped" => row[p].st = "skipped"
Undisturbed ==
    \A p \in Page :
        /\ row'[p].gen = row[p].gen
        /\ row[p].gen = doc.gen =>
              \/ row'[p].st = row[p].st
              \/ row[p].st \in {"pending", "rendered"} \cup Busy /\ row'[p].st # "skipped"

LEMMA FlowUndisturbed == Flow /\ SkipsKept => Undisturbed
BY DEF Flow, SkipsKept, Undisturbed, Busy

LEMMA VerdictKept ==
    ASSUME PipeInv, VerdictInv, Undisturbed, doc'.gen = doc.gen, doc'.exists => doc.exists,
           \/ doc'.status \in Stopped
           \/ /\ doc'.status = doc.status /\ doc'.parse = doc.parse
              /\ doc'.pageCount = doc.pageCount /\ doc'.skipped = doc.skipped,
           \A u \in tasks' : Hired(u, doc.gen) =>
              /\ PageWork(u) => doc.status \in {"parsing", "assembling"} \/ \E v \in tasks : PageWork(v)
              /\ Deciding(u) => \E v \in tasks : Deciding(v)
              /\ Indexing(u) => doc.status = "indexing" \/ \E v \in tasks : Indexing(v),
           Asked(doc.gen)' => Asked(doc.gen), Picked' => Picked,
           Asked(doc.gen) /\ ~Asked(doc.gen)' => doc.status \notin {"completed", "partial"}
    PROVE  VerdictInv'
<1> SUFFICES ASSUME doc'.exists, doc'.status \notin Stopped PROVE VerdictInv'
  BY VerdictVoid
<1>1. /\ doc.exists /\ doc'.status = doc.status /\ doc'.parse = doc.parse
      /\ doc'.pageCount = doc.pageCount /\ doc'.skipped = doc.skipped
  OBVIOUS
<1>2. Rows(doc.gen, "skipped")' = Rows(doc.gen, "skipped")
  BY DEF Undisturbed, Rows, Busy
<1>3. Skips => Skips'
  BY <1>1, <1>2 DEF Skips
<1>4. \A u \in tasks' : /\ PageWork(u)' => Hired(u, doc.gen) /\ PageWork(u)
                        /\ Deciding(u)' => Hired(u, doc.gen) /\ Deciding(u)
                        /\ Indexing(u)' => Hired(u, doc.gen) /\ Indexing(u)
  BY DEF PageWork, Deciding, Indexing, Hired
<1>5. ASSUME Whole PROVE \A p \in Page : \A S : PageIs(p, S)' <=> PageIs(p, S)
  BY <1>5 DEF Whole, AllAre, PageIs, Undisturbed, Busy
<1>6. ASSUME Whole
      PROVE  (\A s : Some(s)' <=> Some(s)) /\ (AllAre({"done", "skipped"}) => AllAre({"done", "skipped"})')
  BY <1>5, <1>6 DEF Some, AllAre
<1>7. doc.status = "indexing" => ~Asked(doc.gen)
  BY <1>1 DEF PipeInv, StatusInv, Asked, Terminal
<1>8. doc.status \in {"indexing", "completed", "partial"} /\ ~Asked(doc.gen) => Whole
  BY <1>1 DEF PipeInv, StatusInv
<1>9. doc.status = "indexing" => Some("done")' /\ doc'.parse = IF Some("failed")' THEN "partial" ELSE "done"
  BY <1>1, <1>6, <1>7, <1>8 DEF VerdictInv
<1>10. ~Asked(doc.gen)' => /\ doc.status = "completed" => AllAre({"done", "skipped"})'
                           /\ doc.status = "partial" => Some("done")' /\ Some("failed")'
  BY <1>1, <1>6, <1>8 DEF VerdictInv
<1>11. doc.status \in {"parsing", "assembling"} \/ Picked' \/ (\E u \in tasks' : PageWork(u)') => Skips'
  BY <1>1, <1>3, <1>4 DEF VerdictInv
<1>12. \A u \in tasks' : (Deciding(u)' => doc.status = "assembling") /\ (Indexing(u)' => doc.status = "indexing")
  BY <1>1, <1>4 DEF VerdictInv
<1>13. Asked(doc.gen)' => doc'.pageCount = N
  BY <1>1 DEF VerdictInv
<1> QED
  BY <1>1, <1>9, <1>10, <1>11, <1>12, <1>13 DEF VerdictInv

LEMMA WorkSkips ==
    ASSUME TypeOK, NEW t \in tasks, Work(t) \/ Crash(t) \/ StrayPickup(t), ~SplitInit(t), ~DeletePurge(t)
    PROVE  SkipsKept
<1>1. row \in [Page -> Row] /\ t \in Tasks /\ t.pc # "archived" /\ (t.typ # "delete" => t.gen \in Gen)
  BY WorkLive DEF TypeOK, WellFormed
<1>2. UNCHANGED row => SkipsKept
  BY DEF SkipsKept
<1>3. \A p, s : SetPage(p, t.gen, s) /\ s # "skipped" => SkipsKept
  BY <1>1 DEF SetPage, SkipsKept, Row
<1>4. CASE RenderEmit(t)
  <2>1. PICK p : row' = IF row[p].gen = t.gen THEN [row EXCEPT ![p].st = "rendered", ![p].img = TRUE] ELSE row
    BY <1>4 DEF RenderEmit
  <2> QED
    BY <1>1, <2>1 DEF SkipsKept, Row
<1>5. ASSUME NEW g \in Gen, Advance(g) PROVE SkipsKept
  BY <1>1, <1>5, AdvanceOne DEF SkipsKept
<1>6. CASE LastAdvance(t) \/ RenderAdvance(t) \/ FailedAdvance(t)
  <2>1. t.gen \in Gen /\ Advance(t.gen)
    BY <1>1, <1>6 DEF LastAdvance, RenderAdvance, FailedAdvance, At
  <2> QED
    BY <1>5, <2>1
<1>7. CASE OcrSave(t) \/ OcrFail(t) \/ RenderGiveUp(t)
  BY <1>2, <1>3, <1>7 DEF OcrSave, OcrFail, RenderGiveUp
<1> QED
  BY <1>2, <1>4, <1>6, <1>7
     DEF Work, Crash, StrayPickup, Drop, SplitStart, SplitProbeFails, SplitReady, SplitHeld, RenderStart, RenderFails,
         RenderCount, OcrStart, OcrRetry, OcrCount, OcrCountFailed, AssembleStart, AssembleDecide, AssembleHandover,
         IndexBuild, TreeStart, TreeSettle, IndexFails, GenCleanup, DeleteObjects

(* Tasks that have no part in the verdict.                                 *)
LEMMA VerdictElsewhere ==
    ASSUME PipeInv, VerdictInv, NEW t \in tasks, ~Hired(t, doc.gen), Work(t) \/ Crash(t) \/ StrayPickup(t)
    PROVE  VerdictInv'
<1>1. /\ TypeOK /\ GenInv /\ TurnInv /\ WorkerInv /\ t \in Tasks /\ t.pc # "archived" /\ UNCHANGED reqs /\ doc \in Doc
      /\ doc'.gen = doc.gen /\ (doc'.exists => doc.exists)
  BY WorkLive, WorkReqs, WorkGen DEF PipeInv, TypeOK, WellFormed
<1>2. CASE DeletePurge(t)
  <2>1. ~doc'.exists
    BY <1>1, <1>2 DEF DeletePurge, Doc
  <2> QED
    BY <2>1, VerdictVoid
<1>3. CASE ~DeletePurge(t)
  <2>1. ~SplitInit(t)
    BY <1>1 DEF SplitInit, At, TurnInv, NewestSplits, Past, Hired
  <2>2. Flow /\ SkipsKept
    BY <1>1, <1>3, <2>1, WorkFlow, WorkSkips
  <2>3. UNCHANGED doc
    <3>1. CASE t.typ # "delete" /\ t.gen # doc.gen
      BY <1>1, <3>1, Elsewhere
    <3>2. CASE t.typ \in {"gencleanup", "delete"}
      BY <1>3, <2>1, <3>2
         DEF Work, Crash, StrayPickup, Drop, SplitStart, SplitProbeFails, SplitReady, SplitHeld, RenderStart,
             RenderFails, RenderEmit, RenderAdvance, RenderGiveUp, FailedAdvance, LastAdvance, OcrSave, OcrFail,
             RenderCount, OcrStart, OcrRetry, OcrCount, OcrCountFailed, AssembleStart, AssembleDecide,
             AssembleHandover, IndexBuild, TreeStart, TreeSettle, IndexFails, GenCleanup, DeleteObjects, Starts, At
    <3> QED
      BY <1>1, <3>1, <3>2 DEF Hired
  <2>4. PICK R, new : Moves({t}, R, new) /\ Given(new, t)
    BY <1>1, WorkSteady DEF Steady
  <2>5. \A u \in new : ~Hired(u, doc.gen)
    BY <1>1, <2>4 DEF Given, Batched, Hired
  <2>6. \A u \in tasks' : Hired(u, doc.gen) => u \in tasks
    BY <1>1, <2>4, <2>5, HiredAfter
  <2> QED
    BY <1>1, <2>2, <2>3, <2>6, VerdictKept, FlowUndisturbed DEF Asked, Picked
<1> QED
  BY <1>2, <1>3

LEMMA VerdictWorker ==
    ASSUME PipeInv, VerdictInv, doc.exists, NEW t \in tasks, t.typ \in {"ocr", "render"}, Hired(t, doc.gen),
           Work(t) \/ Crash(t) \/ StrayPickup(t)
    PROVE  VerdictInv'
<1>1. /\ TypeOK /\ GenInv /\ TurnInv /\ WorkerInv /\ t \in Tasks /\ t.pc # "archived" /\ UNCHANGED reqs /\ doc \in Doc
      /\ doc'.gen = doc.gen /\ (doc'.exists => doc.exists)
  BY WorkLive, WorkReqs, WorkGen DEF PipeInv, TypeOK, WellFormed
<1>2. ~SplitInit(t) /\ ~DeletePurge(t)
  BY DEF SplitInit, DeletePurge, At
<1>3. Flow /\ SkipsKept
  BY <1>1, <1>2, WorkFlow, WorkSkips
<1>4. \A c \in {"done", "failed"} : CountPage(t.gen, c) =>
         /\ doc'.status = doc.status /\ doc'.parse = doc.parse
         /\ doc'.pageCount = doc.pageCount /\ doc'.skipped = doc.skipped
  BY <1>1 DEF CountPage, Doc
<1>5. /\ doc'.status = doc.status /\ doc'.parse = doc.parse
      /\ doc'.pageCount = doc.pageCount /\ doc'.skipped = doc.skipped
  <2>1. CASE OcrCount(t) \/ OcrCountFailed(t) \/ RenderCount(t)
    BY <1>4, <2>1 DEF OcrCount, OcrCountFailed, RenderCount
  <2> QED
    BY <1>2, <2>1
       DEF Work, Crash, StrayPickup, Drop, SplitStart, SplitProbeFails, SplitReady, SplitHeld, RenderStart,
           RenderFails, RenderEmit, RenderAdvance, RenderGiveUp, FailedAdvance, LastAdvance, OcrSave, OcrFail,
           OcrStart, OcrRetry, AssembleStart, AssembleDecide, AssembleHandover, IndexBuild, TreeStart, TreeSettle,
           IndexFails, GenCleanup, DeleteObjects, Starts, At
<1>6. PICK R, new : Moves({t}, R, new) /\ Given(new, t)
  BY <1>1, WorkSteady DEF Steady
<1>7. PageWork(t)
  BY DEF PageWork
<1>8. ASSUME NEW u \in new PROVE ~Deciding(u) /\ ~Indexing(u)
  <2>1. u \in NewTasks(t.gen)
    BY <1>6, <1>8 DEF Given
  <2> QED
    BY <2>1, NewTasksAre DEF OcrTask, RenderTask, AssembleTask, Deciding, Indexing
<1>9. \A u \in R : ~Deciding(u) /\ ~Indexing(u)
  BY <1>6 DEF Moves, Kin, Deciding, Indexing
<1>10. \A u \in tasks' : Hired(u, doc.gen) =>
          /\ Deciding(u) => \E v \in tasks : Deciding(v)
          /\ Indexing(u) => \E v \in tasks : Indexing(v)
  BY <1>1, <1>6, <1>8, <1>9, HiredAfter
<1> QED
  BY <1>1, <1>3, <1>5, <1>7, <1>10, VerdictKept, FlowUndisturbed DEF Asked, Picked

LEMMA VerdictSplit ==
    ASSUME Tame, PipeInv, VerdictInv, doc.exists, NEW t \in tasks, t.typ = "split", Hired(t, doc.gen),
           Work(t) \/ Crash(t) \/ StrayPickup(t)
    PROVE  VerdictInv'
<1>1. /\ TypeOK /\ GenInv /\ TurnInv /\ WorkerInv /\ t \in Tasks /\ t.pc # "archived" /\ UNCHANGED reqs /\ doc \in Doc
      /\ doc'.gen = doc.gen /\ (doc'.exists => doc.exists) /\ t.gen = doc.gen /\ row \in [Page -> Row] /\ doc.gen \in Gen
  BY WorkLive, WorkReqs, WorkGen DEF PipeInv, TypeOK, WellFormed, Hired, Doc
<1>2. Blank /\ Only(t) /\ SplitAt(t)
  BY DEF PipeInv, StatusInv
<1>3. ~Asked(doc.gen)' /\ ~Picked' /\ ~Asked(doc.gen)
  BY <1>1, <1>2 DEF Blank, Asked, Picked
<1>4. PICK R, new : Moves({t}, R, new) /\ Given(new, t)
  BY <1>1, WorkSteady DEF Steady
<1>5. \A u \in tasks' : Hired(u, doc.gen) => u \in R \cup new /\ (u \in R => u.typ = "split")
  <2>1. \A u \in tasks' : Hired(u, doc.gen) => (u \in tasks /\ u # t) \/ u \in R \/ u \in new
    BY <1>1, <1>4, HiredAfter
  <2>2. \A u \in R : u.typ = "split"
    BY <1>4 DEF Moves, Kin
  <2> QED
    BY <1>1, <1>2, <2>1, <2>2 DEF Only
<1>6. CASE doc.status \in Stopped
  <2>1. \A g, d : Update(g, d) => UNCHANGED doc
    BY <1>6 DEF Update, Stopped
  <2>2. UNCHANGED doc
    BY <2>1 DEF Work, Crash, StrayPickup, Drop, SplitStart, SplitProbeFails, SplitReady, SplitHeld, RenderStart,
           RenderFails, RenderEmit, RenderAdvance, RenderGiveUp, FailedAdvance, LastAdvance, OcrSave, OcrFail,
           OcrStart, OcrRetry, AssembleStart, AssembleDecide, AssembleHandover, IndexBuild, TreeStart, TreeSettle,
           IndexFails, GenCleanup, DeleteObjects, Starts, At, FailDoc, SplitInit, DeletePurge,
           OcrCount, OcrCountFailed, RenderCount
  <2> QED
    BY <1>6, <2>2, VerdictVoid
<1>7. CASE doc.status \notin Stopped
  <2>1. doc.status \in IF t.pc = "advance" THEN {"parsing"} ELSE {"queued", "splitting"}
    BY <1>2, <1>7 DEF SplitAt
  <2>2. ASSUME NEW pc, pc # "advance", Goto(t, pc), doc'.status \in {"queued", "splitting", "not_started", "failed"}
        PROVE  VerdictInv'
    <3>1. LET u == [t EXCEPT !.pc = pc] IN u.pc = pc /\ u.typ = "split"
      BY <1>1 DEF Tasks
    <3>2. \A u \in tasks' : Hired(u, doc'.gen) => u.typ = "split" /\ u.pc # "advance"
      BY <1>1, <1>2, <2>2, <3>1 DEF Goto, Others, Only, Hired
    <3> QED
      BY <1>3, <2>2, <3>2, VerdictRest
  <2>3. ASSUME \E U : tasks' = Others(t) \cup U /\ \A u \in U : u.typ = "split" /\ u.pc # "advance",
               doc'.status \in {"queued", "splitting", "not_started", "failed"}
        PROVE  VerdictInv'
    <3>1. \A u \in tasks' : Hired(u, doc'.gen) => u.typ = "split" /\ u.pc # "advance"
      BY <1>1, <1>2, <2>3 DEF Others, Only, Hired
    <3> QED
      BY <1>3, <2>3, <3>1, VerdictRest
  <2>4. \A u \in Errored(t) \cup Archived(t) : u.typ = "split" /\ u.pc # "advance"
    BY <1>1, ErroredKin, RestartKin DEF Kin
  <2>5. CASE SplitStart(t)
    <3>1. doc'.status = "splitting"
      BY <1>1, <1>7, <2>5 DEF SplitStart, Update, Stopped, Doc
    <3> QED
      BY <2>2, <2>5, <3>1 DEF SplitStart
  <2>6. CASE SplitInit(t)
    <3>1. doc'.status \in {"queued", "splitting"}
      BY <2>1, <2>6 DEF SplitInit, At
    <3>2. Error(t) \/ \E pc : pc # "advance" /\ Goto(t, pc)
      BY <2>6 DEF SplitInit
    <3> QED
      BY <2>2, <2>3, <2>4, <3>1, <3>2 DEF Error
  <2>7. CASE SplitProbeFails(t)
    <3>1. doc.status \in {"queued", "splitting"}
      BY <2>1, <2>7 DEF SplitProbeFails, At
    <3>2. doc'.status \in {"queued", "splitting", "failed"}
      BY <1>1, <2>7, <3>1 DEF SplitProbeFails, FailDoc, Update, Doc
    <3> QED
      BY <2>3, <2>4, <2>7, <3>2 DEF SplitProbeFails, Error, DeadLetter
  <2>8. CASE SplitReady(t)
    <3>1. doc'.status = "parsing" /\ doc'.pageCount = N /\ doc'.skipped = 0
      BY <1>1, <1>2, <1>7, <2>8 DEF SplitReady, Update, Stopped, Doc, Blank
    <3>2. Rows(doc.gen, "skipped")' = {}
      BY <1>1, <1>2, <2>8 DEF SplitReady, At, SplitAt, AllAre, PageIs, Rows
    <3>3. Skips'
      BY <3>1, <3>2, FS_EmptySet DEF Skips
    <3>4. \A u \in tasks' : Hired(u, doc'.gen) => u.typ = "split"
      <4>1. LET u == [t EXCEPT !.pc = "advance"] IN u.typ = "split"
        BY <1>1 DEF Tasks
      <4> QED
        BY <1>1, <1>2, <2>8, <4>1 DEF SplitReady, Goto, Others, Only, Hired
    <3> QED
      BY <1>3, <3>1, <3>3, <3>4 DEF VerdictInv, Deciding, Indexing, Stopped
  <2>9. CASE SplitHeld(t)
    <3>1. doc'.status = "not_started"
      BY <1>1, <1>7, <2>9 DEF SplitHeld, Update, Stopped, Doc
    <3>2. tasks' = Others(t)
      BY <2>9, EnqueueNone DEF SplitHeld, Ack, CanCrash, Tame
    <3>3. \A u \in tasks' : ~Hired(u, doc'.gen)
      BY <1>1, <1>2, <3>2 DEF Others, Only, Hired
    <3> QED
      BY <1>3, <3>1, <3>3, VerdictRest
  <2>10. CASE LastAdvance(t)
    <3>1. doc.status = "parsing" /\ UNCHANGED doc /\ ~SplitInit(t) /\ ~DeletePurge(t)
      BY <2>1, <2>10 DEF LastAdvance, SplitInit, DeletePurge, At
    <3>2. Flow /\ SkipsKept
      BY <1>1, <3>1, WorkFlow, WorkSkips
    <3>3. ASSUME NEW u \in new PROVE ~Deciding(u) /\ ~Indexing(u)
      <4>1. u \in NewTasks(t.gen)
        BY <1>4, <3>3 DEF Given
      <4> QED
        BY <4>1, NewTasksAre DEF OcrTask, RenderTask, AssembleTask, Deciding, Indexing
    <3>4. \A u \in tasks' : Hired(u, doc.gen) => ~Deciding(u) /\ ~Indexing(u)
      BY <1>5, <3>3 DEF Deciding, Indexing
    <3> QED
      BY <1>3, <3>1, <3>2, <3>4, VerdictKept, FlowUndisturbed
  <2>11. ~Drop(t)
    BY <1>1, <1>7 DEF Drop, Runnable, Stopped
  <2>12. ~Crash(t)
    BY DEF Crash, CanCrash, Tame
  <2> QED
    BY <2>5, <2>6, <2>7, <2>8, <2>9, <2>10, <2>11, <2>12
       DEF Work, StrayPickup, RenderStart, RenderFails, RenderEmit, RenderAdvance, RenderGiveUp, FailedAdvance, OcrSave,
           OcrFail, OcrStart, OcrRetry, AssembleStart, AssembleDecide, AssembleHandover, IndexBuild, TreeStart,
           TreeSettle, IndexFails, GenCleanup, DeleteObjects, DeletePurge, OcrCount, OcrCountFailed, RenderCount,
           Starts, At
<1> QED
  BY <1>6, <1>7

(* What the assembly reads: the counters are the rows, so a document with  *)
(* fewer pages given up than chosen has a page that was read.              *)
LEMMA DecisionTrue ==
    ASSUME Careful, PipeInv, CountInv, VerdictInv, doc.exists, doc.status \notin Stopped, NEW t \in tasks,
           Hired(t, doc.gen), AssembleDecide(t)
    PROVE  /\ doc.failed > 0 <=> Some("failed")
           /\ doc.failed >= doc.pageCount - doc.skipped <=> ~Some("done")
<1>1. t.gen = doc.gen /\ t.typ = "assemble" /\ t.pc = "decide" /\ Finishing(doc.gen) = {} /\ doc \in Doc
  BY DEF Hired, AssembleDecide, PromptFinish, Careful, At, PipeInv, TypeOK
<1>2. Whole /\ ~Asked(doc.gen)
  BY <1>1 DEF PipeInv, StatusInv, QuietInv, Asked, Nobody, Late
<1>3. doc.pageCount = N /\ doc.skipped = Cardinality(Rows(doc.gen, "skipped"))
  BY <1>1 DEF VerdictInv, PageWork, Skips
<1>4. Fits(0, 0)
  BY <1>2 DEF CountInv, Due, Asked
<1>5. ToLose = {}
  BY <1>1 DEF ToLose, Loses, Finishing
<1>6. Cardinality(ToLose) = 0
  BY <1>5, FS_EmptySet
<1> DEFINE F == Rows(doc.gen, "failed")
           S == Rows(doc.gen, "skipped")
<1>7. F \in SUBSET Page /\ S \in SUBSET Page /\ F \cap S = {}
  BY DEF Rows
<1>8. Some("failed") <=> F # {}
  BY DEF Some, PageIs, Rows
<1>9. ~Some("done") <=> Page = F \cup S
  BY <1>2 DEF Some, PageIs, Rows, Whole, AllAre
<1>10. doc.failed + 0 = Cardinality(F) + 0 /\ doc.skipped = Cardinality(S)
  BY <1>3, <1>4, <1>6 DEF Fits, Match
<1> HIDE DEF F, S
<1>11. /\ IsFiniteSet(F) /\ IsFiniteSet(S) /\ Cardinality(F) \in Nat /\ Cardinality(S) \in Nat
  BY <1>7, PagesFinite, SizeAssumption
<1>12. Cardinality(F) = 0 <=> F = {}
  BY <1>11, FS_EmptySet
<1>13. Cardinality(F \cup S) = Cardinality(F) + Cardinality(S)
  <2>1. Cardinality(F \cup S) = Cardinality(F) + Cardinality(S) - Cardinality(F \cap S)
    BY <1>11, FS_Union
  <2>2. Cardinality(F \cap S) = 0
    BY <1>7, FS_EmptySet
  <2> QED
    BY <1>11, <2>1, <2>2
<1>14. Cardinality(Page) = N
  BY FS_Interval, SizeAssumption DEF Page
<1>15. doc.failed = Cardinality(F)
  BY <1>1, <1>10, <1>11 DEF Doc
<1>16. doc.failed > 0 <=> F # {}
  BY <1>11, <1>12, <1>15
<1>17. ~Some("done") => doc.failed >= doc.pageCount - doc.skipped
  <2> SUFFICES ASSUME ~Some("done") PROVE doc.failed >= doc.pageCount - doc.skipped
    OBVIOUS
  <2>1. Cardinality(F) + Cardinality(S) = N
    BY <1>9, <1>13, <1>14
  <2> QED
    BY <1>3, <1>10, <1>11, <1>15, <2>1, SizeAssumption
<1>18. ASSUME Some("done") PROVE ~(doc.failed >= doc.pageCount - doc.skipped)
  <2>1. F \cup S \in SUBSET Page /\ F \cup S # Page
    BY <1>7, <1>9, <1>18
  <2>2. Cardinality(F \cup S) < Cardinality(Page)
    BY <2>1, PagesFinite, FS_Subset, SizeAssumption
  <2> QED
    BY <1>1, <1>3, <1>10, <1>11, <1>13, <1>14, <1>15, <2>2, SizeAssumption
<1> QED
  BY <1>8, <1>16, <1>17, <1>18

LEMMA VerdictLate ==
    ASSUME Careful, PipeInv, CountInv, VerdictInv, doc.exists, NEW t \in tasks, t.typ \in Late, Hired(t, doc.gen),
           Work(t) \/ Crash(t) \/ StrayPickup(t)
    PROVE  VerdictInv'
<1>1. /\ TypeOK /\ GenInv /\ TurnInv /\ WorkerInv /\ StatusInv /\ t \in Tasks /\ t.pc # "archived" /\ UNCHANGED reqs
      /\ doc \in Doc /\ doc'.gen = doc.gen /\ (doc'.exists => doc.exists) /\ t.gen = doc.gen
  BY WorkReqs, WorkGen DEF PipeInv, TypeOK, WellFormed, Hired
<1>2. Whole /\ ~Asked(doc.gen) /\ ~Asked(doc.gen)' /\ ~Picked /\ ~Picked'
  BY <1>1 DEF PipeInv, StatusInv, QuietInv, Asked, Picked, Nobody
<1>3. Settling(t) => Only(t)
  BY <1>1 DEF StatusInv
<1>4. \A u \in tasks : Hired(u, doc.gen) /\ Settling(u) => u = t
  BY <1>1 DEF StatusInv, Only, Hired
<1>5. ~Crash(t) /\ ~StrayPickup(t)
  BY DEF Careful, Crash, CanCrash, StrayPickup, At, Late
<1>6. \A new : Ack(t, new) => Moves({t}, {}, new)
  BY <1>1, AckMoves DEF Careful, Late
<1>7. Error(t) => Moves({t}, Errored(t), {})
  BY <1>1, ErrorMoves
<1>8. UNCHANGED row => Flow /\ SkipsKept
  BY DEF Flow, SkipsKept
<1>9. \A g, d : Update(g, d) /\ doc.status \in Stopped => UNCHANGED doc
  BY DEF Update, Stopped
<1>10. CASE doc.status \in Stopped
  <2>1. UNCHANGED doc
    BY <1>5, <1>9, <1>10
       DEF Work, Drop, SplitStart, SplitInit, SplitProbeFails, SplitReady, SplitHeld, RenderStart, RenderFails, RenderEmit,
           RenderAdvance, RenderGiveUp, FailedAdvance, LastAdvance, OcrSave, OcrFail, OcrStart, OcrRetry, AssembleStart,
           AssembleDecide, AssembleHandover, IndexBuild, TreeStart, TreeSettle, IndexFails, GenCleanup, DeleteObjects,
           DeletePurge, OcrCount, OcrCountFailed, RenderCount, Starts, At, FailDoc, Late
  <2> QED
    BY <1>10, <2>1, VerdictVoid
<1> SUFFICES ASSUME doc.status \notin Stopped PROVE VerdictInv'
  BY <1>10
<1>11. \A d : Update(t.gen, d) => doc' = d
  BY <1>1 DEF Update, Stopped
<1>12. ASSUME UNCHANGED <<doc, row>>, NEW R, NEW new, Moves({t}, R, new), \A u \in R \cup new :
                 /\ PageWork(u) => PageWork(t)
                 /\ Deciding(u) => Deciding(t)
                 /\ Indexing(u) => Indexing(t)
       PROVE  VerdictInv'
  <2>1. \A u \in tasks' : Hired(u, doc.gen) =>
           /\ PageWork(u) => \E v \in tasks : PageWork(v)
           /\ Deciding(u) => \E v \in tasks : Deciding(v)
           /\ Indexing(u) => \E v \in tasks : Indexing(v)
    BY <1>1, <1>12, HiredAfter
  <2> QED
    BY <1>1, <1>2, <1>8, <1>12, <2>1, VerdictKept, FlowUndisturbed
<1>13. ASSUME Only(t), NEW R, Moves({t}, R, {}), \A u \in R : u.pc = "archived" PROVE \A u \in tasks' : ~Hired(u, doc.gen)
  <2>1. \A u \in tasks' : Hired(u, doc.gen) => (u \in tasks /\ u # t) \/ u \in R
    BY <1>1, <1>13, HiredAfter
  <2> QED
    BY <1>1, <1>13, <2>1 DEF Only, Hired
<1>14. CASE Error(t) /\ UNCHANGED <<doc, row>> /\ t.pc # "handover"
  <2>1. \A u \in Errored(t) : u.typ = t.typ /\ u.pc \in {"queued", "archived"}
    BY <1>1, ErroredKin DEF Kin
  <2>2. \A u \in Errored(t) \cup {} : /\ PageWork(u) => PageWork(t) \/ Indexing(t)
                                      /\ ~Deciding(u)
                                      /\ Indexing(u) => Indexing(t)
    BY <2>1 DEF PageWork, Deciding, Indexing, Late
  <2>3. CASE PageWork(t)
    BY <1>7, <1>12, <1>14, <2>2, <2>3
  <2>4. CASE Indexing(t) /\ t.pc # "handover"
    <3>1. \A u \in Errored(t) \cup {} : ~PageWork(u)
      BY <2>1, <2>4 DEF PageWork, Indexing
    <3> QED
      BY <1>7, <1>12, <1>14, <2>2, <3>1
  <2> QED
    BY <1>14, <2>3, <2>4 DEF PageWork, Indexing, Late, Hired, Error
<1>15. CASE AssembleStart(t)
  <2>1. doc' = [doc EXCEPT !.status = "assembling"] /\ t.typ = "assemble" /\ t.pc = "queued" /\ UNCHANGED row
    BY <1>11, <1>15 DEF AssembleStart, Starts, At
  <2>2. doc'.status = "assembling" /\ doc'.pageCount = doc.pageCount /\ doc'.skipped = doc.skipped
    BY <1>1, <2>1 DEF Doc
  <2>3. Skips'
    BY <1>1, <2>1, <2>2 DEF VerdictInv, PageWork, Skips, Rows
  <2>4. PICK u : u = [t EXCEPT !.pc = "decide"] /\ tasks' = Others(t) \cup {u} /\ u.typ = "assemble" /\ u.pc = "decide"
    <3>1. LET u == [t EXCEPT !.pc = "decide"] IN tasks' = Others(t) \cup {u} /\ u.typ = "assemble" /\ u.pc = "decide"
      BY <1>1, <1>15, <2>1 DEF AssembleStart, Goto, Tasks
    <3> QED
      BY <3>1
  <2>5. ASSUME NEW v \in tasks', Indexing(v)' PROVE FALSE
    <3>1. v \in tasks /\ Hired(v, doc.gen) /\ Settling(v)
      BY <1>1, <2>4, <2>5 DEF Indexing, Settling, Others, Hired
    <3> QED
      BY <1>1, <1>4, <2>1, <2>5, <3>1 DEF Indexing
  <2> QED
    BY <1>2, <2>2, <2>3, <2>5 DEF VerdictInv
<1>16. CASE AssembleDecide(t)
  <2>1. t.typ = "assemble" /\ t.pc = "decide" /\ UNCHANGED row /\ Only(t)
    BY <1>1, <1>16, DeciderAlone DEF AssembleDecide, At
  <2>2. CASE ~Visible
    BY <1>14, <1>16, <2>1, <2>2 DEF AssembleDecide
  <2>3. CASE Visible /\ doc.failed >= doc.pageCount - doc.skipped
    <3>1. DeadLetter(t) /\ FailDoc(t.gen)
      BY <1>16, <2>3 DEF AssembleDecide
    <3>2. doc'.status = "failed"
      BY <1>1, <1>11, <3>1 DEF FailDoc, Doc
    <3>3. Moves({t}, Archived(t), {}) /\ \A u \in Archived(t) : u.pc = "archived"
      BY <1>1, <3>1, ErrorMoves, RestartKin
    <3>4. \A u \in tasks' : ~Hired(u, doc'.gen)
      BY <1>1, <1>13, <2>1, <3>3
    <3> QED
      BY <1>2, <3>2, <3>4, VerdictRest
  <2>4. CASE Visible /\ ~(doc.failed >= doc.pageCount - doc.skipped)
    <3>1. /\ Goto(t, "handover")
          /\ Update(t.gen, [doc EXCEPT !.status = "indexing", !.parse = IF doc.failed > 0 THEN "partial" ELSE "done"])
      BY <1>16, <2>4 DEF AssembleDecide
    <3>2. doc' = [doc EXCEPT !.status = "indexing", !.parse = IF doc.failed > 0 THEN "partial" ELSE "done"]
      BY <1>11, <3>1
    <3>3. doc'.status = "indexing" /\ doc'.parse = IF doc.failed > 0 THEN "partial" ELSE "done"
      BY <1>1, <3>2 DEF Doc
    <3>4. Some("done") /\ (doc.failed > 0 <=> Some("failed"))
      BY <1>16, <2>4, DecisionTrue
    <3>5. (Some("done")' <=> Some("done")) /\ (Some("failed")' <=> Some("failed"))
      BY <1>1, <2>1 DEF Some, PageIs
    <3>6. PICK u : tasks' = Others(t) \cup {u} /\ u.typ = "assemble" /\ u.pc = "handover"
      <4>1. LET u == [t EXCEPT !.pc = "handover"] IN tasks' = Others(t) \cup {u} /\ u.typ = "assemble" /\ u.pc = "handover"
        BY <1>1, <2>1, <3>1 DEF Goto, Tasks, Steps
      <4> QED
        BY <4>1
    <3>7. \A v \in tasks' : Hired(v, doc'.gen) => v = u
      BY <1>1, <2>1, <3>6 DEF Only, Others, Hired
    <3>8. \A v \in tasks' : ~PageWork(v)' /\ ~Deciding(v)'
      BY <3>6, <3>7 DEF PageWork, Deciding
    <3> QED
      BY <1>2, <3>3, <3>4, <3>5, <3>8 DEF VerdictInv
  <2> QED
    BY <2>2, <2>3, <2>4
<1>17. ASSUME Indexing(t), UNCHANGED <<doc, row>>, NEW R, NEW new, Moves({t}, R, new),
              \A u \in R \cup new : u.typ \in {"index", "tree", "gencleanup"}
       PROVE  VerdictInv'
  BY <1>12, <1>17 DEF PageWork, Deciding, Indexing
<1>18. CASE AssembleHandover(t) \/ IndexBuild(t)
  <2>1. Indexing(t) /\ UNCHANGED <<doc, row>>
    BY <1>18 DEF AssembleHandover, IndexBuild, Indexing, Starts, At
  <2>2. \A typ \in {"index", "tree", "gencleanup"} : \A g, b : DocTask(typ, g, b).typ = typ
    BY DEF DocTask, Task
  <2>3. PICK new : Ack(t, new) /\ \A u \in new : u.typ \in {"index", "tree", "gencleanup"}
    BY <1>18, <2>2 DEF AssembleHandover, IndexBuild
  <2>4. \A u \in {} \cup new : u.typ \in {"index", "tree", "gencleanup"}
    BY <2>3
  <2> QED
    BY <1>6, <1>17, <2>1, <2>3, <2>4
<1>19. CASE TreeStart(t)
  <2>1. Indexing(t) /\ UNCHANGED <<doc, row>> /\ "settle" \in Steps /\ Goto(t, "settle") /\ t.typ = "tree"
    BY <1>19 DEF TreeStart, Indexing, Starts, At, Steps
  <2>2. Moves({t}, {[t EXCEPT !.pc = "settle"]}, {}) /\ [t EXCEPT !.pc = "settle"].typ = "tree"
    BY <1>1, <2>1, GotoMoves, PcKin DEF Kin
  <2>3. \A u \in {[t EXCEPT !.pc = "settle"]} \cup {} : u.typ \in {"index", "tree", "gencleanup"}
    BY <2>2
  <2> QED
    BY <1>17, <2>1, <2>2, <2>3
<1>20. CASE TreeSettle(t)
  <2>1. t.typ = "tree" /\ t.pc = "settle" /\ UNCHANGED row /\ Only(t) /\ doc.status = "indexing"
    BY <1>3, <1>20 DEF TreeSettle, At, Settling, VerdictInv, Indexing
  <2>2. CASE ~Visible
    BY <1>14, <1>20, <2>1, <2>2 DEF TreeSettle
  <2>3. CASE Visible
    <3>1. /\ doc' = [doc EXCEPT !.status = IF doc.parse = "partial" THEN "partial" ELSE "completed"]
          /\ Moves({t}, {}, {})
      BY <1>6, <1>11, <1>20, <2>3 DEF TreeSettle
    <3>2. doc'.status = IF doc.parse = "partial" THEN "partial" ELSE "completed"
      BY <1>1, <3>1 DEF Doc
    <3>3. \A u \in {} : u.pc = "archived"
      OBVIOUS
    <3>4. \A u \in tasks' : ~Hired(u, doc'.gen)
      BY <1>1, <1>13, <2>1, <3>1, <3>3
    <3>5. Some("done") /\ doc.parse = IF Some("failed") THEN "partial" ELSE "done"
      BY <2>1 DEF VerdictInv
    <3>6. ~Some("failed") => AllAre({"done", "skipped"})
      BY <1>2 DEF Some, AllAre, Whole, PageIs
    <3>7. /\ (Some("done")' <=> Some("done")) /\ (Some("failed")' <=> Some("failed"))
          /\ AllAre({"done", "skipped"})' <=> AllAre({"done", "skipped"})
      BY <1>1, <2>1 DEF Some, AllAre, PageIs
    <3> QED
      BY <1>2, <3>2, <3>4, <3>5, <3>6, <3>7 DEF VerdictInv, PageWork, Deciding, Indexing
  <2> QED
    BY <2>2, <2>3
<1>21. CASE IndexFails(t)
  <2>1. t.typ \in {"index", "tree"} /\ t.pc # "handover" /\ Error(t) /\ UNCHANGED row /\ Only(t)
    BY <1>3, <1>21 DEF IndexFails, Starts, At, Settling
  <2>2. CASE UNCHANGED doc
    BY <1>14, <2>1, <2>2
  <2>3. CASE Final(t) /\ Visible
    <3>1. doc'.status = "failed"
      BY <1>1, <1>11, <1>21, <2>3 DEF IndexFails, Doc
    <3>2. \A u \in Errored(t) : u.pc = "archived"
      BY <1>1, <2>3, RestartKin DEF Errored
    <3>3. \A u \in tasks' : ~Hired(u, doc'.gen)
      BY <1>1, <1>7, <1>13, <2>1, <3>2
    <3> QED
      BY <1>2, <3>1, <3>3, VerdictRest
  <2> QED
    BY <1>21, <2>2, <2>3 DEF IndexFails
<1>22. ~Drop(t)
  BY <1>1 DEF Drop, Runnable, Stopped
<1> QED
  BY <1>5, <1>15, <1>16, <1>18, <1>19, <1>20, <1>21, <1>22
     DEF Work, SplitStart, SplitInit, SplitProbeFails, SplitReady, SplitHeld, RenderStart, RenderFails, RenderEmit,
         RenderAdvance, RenderGiveUp, FailedAdvance, LastAdvance, OcrSave, OcrFail, OcrStart, OcrRetry, GenCleanup,
         DeleteObjects, DeletePurge, OcrCount, OcrCountFailed, RenderCount, Starts, At, Late

LEMMA VerdictWork ==
    ASSUME Tame, Careful, PipeInv, CountInv, VerdictInv, NEW t \in tasks, Work(t) \/ Crash(t) \/ StrayPickup(t)
    PROVE  VerdictInv'
<1>1. CASE ~doc.exists
  <2>1. ~doc'.exists
    BY <1>1, WorkGen DEF PipeInv
  <2> QED
    BY <2>1, VerdictVoid
<1>2. CASE ~Hired(t, doc.gen)
  BY <1>2, VerdictElsewhere
<1>3. CASE doc.exists /\ Hired(t, doc.gen)
  <2>1. t.typ \in {"split", "ocr", "render"} \cup Late
    BY <1>3 DEF PipeInv, TypeOK, WellFormed, Tasks, TaskTypes, Hired, Late
  <2> QED
    BY <1>3, <2>1, VerdictWorker, VerdictSplit, VerdictLate
<1> QED
  BY <1>1, <1>2, <1>3

LEMMA VerdictHousekeeping ==
    ASSUME PipeInv, VerdictInv, Housekeeping
    PROVE  VerdictInv'
<1>1. /\ UNCHANGED <<doc, reqs>> /\ row \in [Page -> Row] /\ doc.gen \in Gen
      /\ (UNCHANGED row => Flow /\ SkipsKept)
  BY DEF Housekeeping, HkReset, HkAdvance, HkDispatch, HkDelete, PipeInv, TypeOK, Doc, Flow, SkipsKept
<1>2. ASSUME Flow, SkipsKept, NEW new, tasks' = Enqueue(new, tasks),
             \A u \in new : Hired(u, doc.gen) =>
                /\ PageWork(u) => doc.status \in {"parsing", "assembling"}
                /\ ~Deciding(u)
                /\ Indexing(u) => doc.status = "indexing"
      PROVE  VerdictInv'
  <2>1. \A u \in tasks' : u \in tasks \/ u \in new
    BY <1>2 DEF Enqueue
  <2>2. \A u \in tasks' : Hired(u, doc.gen) =>
           /\ PageWork(u) => doc.status \in {"parsing", "assembling"} \/ \E v \in tasks : PageWork(v)
           /\ Deciding(u) => \E v \in tasks : Deciding(v)
           /\ Indexing(u) => doc.status = "indexing" \/ \E v \in tasks : Indexing(v)
    BY <1>2, <2>1
  <2> QED
    BY <1>1, <1>2, <2>2, VerdictKept, FlowUndisturbed DEF Asked, Picked
<1>3. ASSUME NEW p \in Page, HkReset(p) PROVE VerdictInv'
  <2>1. Flow /\ SkipsKept
    BY <1>1, <1>3 DEF HkReset, Flow, SkipsKept, Busy, Row
  <2>2. tasks' = Enqueue({}, tasks)
    BY <1>3, EnqueueNone DEF HkReset
  <2> QED
    BY <1>2, <2>1, <2>2
<1>4. CASE HkAdvance
  <2>1. doc.status = "parsing" /\ tasks' = Enqueue(NewTasks(doc.gen), tasks) /\ Advance(doc.gen)
    BY <1>4 DEF HkAdvance, Stuck
  <2>2. Flow
    BY <1>1, <2>1, AdvanceFlow
  <2>3. SkipsKept
    BY <1>1, <2>1, AdvanceOne DEF SkipsKept
  <2>4. \A u \in NewTasks(doc.gen) : ~Deciding(u) /\ ~Indexing(u)
    BY NewTasksAre DEF OcrTask, RenderTask, AssembleTask, Deciding, Indexing
  <2> QED
    BY <1>2, <2>1, <2>2, <2>3, <2>4
<1>5. ASSUME NEW s, NEW typ, NEW b, HkDispatch(s, typ, b),
             \/ typ = "split"
             \/ typ = "assemble" /\ s = {"assembling"}
             \/ typ = "index" /\ s = {"indexing"}
      PROVE  VerdictInv'
  <2>1. LET u == DocTask(typ, doc.gen, b) IN u.typ = typ /\ u.pc = "queued"
    BY DEF DocTask, Task
  <2>2. doc.status \in s /\ tasks' = Enqueue({DocTask(typ, doc.gen, b)}, tasks) /\ UNCHANGED row
    BY <1>5 DEF HkDispatch, Stuck
  <2>3. \A u \in {DocTask(typ, doc.gen, b)} :
           /\ PageWork(u) => doc.status \in {"parsing", "assembling"}
           /\ ~Deciding(u)
           /\ Indexing(u) => doc.status = "indexing"
    BY <1>5, <2>1, <2>2 DEF PageWork, Deciding, Indexing
  <2> QED
    BY <1>1, <1>2, <2>2, <2>3
<1>6. ASSUME NEW b, HkDelete(b) PROVE VerdictInv'
  <2>1. ~Hired(DocTask("delete", 0, b), doc.gen)
    BY DEF DocTask, Task, Hired
  <2>2. tasks' = Enqueue({DocTask("delete", 0, b)}, tasks) /\ UNCHANGED row
    BY <1>6 DEF HkDelete
  <2>3. \A u \in {DocTask("delete", 0, b)} : ~Hired(u, doc.gen)
    BY <2>1
  <2> QED
    BY <1>1, <1>2, <2>2, <2>3
<1> QED
  BY <1>3, <1>4, <1>5, <1>6 DEF Housekeeping

LEMMA VerdictAsk ==
    ASSUME Careful, Either, PipeInv, VerdictInv, Ask
    PROVE  VerdictInv'
<1>1. /\ TypeOK /\ GenInv /\ StatusInv /\ MarkInv /\ doc \in Doc /\ doc.gen \in Nat /\ UNCHANGED <<row, tasks>>
      /\ \A r \in reqs : r.gen \in Nat
  BY SizeAssumption DEF PipeInv, TypeOK, Doc, Reqs, Gen, Ask, CancelCheck, DeleteMark, ReparseBump, PagesCheck
<1>2. CASE CancelCheck
  <2>1. Request("cancel", doc.gen, {}, "write").op = "cancel"
    BY DEF Request
  <2>2. reqs' = reqs \cup {Request("cancel", doc.gen, {}, "write")} /\ UNCHANGED doc
    BY <1>2 DEF CancelCheck, Open
  <2>3. (Asked(doc.gen)' <=> Asked(doc.gen)) /\ (Picked' <=> Picked)
    BY <2>1, <2>2 DEF Asked, Picked
  <2>4. Flow /\ SkipsKept
    BY <1>1 DEF Flow, SkipsKept
  <2> QED
    BY <1>1, <2>2, <2>3, <2>4, VerdictKept, FlowUndisturbed
<1>3. CASE DeleteMark
  <2>1. doc'.status = "deleting"
    BY <1>1, <1>3 DEF DeleteMark, Doc
  <2> QED
    BY <2>1, VerdictVoid DEF Stopped
<1>4. CASE ReparseBump
  <2>1. doc'.gen = doc.gen + 1 /\ doc'.status = "queued"
    BY <1>1, <1>4 DEF ReparseBump, Doc
  <2>2. (\A u \in tasks : u.gen # doc'.gen) /\ \A r \in reqs : r.gen # doc'.gen
    <3>1. \A u \in tasks : u.gen \in Int
      BY <1>1, SizeAssumption DEF TypeOK, WellFormed, Tasks
    <3> QED
      BY <1>1, <2>1, <3>1 DEF GenInv, NoneAhead
  <2>3. Request("reparse", doc.gen + 1, {}, "enqueue").op = "reparse"
    BY DEF Request
  <2>4. ~Asked(doc.gen)' /\ ~Picked'
    BY <1>4, <2>2, <2>3 DEF ReparseBump, Open, Asked, Picked
  <2> QED
    BY <1>1, <2>1, <2>2, <2>4, VerdictRest DEF Hired
<1>5. ASSUME NEW P \in (SUBSET Page) \ {{}}, PagesCheck(P) PROVE VerdictInv'
  <2>1. /\ NoPageRequest /\ UNCHANGED doc /\ doc.exists /\ ~doc.deleted
        /\ reqs' = reqs \cup {Request("pages", doc.gen, P, "reset")}
        /\ doc.status \in Terminal \ {"cancelled"} /\ \A p \in P : p <= doc.pageCount
    BY <1>5 DEF PagesCheck, SerialPages, Open, Either, Visible
  <2>2. doc.status \in {"completed", "partial", "failed", "not_started"}
    BY <1>1, <2>1 DEF MarkInv, Terminal
  <2>3. Nobody(doc.gen)
    BY <1>1, <2>1, <2>2 DEF StatusInv
  <2>4. doc.pageCount = N
    <3>1. PICK p \in P : p \in Page /\ p <= doc.pageCount
      BY <1>5, <2>1
    <3> QED
      BY <1>1, <3>1, SizeAssumption DEF Doc, Page
  <2>5. PICK q : q = Request("pages", doc.gen, P, "reset") /\ q.op = "pages" /\ q.gen = doc.gen /\ q.pc = "reset"
    <3>1. LET q == Request("pages", doc.gen, P, "reset") IN q.op = "pages" /\ q.gen = doc.gen /\ q.pc = "reset"
      BY DEF Request
    <3> QED
      BY <3>1
  <2>6. Asked(doc.gen)' /\ ~Picked'
    BY <2>1, <2>5 DEF Asked, Picked, NoPageRequest
  <2> QED
    BY <1>1, <2>1, <2>2, <2>3, <2>4, <2>6, VerdictRest DEF Nobody
<1> QED
  BY <1>2, <1>3, <1>4, <1>5 DEF Ask

(* While a request for pages is served, nobody works for its generation.   *)
LEMMA VerdictPages ==
    ASSUME Careful, PipeInv, VerdictInv, doc.exists, NEW r \in reqs, r.op = "pages", r.gen = doc.gen, ServeStep(r)
    PROVE  VerdictInv'
<1>1. /\ TypeOK /\ GenInv /\ TurnInv /\ StatusInv /\ QuietInv /\ doc \in Doc /\ r \in Reqs /\ row \in [Page -> Row]
      /\ doc.gen \in Gen
  BY DEF PipeInv, TypeOK, Doc
<1>2. Nobody(doc.gen) /\ Asked(doc.gen)
  BY <1>1 DEF QuietInv, Asked
<1>3. doc.status \in Stopped \cup IF r.pc = "advance" THEN {"parsing"} ELSE Terminal
  BY <1>1 DEF StatusInv, Stopped, Terminal
<1>4. doc.status \notin Stopped => doc.pageCount = N /\ (r.pc \in {"parse", "advance"} => Skips)
  BY <1>2 DEF VerdictInv, Picked
<1>5. \A x \in reqs : x.op = "pages" => x = r
  BY <1>1 DEF TurnInv, OnePages
<1>6. doc.status \in Stopped /\ doc'.status = doc.status => VerdictInv'
  BY VerdictVoid
(* The request goes on to its next statement.                              *)
<1>7. ASSUME NEW q, q.op = "pages", q.gen = doc.gen, reqs' = (reqs \ {r}) \cup {q}, UNCHANGED tasks, doc'.gen = doc.gen,
             doc'.pageCount = N, q.pc \in {"parse", "advance"} => Skips',
             \/ doc'.status \in Terminal /\ q.pc # "advance"
             \/ doc'.status = "parsing" /\ q.pc = "advance"
      PROVE  VerdictInv'
  <2>1. Asked(doc.gen)' /\ \A x \in reqs' : x.op = "pages" => x = q
    BY <1>5, <1>7 DEF Asked
  <2>2. \A u \in tasks' : ~Hired(u, doc'.gen)
    BY <1>2, <1>7 DEF Nobody
  <2>3. Picked' => Skips'
    BY <1>7, <2>1 DEF Picked
  <2>4. CASE doc'.status \in Terminal
    <3>1. \/ doc'.status \in Stopped
          \/ doc'.status \in {"queued", "splitting", "not_started", "failed"}
          \/ doc'.status \in {"completed", "partial"} /\ Asked(doc.gen)'
      BY <2>1, <2>4 DEF Terminal, Stopped
    <3> QED
      BY <1>7, <2>2, <2>3, <3>1, VerdictRest, VerdictVoid
  <2>5. CASE doc'.status = "parsing" /\ q.pc = "advance"
    BY <1>7, <2>1, <2>2, <2>3, <2>5 DEF VerdictInv, PageWork, Deciding, Indexing
  <2> QED
    BY <1>7, <2>4, <2>5
<1>8. ASSUME doc.status \notin Stopped, NEW pc, Serve(r, pc)
      PROVE  \E q : q.op = "pages" /\ q.gen = doc.gen /\ q.pc = pc /\ reqs' = (reqs \ {r}) \cup {q}
  <2>1. LET q == [r EXCEPT !.pc = pc] IN q.op = "pages" /\ q.gen = doc.gen /\ q.pc = pc
    BY <1>1 DEF Reqs
  <2> QED
    BY <1>8, <2>1 DEF Serve
<1>9. CASE PagesReset(r)
  <2>1. UNCHANGED <<doc, tasks>> /\ r.pc = "reset"
    BY <1>9 DEF PagesReset, In
  <2>2. PICK d, f : reqs' = (reqs \ {r}) \cup {[r EXCEPT !.pc = "adjust", !.done = d, !.failed = f]}
    BY <1>9 DEF PagesReset
  <2>3. LET q == [r EXCEPT !.pc = "adjust", !.done = d, !.failed = f]
        IN  q.op = "pages" /\ q.gen = doc.gen /\ q.pc = "adjust"
    BY <1>1 DEF Reqs
  <2>4. PICK q : q.op = "pages" /\ q.gen = doc.gen /\ q.pc = "adjust" /\ reqs' = (reqs \ {r}) \cup {q}
    BY <2>2, <2>3
  <2> QED
    BY <1>3, <1>4, <1>6, <1>7, <2>1, <2>4
<1>10. CASE PagesAdjust(r) \/ PagesPick(r)
  <2>1. /\ doc'.status = doc.status /\ doc'.gen = doc.gen /\ doc'.pageCount = doc.pageCount /\ UNCHANGED tasks
        /\ r.pc # "advance"
    BY <1>1, <1>10 DEF PagesAdjust, PagesPick, In, Doc
  <2>2. PICK pc \in {"pick", "parse"} : Serve(r, pc) /\ (pc = "parse" => PagesPick(r))
    BY <1>10 DEF PagesAdjust, PagesPick
  <2>3. PagesPick(r) /\ doc.pageCount = N => Skips'
    <3> SUFFICES ASSUME PagesPick(r), doc.pageCount = N PROVE Skips'
      OBVIOUS
    <3>1. doc'.skipped = Cardinality(Rows(doc.gen, "skipped")) /\ doc'.gen = doc.gen /\ doc'.pageCount = N /\ UNCHANGED row
      BY <1>1 DEF PagesPick, Counted, Doc
    <3> QED
      BY <3>1 DEF Skips, Rows
  <2>4. CASE doc.status \notin Stopped
    <3>1. PICK q : q.op = "pages" /\ q.gen = doc.gen /\ q.pc = pc /\ reqs' = (reqs \ {r}) \cup {q}
      BY <1>8, <2>2, <2>4
    <3>2. doc'.status \in Terminal /\ q.pc # "advance" /\ doc.pageCount = N
      BY <1>3, <1>4, <2>1, <2>2, <2>4, <3>1
    <3>3. q.pc \in {"parse", "advance"} => Skips'
      BY <2>2, <2>3, <3>1, <3>2
    <3> QED
      BY <1>7, <2>1, <3>1, <3>2, <3>3
  <2> QED
    BY <1>6, <2>1, <2>4
<1>11. CASE PagesParse(r)
  <2>1. r.pc = "parse" /\ UNCHANGED <<row, tasks>> /\ Serve(r, "advance")
    BY <1>11 DEF PagesParse, In
  <2>2. CASE doc.status \in Stopped
    <3>1. UNCHANGED doc
      BY <1>11, <2>2 DEF PagesParse, Update, Stopped
    <3> QED
      BY <1>6, <2>2, <3>1
  <2>3. CASE doc.status \notin Stopped
    <3>1. /\ doc'.status = "parsing" /\ doc'.gen = doc.gen /\ doc'.pageCount = doc.pageCount /\ doc'.skipped = doc.skipped
      BY <1>1, <1>11, <2>3 DEF PagesParse, Update, Stopped, Doc
    <3>2. Skips' /\ doc'.pageCount = N
      BY <1>4, <2>1, <2>3, <3>1 DEF Skips, Rows
    <3>3. PICK q : q.op = "pages" /\ q.gen = doc.gen /\ q.pc = "advance" /\ reqs' = (reqs \ {r}) \cup {q}
      BY <1>8, <2>1, <2>3
    <3> QED
      BY <1>7, <2>1, <3>1, <3>2, <3>3
  <2> QED
    BY <2>2, <2>3
<1>12. CASE PagesAdvance(r)
  <2>1. UNCHANGED doc /\ Advance(doc.gen) /\ tasks' = Enqueue(NewTasks(doc.gen), tasks) /\ reqs' = reqs \ {r} /\ r.pc = "advance"
    BY <1>12 DEF PagesAdvance, Close, In
  <2>2. Flow
    BY <1>1, <2>1, AdvanceFlow
  <2>3. SkipsKept
    BY <1>1, <2>1, AdvanceOne DEF SkipsKept
  <2>4. \A u \in NewTasks(doc.gen) : ~Deciding(u) /\ ~Indexing(u)
    BY NewTasksAre DEF OcrTask, RenderTask, AssembleTask, Deciding, Indexing
  <2>5. \A u \in tasks' : u \in tasks \/ u \in NewTasks(doc.gen)
    BY <2>1 DEF Enqueue
  <2>6. CASE doc.status = "parsing"
    BY <1>2, <2>1, <2>2, <2>3, <2>4, <2>5, <2>6, VerdictKept, FlowUndisturbed DEF Nobody, Asked, Picked
  <2> QED
    BY <1>3, <1>6, <2>1, <2>6
<1> QED
  BY <1>9, <1>10, <1>11, <1>12 DEF ServeStep, CancelWrite, DeleteEnqueue, ReparseEnqueue, In

LEMMA VerdictServe ==
    ASSUME Careful, Either, PipeInv, VerdictInv, NEW r \in reqs, ServeStep(r) \/ RequestDies(r)
    PROVE  VerdictInv'
<1>1. /\ TypeOK /\ GenInv /\ doc \in Doc /\ r \in Reqs /\ r.gen \in Gen /\ row \in [Page -> Row]
      /\ RequestDies(r) => r.op # "pages"
  BY DEF PipeInv, TypeOK, Reqs, RequestDies, CanCrash, Either, GenInv, AsAsked
<1>2. CASE ~doc.exists
  <2>1. ~doc'.exists
    BY <1>1, <1>2 DEF ServeStep, CancelWrite, DeleteEnqueue, ReparseEnqueue, PagesReset, PagesAdjust, PagesPick,
                      PagesParse, PagesAdvance, Counted, Update, RequestDies
  <2> QED
    BY <2>1, VerdictVoid
<1>3. ASSUME UNCHANGED doc, Undisturbed,
             \A u \in tasks' : Hired(u, doc.gen) => u \in tasks \/ (u.typ = "split" /\ u.pc = "queued"),
             \A x : x.op = "pages" /\ x.gen = doc.gen => (x \in reqs' <=> x \in reqs)
      PROVE  VerdictInv'
  <2>1. (Asked(doc.gen)' <=> Asked(doc.gen)) /\ (Picked' <=> Picked)
    BY <1>3 DEF Asked, Picked
  <2>2. \A u \in tasks' : Hired(u, doc.gen) =>
           /\ PageWork(u) => \E v \in tasks : PageWork(v)
           /\ Deciding(u) => \E v \in tasks : Deciding(v)
           /\ Indexing(u) => \E v \in tasks : Indexing(v)
    BY <1>3 DEF PageWork, Deciding, Indexing
  <2> QED
    BY <1>3, <2>1, <2>2, VerdictKept
<1>4. UNCHANGED row => Undisturbed
  BY DEF Undisturbed
<1>5. CASE CancelWrite(r)
  <2>1. CASE Counted(r.gen)
    <3>1. doc'.status = "cancelled"
      BY <1>1, <1>5, <2>1 DEF CancelWrite, Doc
    <3> QED
      BY <3>1, VerdictVoid DEF Stopped
  <2>2. CASE ~Counted(r.gen)
    BY <1>3, <1>4, <1>5, <2>2 DEF CancelWrite, Close, In
  <2> QED
    BY <2>1, <2>2
<1>6. CASE DeleteEnqueue(r) \/ ReparseEnqueue(r)
  <2>1. PICK typ \in {"delete", "split"} : \E g : tasks' = Enqueue({DocTask(typ, g, 0)}, tasks)
    BY <1>6 DEF DeleteEnqueue, ReparseEnqueue
  <2>2. \A g : DocTask(typ, g, 0).pc = "queued" /\ DocTask(typ, g, 0).typ = typ
    BY DEF DocTask, Task
  <2>3. \A u \in tasks' : Hired(u, doc.gen) => u \in tasks \/ (u.typ = "split" /\ u.pc = "queued")
    BY <2>1, <2>2 DEF Enqueue, Hired
  <2> QED
    BY <1>3, <1>4, <1>6, <2>3 DEF DeleteEnqueue, ReparseEnqueue, Close, In
<1>7. CASE r.op = "pages" /\ r.gen = doc.gen /\ doc.exists
  BY <1>1, <1>7, VerdictPages
<1>9. CASE RequestDies(r)
  BY <1>1, <1>3, <1>4, <1>9 DEF RequestDies, Close
<1>8. CASE r.op = "pages" /\ r.gen # doc.gen
  <2>1. UNCHANGED doc
    BY <1>1, <1>8 DEF ServeStep, CancelWrite, DeleteEnqueue, ReparseEnqueue, PagesReset, PagesAdjust, PagesPick,
                      PagesParse, PagesAdvance, Counted, Update, In
  <2>2. Undisturbed
    <3>1. PagesReset(r) => Undisturbed
      BY <1>1, <1>8 DEF PagesReset, Undisturbed, Row
    <3>2. PagesAdvance(r) => Undisturbed
      <4>1. PagesAdvance(r) => \A p \in Page : row'[p].gen = row[p].gen /\ (row[p].gen # r.gen => row'[p] = row[p])
        BY <1>1, AdvanceOne DEF PagesAdvance
      <4> QED
        BY <1>8, <4>1 DEF Undisturbed
    <3> QED
      BY <1>1, <1>4, <1>8, <3>1, <3>2
         DEF ServeStep, CancelWrite, DeleteEnqueue, ReparseEnqueue, PagesAdjust, PagesPick, PagesParse, In
  <2>3. \A u \in tasks' : Hired(u, doc.gen) => u \in tasks
    <3>1. \A u \in NewTasks(r.gen) : u.gen = r.gen
      BY NewTasksAre
    <3> QED
      BY <1>1, <1>8, <3>1 DEF ServeStep, CancelWrite, DeleteEnqueue, ReparseEnqueue, PagesReset, PagesAdjust, PagesPick,
                              PagesParse, PagesAdvance, In, Enqueue, Hired
  <2>4. \A x : x.op = "pages" /\ x.gen = doc.gen => (x \in reqs' <=> x \in reqs)
    BY <1>1, <1>8, ServeRuns DEF Runs
  <2> QED
    BY <1>3, <2>1, <2>2, <2>3, <2>4
<1> QED
  BY <1>1, <1>2, <1>5, <1>6, <1>7, <1>8, <1>9
     DEF ServeStep, PagesReset, PagesAdjust, PagesPick, PagesParse, PagesAdvance, In

LEMMA VerdictInit == Init => VerdictInv
<1> SUFFICES ASSUME Init PROVE VerdictInv
  OBVIOUS
<1>1. doc.status = "queued" /\ reqs = {}
  BY DEF Init
<1>2. \A t \in tasks : t.typ = "split" /\ t.pc = "queued"
  <2>1. LET d == DocTask("split", 1, 0) IN d.typ = "split" /\ d.pc = "queued"
    BY DEF DocTask, Task
  <2> QED
    BY <2>1 DEF Init
<1> QED
  BY <1>1, <1>2 DEF VerdictInv, PageWork, Deciding, Indexing, Asked, Picked

LEMMA VerdictStep == Tame /\ Careful /\ Either /\ PipeInv /\ CountInv /\ VerdictInv /\ [Next]_vars => VerdictInv'
<1> SUFFICES ASSUME Tame, Careful, Either, PipeInv, CountInv, VerdictInv, [Next]_vars PROVE VerdictInv'
  OBVIOUS
<1>1. CASE UNCHANGED vars
  <2>1. Undisturbed /\ (Asked(doc.gen)' <=> Asked(doc.gen)) /\ (Picked' <=> Picked)
    BY <1>1 DEF vars, Undisturbed, Asked, Picked
  <2> QED
    BY <1>1, <2>1, VerdictKept DEF vars
<1> QED
  BY <1>1, VerdictWork, VerdictHousekeeping, VerdictAsk, VerdictServe DEF Next, WorkStep

(* Where no task of a parse dies, a document is called completed only when *)
(* every page chosen was read, and partial only when some were and some    *)
(* were not (handleAssemble, SetIndexResult): the counters the verdict is  *)
(* drawn from are what they count at that moment, and nothing moves the    *)
(* pages before the index settles the document.                            *)
THEOREM VerdictIsTrue ==
    ASSUME Tame, Either, Careful
    PROVE  Spec => []VerdictTrue
<1>1. Tame /\ Either /\ Careful
  OBVIOUS
<1>2. VerdictInv => VerdictTrue
  BY DEF VerdictInv, VerdictTrue, NoPageRequest, Asked, Some, AllAre, Stopped
<1> QED
  BY <1>1, <1>2, VerdictInit, VerdictStep, PipeAlways, CountsFollow, PTL DEF Spec

-----------------------------------------------------------------------------
(* Steps of the lifecycle, in terms of the documents row and its pages.    *)

Life == Lifecycle!Next \/ UNCHANGED Lifecycle!vars
PagesKept == \A s \in {"done", "failed", "skipped"} : Rows(doc.gen, s)' = Rows(doc.gen, s)

LEMMA LifeStill ==
    ASSUME doc'.status = doc.status, doc'.gen = doc.gen, PagesKept
    PROVE  Life
BY DEF Life, PagesKept, Lifecycle!vars

LEMMA LifeStops ==
    ASSUME doc'.gen = doc.gen, PagesKept,
           \/ doc'.status = "deleting"
           \/ doc'.status = "cancelled" /\ doc.status # "deleting"
    PROVE  Life
BY DEF Life, PagesKept, Lifecycle!Next, Lifecycle!Delete, Lifecycle!Cancel, Lifecycle!pages
LEMMA LifeMoves ==
    ASSUME doc'.gen = doc.gen, PagesKept,
           \/ doc.status = "queued" /\ doc'.status = "splitting"
           \/ doc.status = "splitting" /\ doc'.status \in {"parsing", "failed"}
           \/ doc.status = "splitting" /\ doc'.status = "not_started" /\ AllAre({"skipped"})
           \/ doc.status = "parsing" /\ doc'.status = "assembling" /\ Whole
           \/ doc.status = "assembling" /\ doc'.status = "indexing" /\ Whole /\ Some("done")
           \/ doc.status = "assembling" /\ doc'.status = "failed" /\ ~Some("done")
           \/ doc.status = "indexing" /\ doc'.status = "failed"
           \/ doc.status = "indexing" /\ doc'.status = "completed" /\ Whole /\ ~Some("failed")
           \/ doc.status = "indexing" /\ doc'.status = "partial" /\ Whole /\ Some("failed") /\ Some("done")
           \/ doc.status \in {"completed", "partial", "failed", "not_started"} /\ doc'.status = "parsing"
    PROVE  Life
<1>1. UNCHANGED <<doc.gen, Rows(doc.gen, "done"), Rows(doc.gen, "failed"), Rows(doc.gen, "skipped")>>
  BY DEF PagesKept
<1>2. Whole => Lifecycle!Whole
  BY DEF Whole, AllAre, PageIs, Rows, Lifecycle!Whole
<1>3. \A s : Some(s) <=> Rows(doc.gen, s) # {}
  BY DEF Some, PageIs, Rows
<1>4. AllAre({"skipped"}) => Rows(doc.gen, "skipped") = Page
  BY DEF AllAre, PageIs, Rows
<1> QED
  BY <1>1, <1>2, <1>3, <1>4
     DEF Life, Lifecycle!Next, Lifecycle!Split, Lifecycle!Parse, Lifecycle!Held, Lifecycle!Assemble, Lifecycle!Index,
         Lifecycle!Complete, Lifecycle!Partial, Lifecycle!Fail, Lifecycle!Resume, Lifecycle!Move, Lifecycle!pages,
         Lifecycle!Finished

Settled == {"done", "failed", "skipped"}

(* Only pages that are in work, or wait for it, move.                      *)
LEMMA PagesStay ==
    ASSUME doc'.gen = doc.gen,
           \A p \in Page : /\ row'[p].gen = row[p].gen
                           /\ row[p].gen = doc.gen => \/ row'[p].st = row[p].st
                                                      \/ row'[p].st \notin Settled /\ row[p].st \notin Settled
    PROVE  PagesKept
BY DEF PagesKept, Rows, Settled

LEMMA LifeFinish ==
    ASSUME row \in [Page -> Row], doc'.status = doc.status, doc'.gen = doc.gen,
           doc.status \in {"parsing"} \cup Stopped,
           NEW p \in Page, NEW s \in {"done", "failed"}, row' = [row EXCEPT ![p].st = s],
           row[p].gen = doc.gen, row[p].st \notin Settled
    PROVE  Life
<1>1. \A q \in Page : row'[q].gen = row[q].gen /\ row'[q].st = IF q = p THEN s ELSE row[q].st
  BY DEF Row
<1>2. Rows(doc.gen, s)' = Rows(doc.gen, s) \cup {p}
  BY <1>1 DEF Rows
<1>3. \A o \in Settled \ {s} : Rows(doc.gen, o)' = Rows(doc.gen, o)
  BY <1>1 DEF Rows, Settled
<1>4. \A o \in Settled : p \notin Rows(doc.gen, o)
  BY DEF Rows
<1>5. Lifecycle!FinishPage(p)
  BY <1>2, <1>3, <1>4 DEF Lifecycle!FinishPage, Lifecycle!Stopped, Stopped, Settled
<1> QED
  BY <1>5 DEF Life, Lifecycle!Next

LEMMA LifePutBack ==
    ASSUME doc'.status = doc.status, doc'.gen = doc.gen, doc.status \in Terminal,
           NEW P \in SUBSET Page,
           \A p \in Page : /\ row'[p].gen = row[p].gen
                           /\ row'[p].st = row[p].st \/ p \in P
                           /\ p \in P => row'[p].st \notin Settled
    PROVE  Life
<1>1. \A s \in Settled : Rows(doc.gen, s)' = Rows(doc.gen, s) \ P
  BY DEF Rows, Settled
<1>2. Lifecycle!PutBack(P)
  BY <1>1 DEF Lifecycle!PutBack, Lifecycle!Stopped, Lifecycle!Finished, Terminal, Settled
<1> QED
  BY <1>2 DEF Life, Lifecycle!Next

LEMMA LifeProbe ==
    ASSUME UNCHANGED doc, doc.status \in {"splitting"} \cup Stopped,
           \A p \in Page : row[p].gen = doc.gen => row[p].st \in {"pending", "skipped"},
           NEW s \in {"pending", "skipped"}, row' = FreshRows(doc.gen, s)
    PROVE  Life
<1>1. \A o \in {"done", "failed"} : Rows(doc.gen, o) = {} /\ Rows(doc.gen, o)' = {}
  BY DEF Rows, FreshRows
<1>2. Rows(doc.gen, "skipped")' \in {{}, Page}
  BY DEF Rows, FreshRows
<1>3. Lifecycle!Probe
  BY <1>1, <1>2 DEF Lifecycle!Probe, Lifecycle!Stopped, Stopped
<1> QED
  BY <1>3 DEF Life, Lifecycle!Next

LEMMA LifePurge ==
    ASSUME doc'.status = doc.status, doc'.gen = doc.gen, doc.status = "deleting", doc.gen \in Gen,
           row' = [p \in Page |-> NoRow]
    PROVE  Life
<1>1. \A s : Rows(doc.gen, s)' = {}
  BY SizeAssumption DEF Rows, NoRow, Gen
<1>2. Lifecycle!Purge
  BY <1>1 DEF Lifecycle!Purge
<1> QED
  BY <1>2 DEF Life, Lifecycle!Next

LEMMA LifeReparse ==
    ASSUME doc.status # "deleting", doc'.status = "queued", doc'.gen = doc.gen + 1,
           UNCHANGED row, \A p \in Page : row[p].gen # doc'.gen
    PROVE  Life
<1>1. \A s : Rows(doc.gen, s)' = {}
  BY DEF Rows
<1>2. Lifecycle!Reparse
  BY <1>1 DEF Lifecycle!Reparse
<1> QED
  BY <1>2 DEF Life, Lifecycle!Next

-----------------------------------------------------------------------------
(* The steps of tasks.                                                     *)

(* The status of a document says where its tasks are: a split that has     *)
(* begun keeps it splitting, a document being indexed has nothing else     *)
(* going on, and only one being deleted is purged.                         *)
Probing(t) == Hired(t, doc.gen) /\ t.typ = "split" /\ t.pc \notin {"queued", "advance"}
Purging(t) == t.typ = "delete" /\ t.pc = "purge"
Orderly ==
    doc.exists =>
        /\ doc.status = "indexing" => \A t \in tasks : Hired(t, doc.gen) => Indexing(t)
        /\ \A t \in tasks : Probing(t) => doc.status \in {"splitting"} \cup Stopped
PurgesDeleted == \A t \in tasks : Purging(t) => doc.status = "deleting"

LEMMA LifeElsewhere ==
    ASSUME PipeInv, PurgesDeleted, NEW t \in tasks, ~Hired(t, doc.gen), Work(t) \/ Crash(t) \/ StrayPickup(t)
    PROVE  Life
<1>1. /\ TypeOK /\ TurnInv /\ t \in Tasks /\ t.pc # "archived" /\ doc \in Doc /\ doc.gen \in Gen /\ doc'.gen = doc.gen
  BY WorkLive, WorkGen DEF PipeInv, TypeOK, WellFormed, Doc
<1>2. UNCHANGED <<doc, row>> => Life
  BY LifeStill, PagesStay
<1>3. CASE DeletePurge(t)
  <2>1. doc.status = "deleting" /\ doc'.status = doc.status
    BY <1>1, <1>3 DEF DeletePurge, At, PurgesDeleted, Purging, Doc
  <2> QED
    BY <1>1, <1>3, <2>1, LifePurge DEF DeletePurge
<1>4. CASE t.typ # "delete" /\ t.gen # doc.gen
  <2>1. UNCHANGED doc /\ \A p \in Page : row'[p].gen = row[p].gen /\ (row[p].gen # t.gen => row'[p].st = row[p].st)
    BY <1>1, <1>4, Elsewhere
  <2> QED
    BY <1>4, <2>1, LifeStill, PagesStay
<1>5. CASE t.typ \in {"gencleanup", "delete"} /\ ~DeletePurge(t)
  <2>1. UNCHANGED <<doc, row>>
    BY <1>5
       DEF Work, Crash, StrayPickup, Drop, SplitStart, SplitInit, SplitProbeFails, SplitReady, SplitHeld, RenderStart,
           RenderFails, RenderEmit, RenderAdvance, RenderGiveUp, FailedAdvance, LastAdvance, OcrSave, OcrFail,
           RenderCount, OcrStart, OcrRetry, OcrCount, OcrCountFailed, AssembleStart, AssembleDecide,
           AssembleHandover, IndexBuild, TreeStart, TreeSettle, IndexFails, GenCleanup, DeleteObjects, Starts, At
  <2> QED
    BY <1>2, <2>1
<1> QED
  BY <1>1, <1>3, <1>4, <1>5 DEF Hired

(* A page in the hands of a worker belongs to a document that is parsed,   *)
(* or stopped.                                                             *)
LEMMA InWorkParsing ==
    ASSUME Careful, PipeInv, doc.exists, NEW t \in tasks, t.typ \in {"ocr", "render"}, Hired(t, doc.gen),
           NEW p \in Page, row[p].gen = doc.gen, row[p].st \notin Settled
    PROVE  doc.status \in {"parsing"} \cup Stopped
<1>1. StatusInv /\ QuietInv /\ doc.status \in DocStatus
  BY DEF PipeInv, TypeOK, Doc
<1>2. ~Blank /\ ~Nobody(doc.gen)
  BY DEF Blank, Nobody
<1>3. ~Asked(doc.gen)
  BY <1>1, <1>2 DEF QuietInv, Asked
<1>4. ~Whole
  BY DEF Whole, AllAre, PageIs, Settled
<1> QED
  BY <1>1, <1>2, <1>3, <1>4 DEF StatusInv, DocStatus, Stopped

LEMMA LifeWorker ==
    ASSUME Careful, PipeInv, doc.exists, NEW t \in tasks, t.typ \in {"ocr", "render"}, Hired(t, doc.gen),
           Work(t) \/ Crash(t) \/ StrayPickup(t)
    PROVE  Life
<1>1. /\ TypeOK /\ WorkerInv /\ t \in Tasks /\ t.pc # "archived" /\ doc \in Doc /\ t.gen = doc.gen
      /\ row \in [Page -> Row] /\ doc'.gen = doc.gen /\ doc.gen \in Gen
  BY WorkLive, WorkGen DEF PipeInv, TypeOK, WellFormed, Hired, Doc
<1>2. InHand(t)
  BY <1>1 DEF WorkerInv, Worker
<1>3. \A c \in {"done", "failed"} : CountPage(t.gen, c) => doc'.status = doc.status
  BY <1>1 DEF CountPage, Doc
<1>4. doc'.status = doc.status
  BY <1>3
     DEF Work, Crash, StrayPickup, Drop, SplitStart, SplitInit, SplitProbeFails, SplitReady, SplitHeld, RenderStart,
         RenderFails, RenderEmit, RenderAdvance, RenderGiveUp, RenderCount, FailedAdvance, LastAdvance, OcrSave, OcrFail,
         OcrStart, OcrRetry, OcrCount, OcrCountFailed, AssembleStart, AssembleDecide, AssembleHandover, IndexBuild,
         TreeStart, TreeSettle, IndexFails, GenCleanup, DeleteObjects, DeletePurge, Starts, At
<1>5. UNCHANGED row => Life
  BY <1>1, <1>4, LifeStill, PagesStay
<1>6. ASSUME NEW p \in Page, NEW s \in {"done", "failed"}, SetPage(p, t.gen, s), row[p].gen = t.gen => row[p].st \in Busy
      PROVE  Life
  <2>1. CASE row[p].gen = doc.gen
    <3>1. row[p].st \notin Settled
      BY <1>1, <1>6, <2>1 DEF Busy, Settled
    <3>2. doc.status \in {"parsing"} \cup Stopped
      BY <2>1, <3>1, InWorkParsing
    <3> QED
      BY <1>1, <1>4, <1>6, <2>1, <3>1, <3>2, LifeFinish DEF SetPage
  <2>2. CASE row[p].gen # doc.gen
    BY <1>1, <1>5, <1>6, <2>2 DEF SetPage
  <2> QED
    BY <2>1, <2>2
<1>7. CASE OcrSave(t) \/ OcrFail(t)
  <2>1. t.typ = "ocr" /\ t.pc = "read" /\ \E s \in {"done", "failed"} : SetPage(t.page, t.gen, s)
    BY <1>7 DEF OcrSave, OcrFail, At
  <2>2. t.page \in Page /\ (row[t.page].gen = t.gen => row[t.page].st \in Busy)
    BY <1>1, <1>2, <2>1 DEF InHand, OcrHand, Tasks, Busy
  <2> QED
    BY <1>6, <2>1, <2>2
<1>8. CASE RenderGiveUp(t)
  <2>1. t.left \in SUBSET Page /\ t.left # {}
    BY <1>1, <1>8 DEF RenderGiveUp, Tasks
  <2>2. Least(t.left) \in Page
    BY <2>1, LeastIn
  <2> QED
    BY <1>5, <1>6, <1>8, <2>2 DEF RenderGiveUp, Busy
<1>9. CASE RenderEmit(t)
  <2>1. t.typ = "render" /\ t.pc = "emit"
    BY <1>9 DEF RenderEmit, At
  <2>2. t.left \in SUBSET Page /\ t.left # {}
    BY <1>1, <1>2, <2>1 DEF InHand, RenderHand, Tasks
  <2>3. PICK p \in t.left : row' = IF row[p].gen = t.gen THEN [row EXCEPT ![p].st = "rendered", ![p].img = TRUE] ELSE row
    BY <1>9, <2>2, LeastIn DEF RenderEmit
  <2>4. row[p].gen = t.gen => row[p].st = "rendering"
    BY <1>2, <2>1, <2>3 DEF InHand, RenderHand
  <2>5. \A q \in Page : /\ row'[q].gen = row[q].gen
                        /\ row'[q].st = row[q].st \/ (row'[q].st \notin Settled /\ row[q].st \notin Settled)
    BY <1>1, <2>3, <2>4 DEF Row, Settled
  <2> QED
    BY <1>1, <1>4, <2>5, LifeStill, PagesStay
<1>10. CASE LastAdvance(t) \/ RenderAdvance(t) \/ FailedAdvance(t)
  <2>1. Advance(doc.gen)
    BY <1>1, <1>10 DEF LastAdvance, RenderAdvance, FailedAdvance
  <2>2. \A q \in Page : /\ row'[q].gen = row[q].gen
                        /\ row'[q].st = row[q].st \/ (row'[q].st \notin Settled /\ row[q].st \notin Settled)
    BY <1>1, <2>1, AdvanceOne DEF Settled
  <2> QED
    BY <1>1, <1>4, <2>2, LifeStill, PagesStay
<1> QED
  BY <1>5, <1>7, <1>8, <1>9, <1>10
     DEF Work, Crash, StrayPickup, Drop, SplitStart, SplitInit, SplitProbeFails, SplitReady, SplitHeld, RenderStart,
         RenderFails, RenderCount, OcrStart, OcrRetry, OcrCount, OcrCountFailed, AssembleStart, AssembleDecide,
         AssembleHandover, IndexBuild, TreeStart, TreeSettle, IndexFails, GenCleanup, DeleteObjects, DeletePurge,
         Starts, At

LEMMA LifeSplit ==
    ASSUME PipeInv, Orderly, doc.exists, NEW t \in tasks, t.typ = "split", Hired(t, doc.gen),
           Work(t) \/ Crash(t) \/ StrayPickup(t)
    PROVE  Life
<1>1. /\ TypeOK /\ t \in Tasks /\ doc \in Doc /\ t.gen = doc.gen /\ row \in [Page -> Row] /\ doc'.gen = doc.gen
      /\ doc.gen \in Gen
  BY WorkGen DEF PipeInv, TypeOK, WellFormed, Hired, Doc
<1>2. Blank /\ SplitAt(t)
  BY DEF PipeInv, StatusInv
<1>3. t.pc \notin {"queued", "advance"} => doc.status \in {"splitting"} \cup Stopped
  BY DEF Orderly, Probing
<1>4. UNCHANGED row => PagesKept
  BY <1>1, PagesStay
<1>5. \A d : Update(t.gen, d) => (doc.status \in Stopped /\ doc' = doc) \/ (doc.status \notin Stopped /\ doc' = d)
  BY <1>1 DEF Update, Stopped
<1>6. UNCHANGED <<doc, row>> => Life
  BY <1>4, LifeStill
<1>7. CASE SplitStart(t)
  <2>1. t.pc = "queued" /\ UNCHANGED row
    BY <1>7 DEF SplitStart, Starts, At
  <2>2. doc.status \in Stopped \cup {"queued", "splitting"}
    BY <1>2, <2>1 DEF SplitAt
  <2>3. doc.status \in Stopped \/ doc'.status = "splitting"
    <3>1. Update(t.gen, [doc EXCEPT !.status = "splitting", !.parse = "processing"])
      BY <1>7 DEF SplitStart
    <3>2. doc.status \in Stopped \/ doc' = [doc EXCEPT !.status = "splitting", !.parse = "processing"]
      BY <1>5, <3>1
    <3> QED
      BY <1>1, <3>2 DEF Doc
  <2>4. doc.status \in Stopped => UNCHANGED doc
    BY <1>5, <1>7 DEF SplitStart
  <2> QED
    BY <1>1, <1>4, <1>6, <2>1, <2>2, <2>3, <2>4, LifeStill, LifeMoves
<1>8. CASE SplitInit(t)
  <2>1. /\ doc.status \in {"splitting"} \cup Stopped /\ UNCHANGED doc
        /\ \E s \in {"pending", "skipped"} : row' = FreshRows(doc.gen, s)
    BY <1>1, <1>3, <1>8 DEF SplitInit, RowsAllowed, At
  <2>2. \A p \in Page : row[p].gen = doc.gen => row[p].st \in {"pending", "skipped"}
    BY <1>2 DEF Blank
  <2> QED
    BY <2>1, <2>2, LifeProbe
<1>9. CASE SplitProbeFails(t)
  <2>1. doc.status \in {"splitting"} \cup Stopped /\ UNCHANGED row
    BY <1>3, <1>9 DEF SplitProbeFails, At
  <2>2. UNCHANGED doc \/ (doc.status = "splitting" /\ doc'.status = "failed")
    <3>1. UNCHANGED doc \/ Update(t.gen, [doc EXCEPT !.status = "failed", !.parse = "failed"])
      BY <1>9 DEF SplitProbeFails, FailDoc
    <3>2. UNCHANGED doc \/ (doc.status = "splitting" /\ doc' = [doc EXCEPT !.status = "failed", !.parse = "failed"])
      BY <1>5, <2>1, <3>1 DEF Stopped
    <3> QED
      BY <1>1, <3>2 DEF Doc
  <2> QED
    BY <1>1, <1>4, <1>6, <2>1, <2>2, LifeMoves
<1>10. CASE SplitReady(t)
  <2>1. doc.status \in {"splitting"} \cup Stopped /\ UNCHANGED row
    BY <1>3, <1>10 DEF SplitReady, At
  <2>2. UNCHANGED doc \/ (doc.status = "splitting" /\ doc'.status = "parsing")
    <3>1. Update(t.gen, [doc EXCEPT !.status = "parsing", !.pageCount = N])
      BY <1>10 DEF SplitReady
    <3>2. UNCHANGED doc \/ (doc.status = "splitting" /\ doc' = [doc EXCEPT !.status = "parsing", !.pageCount = N])
      BY <1>5, <2>1, <3>1 DEF Stopped
    <3> QED
      BY <1>1, <3>2 DEF Doc
  <2> QED
    BY <1>1, <1>4, <1>6, <2>1, <2>2, LifeMoves
<1>11. CASE SplitHeld(t)
  <2>1. doc.status \in {"splitting"} \cup Stopped /\ UNCHANGED row /\ AllAre({"skipped"})
    BY <1>2, <1>3, <1>11 DEF SplitHeld, At, SplitAt
  <2>2. UNCHANGED doc \/ (doc.status = "splitting" /\ doc'.status = "not_started")
    <3>1. Update(t.gen, [doc EXCEPT !.status = "not_started", !.parse = "pending", !.pageCount = N, !.skipped = N])
      BY <1>11 DEF SplitHeld
    <3>2. \/ UNCHANGED doc
          \/ /\ doc.status = "splitting"
             /\ doc' = [doc EXCEPT !.status = "not_started", !.parse = "pending", !.pageCount = N, !.skipped = N]
      BY <1>5, <2>1, <3>1 DEF Stopped
    <3> QED
      BY <1>1, <3>2 DEF Doc
  <2> QED
    BY <1>1, <1>4, <1>6, <2>1, <2>2, LifeMoves
<1>12. CASE LastAdvance(t)
  <2>1. Advance(doc.gen) /\ UNCHANGED doc
    BY <1>1, <1>12 DEF LastAdvance
  <2>2. \A q \in Page : /\ row'[q].gen = row[q].gen
                        /\ row'[q].st = row[q].st \/ (row'[q].st \notin Settled /\ row[q].st \notin Settled)
    BY <1>1, <2>1, AdvanceOne DEF Settled
  <2> QED
    BY <1>1, <2>1, <2>2, LifeStill, PagesStay
<1> QED
  BY <1>6, <1>7, <1>8, <1>9, <1>10, <1>11, <1>12
     DEF Work, Crash, StrayPickup, Drop, RenderStart, RenderFails, RenderEmit, RenderAdvance, RenderGiveUp, RenderCount,
         FailedAdvance, OcrSave, OcrFail, OcrStart, OcrRetry, OcrCount, OcrCountFailed, AssembleStart, AssembleDecide,
         AssembleHandover, IndexBuild, TreeStart, TreeSettle, IndexFails, GenCleanup, DeleteObjects, DeletePurge,
         Starts, At

LEMMA LifeLate ==
    ASSUME Careful, PipeInv, CountInv, VerdictInv, Orderly, doc.exists, NEW t \in tasks, t.typ \in Late,
           Hired(t, doc.gen), Work(t) \/ Crash(t) \/ StrayPickup(t)
    PROVE  Life
<1>1. TypeOK /\ t \in Tasks /\ doc \in Doc /\ t.gen = doc.gen /\ doc'.gen = doc.gen
  BY WorkGen DEF PipeInv, TypeOK, WellFormed, Hired
<1>2. Whole /\ ~Asked(doc.gen) /\ ~Blank /\ ~Nobody(doc.gen)
  BY DEF PipeInv, StatusInv, QuietInv, Asked, Nobody, Blank, Late
<1>3. UNCHANGED row
  BY DEF Work, Crash, StrayPickup, Drop, SplitStart, SplitInit, SplitProbeFails, SplitReady, SplitHeld, LastAdvance,
         RenderStart, RenderFails, RenderEmit, RenderAdvance, RenderGiveUp, RenderCount, FailedAdvance, OcrSave, OcrFail,
         OcrStart, OcrRetry, OcrCount, OcrCountFailed, AssembleStart, AssembleDecide, AssembleHandover, IndexBuild,
         TreeStart, TreeSettle, IndexFails, GenCleanup, DeleteObjects, DeletePurge, Starts, At, Late
<1>4. PagesKept
  BY <1>1, <1>3, PagesStay
<1>5. \A d : Update(t.gen, d) => (doc.status \in Stopped /\ doc' = doc) \/ (doc.status \notin Stopped /\ doc' = d)
  BY <1>1 DEF Update, Stopped
<1>6. UNCHANGED doc => Life
  BY <1>4, LifeStill
<1>7. doc.status \in {"parsing", "assembling", "indexing"} \cup Stopped
  BY <1>1, <1>2 DEF PipeInv, StatusInv, Doc, DocStatus, Stopped
<1> SUFFICES ASSUME doc.status \notin Stopped, ~UNCHANGED doc PROVE Life
  BY <1>5, <1>6
     DEF Work, Crash, StrayPickup, Drop, SplitStart, SplitInit, SplitProbeFails, SplitReady, SplitHeld, LastAdvance,
         RenderStart, RenderFails, RenderEmit, RenderAdvance, RenderGiveUp, RenderCount, FailedAdvance, OcrSave, OcrFail,
         OcrStart, OcrRetry, OcrCount, OcrCountFailed, AssembleStart, AssembleDecide, AssembleHandover, IndexBuild,
         TreeStart, TreeSettle, IndexFails, GenCleanup, DeleteObjects, DeletePurge, Starts, At, Late, FailDoc
<1>8. CASE AssembleStart(t)
  <2>1. t.typ = "assemble" /\ t.pc = "queued" /\ doc'.status = "assembling"
    BY <1>1, <1>5, <1>8 DEF AssembleStart, Starts, At, Doc
  <2>2. doc.status \in {"parsing", "assembling"}
    BY <1>7, <2>1 DEF Orderly, Indexing
  <2> QED
    BY <1>1, <1>2, <1>4, <2>1, <2>2, LifeStill, LifeMoves
<1>9. CASE AssembleDecide(t)
  <2>1. doc.status = "assembling"
    BY <1>9 DEF VerdictInv, Deciding, AssembleDecide, At
  <2>2. doc.failed >= doc.pageCount - doc.skipped <=> ~Some("done")
    BY <1>9, DecisionTrue
  <2>3. \/ doc'.status = "failed" /\ ~Some("done")
        \/ doc'.status = "indexing" /\ Some("done")
    <3>1. \/ Update(t.gen, [doc EXCEPT !.status = "failed", !.parse = "failed"]) /\ ~Some("done")
          \/ /\ Some("done")
             /\ Update(t.gen, [doc EXCEPT !.status = "indexing", !.parse = IF doc.failed > 0 THEN "partial" ELSE "done"])
      BY <1>9, <2>2 DEF AssembleDecide, FailDoc
    <3>2. \/ doc' = [doc EXCEPT !.status = "failed", !.parse = "failed"] /\ ~Some("done")
          \/ /\ Some("done")
             /\ doc' = [doc EXCEPT !.status = "indexing", !.parse = IF doc.failed > 0 THEN "partial" ELSE "done"]
      BY <1>5, <3>1
    <3> QED
      BY <1>1, <3>2 DEF Doc
  <2> QED
    BY <1>1, <1>2, <1>4, <2>1, <2>3, LifeMoves
<1>10. CASE TreeSettle(t)
  <2>1. doc.status = "indexing"
    BY <1>10 DEF VerdictInv, Indexing, TreeSettle, At
  <2>2. Some("done") /\ doc.parse = IF Some("failed") THEN "partial" ELSE "done"
    BY <2>1 DEF VerdictInv
  <2>3. doc'.status = IF doc.parse = "partial" THEN "partial" ELSE "completed"
    BY <1>1, <1>5, <1>10 DEF TreeSettle, Doc
  <2> QED
    BY <1>1, <1>2, <1>4, <2>1, <2>2, <2>3, LifeMoves
<1>11. CASE IndexFails(t)
  <2>1. doc.status = "indexing"
    BY <1>11 DEF VerdictInv, Indexing, IndexFails, Starts, At
  <2>2. doc'.status = "failed"
    BY <1>1, <1>5, <1>11 DEF IndexFails, Doc
  <2> QED
    BY <1>1, <1>4, <2>1, <2>2, LifeMoves
<1> QED
  BY <1>8, <1>9, <1>10, <1>11
     DEF Work, Crash, StrayPickup, Drop, SplitStart, SplitInit, SplitProbeFails, SplitReady, SplitHeld, LastAdvance,
         RenderStart, RenderFails, RenderEmit, RenderAdvance, RenderGiveUp, RenderCount, FailedAdvance, OcrSave, OcrFail,
         OcrStart, OcrRetry, OcrCount, OcrCountFailed, AssembleHandover, IndexBuild, TreeStart, GenCleanup,
         DeleteObjects, DeletePurge, Starts, At, Late

-----------------------------------------------------------------------------
(* The steps of housekeeping and users.                                    *)

LEMMA LifeHousekeeping ==
    ASSUME TypeOK, Housekeeping
    PROVE  Life
<1>1. UNCHANGED doc /\ row \in [Page -> Row] /\ doc.gen \in Gen
  BY DEF Housekeeping, HkReset, HkAdvance, HkDispatch, HkDelete, TypeOK, Doc
<1>2. \A p \in Page : /\ row'[p].gen = row[p].gen
                      /\ row'[p].st = row[p].st \/ (row'[p].st \notin Settled /\ row[p].st \notin Settled)
  <2>1. ASSUME NEW p \in Page, HkReset(p)
        PROVE  \A q \in Page : /\ row'[q].gen = row[q].gen
                               /\ row'[q].st = row[q].st \/ (row'[q].st \notin Settled /\ row[q].st \notin Settled)
    BY <1>1, <2>1 DEF HkReset, Row, Settled
  <2>2. CASE HkAdvance
    BY <1>1, <2>2, AdvanceOne DEF HkAdvance, Settled
  <2> QED
    BY <2>1, <2>2 DEF Housekeeping, HkDispatch, HkDelete
<1> QED
  BY <1>1, <1>2, LifeStill, PagesStay

LEMMA LifeAsk ==
    ASSUME PipeInv, Ask
    PROVE  Life
<1>1. doc \in Doc /\ doc.gen \in Nat /\ UNCHANGED row /\ \A p \in Page : row[p].gen <= doc.gen /\ row[p].gen \in Int
  BY SizeAssumption
     DEF PipeInv, GenInv, NoneAhead, TypeOK, Doc, Row, Gen, Ask, CancelCheck, DeleteMark, ReparseBump, PagesCheck
<1>2. doc'.gen = doc.gen => PagesKept
  BY <1>1, PagesStay
<1>3. CASE CancelCheck \/ \E P : PagesCheck(P)
  BY <1>2, <1>3, LifeStill DEF CancelCheck, PagesCheck
<1>4. CASE DeleteMark
  <2>1. doc'.status = "deleting" /\ doc'.gen = doc.gen
    BY <1>1, <1>4 DEF DeleteMark, Doc
  <2> QED
    BY <1>2, <2>1, LifeStops
<1>5. CASE ReparseBump
  <2>1. doc.status # "deleting" /\ doc'.status = "queued" /\ doc'.gen = doc.gen + 1
    BY <1>1, <1>5 DEF ReparseBump, Doc
  <2>2. \A p \in Page : row[p].gen # doc'.gen
    BY <1>1, <2>1
  <2> QED
    BY <1>1, <2>1, <2>2, LifeReparse
<1> QED
  BY <1>3, <1>4, <1>5 DEF Ask

LEMMA LifeServe ==
    ASSUME PipeInv, Stopping, doc.exists, NEW r \in reqs, ServeStep(r) \/ RequestDies(r)
    PROVE  Life
<1>1. doc \in Doc /\ r \in Reqs /\ r.gen \in Gen /\ row \in [Page -> Row]
  BY DEF PipeInv, TypeOK, Reqs
<1>2. ASSUME UNCHANGED row, doc'.gen = doc.gen PROVE PagesKept
  BY <1>2, PagesStay
<1>3. CASE DeleteEnqueue(r) \/ ReparseEnqueue(r) \/ RequestDies(r)
  BY <1>2, <1>3, LifeStill DEF DeleteEnqueue, ReparseEnqueue, RequestDies
<1>4. CASE CancelWrite(r)
  <2>1. doc.status # "deleting"
    BY <1>4 DEF CancelWrite, In, Stopping
  <2>2. (doc'.status = "cancelled" \/ UNCHANGED doc) /\ doc'.gen = doc.gen /\ UNCHANGED row
    BY <1>1, <1>4 DEF CancelWrite, Doc
  <2> QED
    BY <1>2, <2>1, <2>2, LifeStops, LifeStill
<1>5. CASE PagesReset(r)
  <2> DEFINE hit == {p \in r.pages : row[p].gen = r.gen}
  <2>1. /\ UNCHANGED doc /\ hit \in SUBSET Page
        /\ \A p \in Page : /\ row'[p].gen = row[p].gen
                           /\ row'[p].st = row[p].st \/ p \in hit
                           /\ p \in hit => row'[p].st \notin Settled
    BY <1>1, <1>5 DEF PagesReset, Reqs, Row, Settled
  <2>2. CASE r.gen = doc.gen
    <3>1. doc.status \in Terminal
      BY <1>5, <2>2 DEF PipeInv, StatusInv, PagesReset, In
    <3> QED
      BY <2>1, <3>1, LifePutBack
  <2>3. CASE r.gen # doc.gen
    <3>1. \A p \in Page : row'[p].gen = row[p].gen /\ (row[p].gen = doc.gen => row'[p].st = row[p].st)
      BY <2>1, <2>3
    <3> QED
      BY <2>1, <3>1, PagesStay, LifeStill
  <2> QED
    BY <2>2, <2>3
<1>6. CASE PagesAdjust(r) \/ PagesPick(r)
  <2>1. doc'.status = doc.status /\ doc'.gen = doc.gen /\ UNCHANGED row
    BY <1>1, <1>6 DEF PagesAdjust, PagesPick, Doc
  <2> QED
    BY <1>2, <2>1, LifeStill
<1>7. CASE PagesParse(r)
  <2>1. Update(r.gen, [doc EXCEPT !.status = "parsing", !.parse = "processing"]) /\ In(r, "pages", "parse") /\ UNCHANGED row
    BY <1>7 DEF PagesParse
  <2>2. CASE UNCHANGED doc
    BY <1>2, <2>1, <2>2, LifeStill
  <2>3. CASE ~UNCHANGED doc
    <3>1. r.gen = doc.gen /\ doc.status \notin Stopped /\ doc' = [doc EXCEPT !.status = "parsing", !.parse = "processing"]
      BY <2>1, <2>3 DEF Update, Stopped
    <3>2. doc.status \in {"completed", "partial", "failed", "not_started"}
      BY <2>1, <3>1 DEF PipeInv, StatusInv, In, Terminal, Stopped
    <3>3. doc'.status = "parsing" /\ doc'.gen = doc.gen
      BY <1>1, <3>1 DEF Doc
    <3> QED
      BY <1>2, <2>1, <3>2, <3>3, LifeMoves
  <2> QED
    BY <2>2, <2>3
<1>8. CASE PagesAdvance(r)
  <2>1. UNCHANGED doc /\ Advance(r.gen)
    BY <1>8 DEF PagesAdvance
  <2>2. \A q \in Page : /\ row'[q].gen = row[q].gen
                        /\ row'[q].st = row[q].st \/ (row'[q].st \notin Settled /\ row[q].st \notin Settled)
    BY <1>1, <2>1, AdvanceOne DEF Settled
  <2> QED
    BY <2>1, <2>2, LifeStill, PagesStay
<1> QED
  BY <1>3, <1>4, <1>5, <1>6, <1>7, <1>8 DEF ServeStep


-----------------------------------------------------------------------------
(* Every step is a step of the lifecycle.                                  *)

(* Nothing happens any more to a document that is gone.                    *)
LEMMA GoneStays ==
    ASSUME TypeOK, ~doc.exists, [Next]_vars
    PROVE  ~doc'.exists /\ doc'.status = doc.status /\ doc'.gen = doc.gen
<1> DEFINE Same == ~doc'.exists /\ doc'.status = doc.status /\ doc'.gen = doc.gen
<1>1. doc \in Doc /\ ~Visible
  BY DEF TypeOK, Visible
<1>2. /\ \A g, d : Update(g, d) => UNCHANGED doc
      /\ \A g : FailDoc(g) => UNCHANGED doc
      /\ \A g, c : CountPage(g, c) => UNCHANGED doc
      /\ \A g : ~Counted(g)
  BY DEF Update, FailDoc, CountPage, Counted
<1>3. ASSUME NEW t \in tasks, Work(t) PROVE Same
  <2>1. DeletePurge(t) => Same
    BY <1>1 DEF DeletePurge, Doc
  <2> QED
    BY <1>1, <1>2, <1>3, <2>1
       DEF Work, Drop, SplitStart, SplitInit, SplitProbeFails, SplitReady, SplitHeld, LastAdvance, RenderStart,
           RenderEmit, RenderAdvance, RenderFails, RenderGiveUp, RenderCount, FailedAdvance, OcrStart, OcrSave,
           OcrRetry, OcrFail, OcrCount, OcrCountFailed, AssembleStart, AssembleDecide, AssembleHandover, IndexBuild,
           TreeStart, TreeSettle, IndexFails, GenCleanup, DeleteObjects
<1>4. ~Ask
  BY <1>1 DEF Ask, CancelCheck, DeleteMark, ReparseBump, PagesCheck, Open
<1>5. ASSUME NEW r \in reqs, ServeStep(r) \/ RequestDies(r) PROVE UNCHANGED doc
  BY <1>2, <1>5 DEF ServeStep, RequestDies, CancelWrite, DeleteEnqueue, ReparseEnqueue, PagesReset, PagesAdjust,
                    PagesPick, PagesParse, PagesAdvance
<1>6. Housekeeping => UNCHANGED doc
  BY DEF Housekeeping, HkReset, HkAdvance, HkDispatch, HkDelete
<1> QED
  BY <1>3, <1>4, <1>5, <1>6 DEF Next, WorkStep, Crash, StrayPickup, vars

LEMMA LifeGone ==
    ASSUME TypeOK, ~doc.exists, NoOrphanRows, NoOrphanRows', [Next]_vars
    PROVE  Life
<1>1. doc'.status = doc.status /\ doc'.gen = doc.gen /\ ~doc'.exists
  BY GoneStays
<1>2. \A p \in Page : row[p] = NoRow /\ row'[p] = NoRow
  BY <1>1 DEF NoOrphanRows
<1>3. PagesKept
  BY <1>1, <1>2 DEF PagesKept, Rows
<1> QED
  BY <1>1, <1>3, LifeStill

LifeInv ==
    /\ PipeInv /\ CountInv /\ VerdictInv /\ Stopping
    /\ Orderly /\ PurgesDeleted /\ NoOrphanRows

LEMMA LifeStep == Careful /\ LifeInv /\ NoOrphanRows' /\ [Next]_vars => Life
<1> SUFFICES ASSUME Careful, LifeInv, NoOrphanRows', [Next]_vars PROVE Life
  OBVIOUS
<1>1. PipeInv /\ CountInv /\ VerdictInv /\ Stopping /\ Orderly /\ PurgesDeleted /\ NoOrphanRows /\ TypeOK
  BY DEF LifeInv, PipeInv
<1>2. CASE ~doc.exists
  BY <1>1, <1>2, LifeGone
<1>3. CASE UNCHANGED vars
  BY <1>3, LifeStill, PagesStay DEF vars
<1>4. ASSUME doc.exists, NEW t \in tasks, Work(t) \/ Crash(t) \/ StrayPickup(t) PROVE Life
  <2>1. CASE ~Hired(t, doc.gen)
    BY <1>1, <1>4, <2>1, LifeElsewhere
  <2>2. CASE Hired(t, doc.gen)
    <3>1. t.typ \in {"split", "ocr", "render"} \cup Late
      BY <1>1, <2>2 DEF TypeOK, WellFormed, Tasks, TaskTypes, Hired, Late
    <3> QED
      BY <1>1, <1>4, <2>2, <3>1, LifeWorker, LifeSplit, LifeLate
  <2> QED
    BY <2>1, <2>2
<1> QED
  BY <1>1, <1>2, <1>3, <1>4, LifeHousekeeping, LifeAsk, LifeServe DEF Next, WorkStep


-----------------------------------------------------------------------------
(* The tasks of a document and its status go together.                     *)

(* What is not a task's own step only adds tasks that wait.                *)
Aside == Housekeeping \/ Ask \/ (\E r \in reqs : ServeStep(r) \/ RequestDies(r)) \/ UNCHANGED vars

LEMMA AsideQueues ==
    ASSUME TypeOK, Aside
    PROVE  \A u \in tasks' : u \in tasks \/ u.pc = "queued"
<1> DEFINE Waiting == \A u \in tasks' : u \in tasks \/ u.pc = "queued"
<1>1. \A g : tasks' = Enqueue(NewTasks(g), tasks) => Waiting
  BY NewTasksAre DEF Enqueue
<1>2. ASSUME NEW typ, NEW g, NEW b, tasks' = Enqueue({DocTask(typ, g, b)}, tasks) PROVE Waiting
  <2>1. \A u \in {DocTask(typ, g, b)} : u.pc = "queued"
    BY DEF DocTask, Task
  <2> QED
    BY <1>2, <2>1 DEF Enqueue
<1>3. UNCHANGED tasks => Waiting
  OBVIOUS
<1>4. CASE Housekeeping
  BY <1>1, <1>2, <1>3, <1>4 DEF Housekeeping, HkReset, HkAdvance, HkDispatch, HkDelete
<1>5. CASE Ask
  BY <1>3, <1>5 DEF Ask, CancelCheck, DeleteMark, ReparseBump, PagesCheck
<1>6. ASSUME NEW r \in reqs, ServeStep(r) \/ RequestDies(r) PROVE Waiting
  BY <1>1, <1>2, <1>3, <1>6
     DEF ServeStep, RequestDies, CancelWrite, DeleteEnqueue, ReparseEnqueue, PagesReset, PagesAdjust, PagesPick,
         PagesParse, PagesAdvance
<1> QED
  BY <1>3, <1>4, <1>5, <1>6 DEF Aside, vars

LEMMA PurgeStep ==
    ASSUME TypeOK, "serial_stop" \in Timing, Stopping, PurgesDeleted, [Next]_vars
    PROVE  PurgesDeleted'
<1>1. Stopping'
  BY StopStep
<1>2. doc.status = "deleting" => doc'.status = "deleting"
  BY <1>1, StepStatus DEF Stopping
<1>3. ASSUME NEW t \in tasks, Work(t) \/ Crash(t) \/ StrayPickup(t), NEW u \in tasks', Purging(u)
      PROVE  u \in tasks \/ doc.status = "deleting"
  <2>1. t \in Tasks
    BY DEF TypeOK, WellFormed
  <2>2. PICK R, new : Moves({t}, R, new) /\ Given(new, t)
    BY <1>3, WorkSteady DEF Steady
  <2>3. \A v \in new : ~Purging(v)
    BY <2>2 DEF Given, Batched, Purging
  <2>4. u \in tasks \/ u \in R
    BY <1>3, <2>2, <2>3 DEF Moves, Enqueue
  <2>5. CASE t.typ # "delete"
    BY <1>3, <2>2, <2>4, <2>5 DEF Moves, Kin, Purging
  <2>6. CASE t.typ = "delete" /\ t.pc = "purge"
    BY <2>6 DEF PurgesDeleted, Purging
  <2>7. CASE t.typ = "delete" /\ t.pc # "purge"
    <3>1. DeleteObjects(t) \/ Crash(t)
      BY <1>3, <2>7
         DEF Work, StrayPickup, Drop, SplitStart, SplitInit, SplitProbeFails, SplitReady, SplitHeld, LastAdvance,
             RenderStart, RenderEmit, RenderAdvance, RenderFails, RenderGiveUp, RenderCount, FailedAdvance, OcrStart,
             OcrSave, OcrRetry, OcrFail, OcrCount, OcrCountFailed, AssembleStart, AssembleDecide, AssembleHandover,
             IndexBuild, TreeStart, TreeSettle, IndexFails, GenCleanup, DeletePurge, Starts, At
    <3>2. \A v \in Errored(t) : v.pc # "purge"
      BY <2>1, ErroredKin
    <3>3. CASE Crash(t)
      BY <1>3, <3>2, <3>3 DEF Crash, Others, Purging
    <3>4. CASE DeleteObjects(t) /\ doc.status # "deleting"
      <4>1. tasks' = Enqueue({}, Others(t)) \/ tasks' = Enqueue({}, Others(t) \cup Errored(t))
        BY <3>4 DEF DeleteObjects, Ack
      <4> QED
        BY <1>3, <3>2, <4>1, EnqueueNone DEF Others, Purging
    <3> QED
      BY <3>1, <3>3, <3>4
  <2> QED
    BY <2>5, <2>6, <2>7
<1>4. ASSUME Aside, NEW u \in tasks', Purging(u) PROVE u \in tasks
  BY <1>4, AsideQueues DEF Purging
<1>5. \A u \in tasks' : Purging(u) => u \in tasks \/ doc.status = "deleting"
  BY <1>3, <1>4 DEF Next, WorkStep, Aside
<1> QED
  BY <1>2, <1>5 DEF PurgesDeleted, Purging

(* How a document comes to be queued, and to be indexed.                   *)
LEMMA StepOnto ==
    ASSUME TypeOK, [Next]_vars, doc'.gen = doc.gen
    PROVE  /\ doc'.status = "queued" => doc.status = "queued"
           /\ doc'.status = "indexing" /\ doc.status # "indexing" =>
                 \E t \in tasks : AssembleDecide(t) /\ t.gen = doc.gen /\ Goto(t, "handover")
<1> DEFINE Onto == doc'.status = doc.status \/ doc'.status \notin {"queued", "indexing"}
<1>1. doc \in Doc /\ doc.gen \in Nat
  BY SizeAssumption DEF TypeOK, Doc, Gen
<1>2. ASSUME NEW g, NEW d, Update(g, d), d.status \notin {"queued", "indexing"} PROVE Onto
  BY <1>2 DEF Update
<1>3. ASSUME NEW g PROVE /\ FailDoc(g) => Onto
                         /\ \A c \in {"done", "failed"} : CountPage(g, c) => Onto
  BY <1>1 DEF FailDoc, Update, CountPage, Doc
<1>4. ASSUME NEW t \in tasks, Work(t), ~AssembleDecide(t) PROVE Onto
  <2>1. ASSUME SplitStart(t) \/ SplitReady(t) \/ SplitHeld(t) \/ AssembleStart(t) PROVE Onto
    BY <1>1, <2>1 DEF SplitStart, SplitReady, SplitHeld, AssembleStart, Update, Doc
  <2>2. ASSUME SplitProbeFails(t) \/ RenderCount(t) \/ OcrCount(t) \/ OcrCountFailed(t) PROVE Onto
    BY <1>3, <2>2 DEF SplitProbeFails, RenderCount, OcrCount, OcrCountFailed
  <2>3. ASSUME TreeSettle(t) \/ IndexFails(t) PROVE Onto
    BY <1>1, <1>2, <2>3 DEF TreeSettle, IndexFails, Doc
  <2>4. ASSUME DeletePurge(t) PROVE Onto
    BY <1>1, <2>4 DEF DeletePurge, Doc
  <2> QED
    BY <1>4, <2>1, <2>2, <2>3, <2>4
       DEF Work, Drop, SplitInit, LastAdvance, RenderStart, RenderEmit, RenderAdvance, RenderFails, RenderGiveUp,
           FailedAdvance, OcrStart, OcrSave, OcrRetry, OcrFail, AssembleHandover, IndexBuild, TreeStart,
           GenCleanup, DeleteObjects
<1>5. ASSUME NEW t \in tasks, AssembleDecide(t) PROVE Onto \/ (t.gen = doc.gen /\ Goto(t, "handover") /\ doc'.status # "queued")
  <2> DEFINE d == [doc EXCEPT !.status = "indexing", !.parse = IF doc.failed > 0 THEN "partial" ELSE "done"]
  <2>1. UNCHANGED doc \/ FailDoc(t.gen) \/ (Update(t.gen, d) /\ Goto(t, "handover"))
    BY <1>5 DEF AssembleDecide
  <2>2. Update(t.gen, d) => UNCHANGED doc \/ (t.gen = doc.gen /\ doc'.status # "queued")
    BY <1>1 DEF Update, Doc
  <2> QED
    BY <1>3, <2>1, <2>2
<1>6. ASSUME NEW r \in reqs, ServeStep(r) \/ RequestDies(r) PROVE Onto
  <2>1. PagesParse(r) => Onto
    BY <1>1 DEF PagesParse, Update, Doc
  <2> QED
    BY <1>1, <1>6, <2>1
       DEF ServeStep, RequestDies, CancelWrite, DeleteEnqueue, ReparseEnqueue, PagesReset, PagesAdjust, PagesPick,
           PagesAdvance, Doc
<1>7. ASSUME Ask PROVE Onto
  <2>1. ReparseBump => doc'.gen = doc.gen + 1
    BY <1>1 DEF ReparseBump, Doc
  <2>2. DeleteMark => doc'.status = "deleting"
    BY <1>1 DEF DeleteMark, Doc
  <2> QED
    BY <1>1, <1>7, <2>1, <2>2 DEF Ask, CancelCheck, PagesCheck
<1>8. ASSUME Housekeeping PROVE Onto
  BY <1>8 DEF Housekeeping, HkReset, HkAdvance, HkDispatch, HkDelete
<1> QED
  BY <1>4, <1>5, <1>6, <1>7, <1>8 DEF Next, WorkStep, Crash, StrayPickup, vars


(* A split that has begun has taken the document out of the queue.         *)
LEMMA NotProbing ==
    ASSUME PipeInv, Orderly, doc.exists, doc'.gen = doc.gen, doc'.status = "queued", [Next]_vars
    PROVE  \A u \in tasks' : ~Probing(u)
<1>1. /\ TypeOK /\ doc \in Doc /\ doc.status = "queued" /\ Blank
  BY StepOnto DEF PipeInv, TypeOK, StatusInv
<1>2. \A u \in tasks : ~Probing(u)
  BY <1>1 DEF Orderly, Stopped
<1>3. ASSUME Aside PROVE \A u \in tasks' : ~Probing(u)
  BY <1>1, <1>2, <1>3, AsideQueues DEF Probing
<1>4. ASSUME NEW t \in tasks, Work(t) \/ Crash(t) \/ StrayPickup(t) PROVE \A u \in tasks' : ~Probing(u)
  <2>1. t.pc # "archived"
    BY <1>4, WorkLive
  <2>2. PICK R, new : Moves({t}, R, new) /\ Given(new, t)
    BY <1>1, <1>4, WorkSteady DEF Steady
  <2>3. \A u \in new : ~Probing(u)
    BY <2>2 DEF Given, Batched, Probing
  <2>4. \A u \in tasks' : u \in tasks \/ u \in R \/ u \in new
    BY <2>2 DEF Moves, Enqueue
  <2>5. CASE t.typ # "split" \/ ~Hired(t, doc.gen)
    <3>1. \A u \in R : ~Probing(u)
      BY <2>1, <2>2, <2>5 DEF Moves, Kin, Probing, Hired
    <3> QED
      BY <1>2, <2>3, <2>4, <3>1
  <2>6. CASE t.typ = "split" /\ Hired(t, doc.gen)
    <3>1. t.pc = "queued"
      BY <1>1, <1>2, <2>6 DEF PipeInv, StatusInv, SplitAt, Probing, Stopped
    <3>2. Runnable(t)
      BY <1>1, <2>6 DEF Runnable, Hired
    <3>3. SplitStart(t)
      BY <1>4, <2>6, <3>1, <3>2
         DEF Work, Crash, StrayPickup, Drop, SplitInit, SplitProbeFails, SplitReady, SplitHeld, LastAdvance,
             RenderStart, RenderEmit, RenderAdvance, RenderFails, RenderGiveUp, RenderCount, FailedAdvance, OcrStart,
             OcrSave, OcrRetry, OcrFail, OcrCount, OcrCountFailed, AssembleStart, AssembleDecide, AssembleHandover,
             IndexBuild, TreeStart, TreeSettle, IndexFails, GenCleanup, DeleteObjects, DeletePurge, Starts, At
    <3>4. doc' = [doc EXCEPT !.status = "splitting", !.parse = "processing"]
      BY <3>2, <3>3 DEF SplitStart, Update, Runnable
    <3> QED
      BY <1>1, <3>4 DEF Doc
  <2> QED
    BY <2>5, <2>6
<1> QED
  BY <1>3, <1>4 DEF Next, WorkStep, Aside

(* A document being indexed keeps only the tasks that index it.            *)
LEMMA StaysIndexing ==
    ASSUME Careful, PipeInv, Orderly, doc.exists, doc'.gen = doc.gen, doc.status = "indexing", [Next]_vars
    PROVE  \A u \in tasks' : Hired(u, doc.gen) => Indexing(u)
<1> DEFINE Good == \A u \in tasks' : Hired(u, doc.gen) => Indexing(u)
<1>1. TypeOK /\ doc.gen \in Gen /\ \A u \in tasks : Hired(u, doc.gen) => Indexing(u)
  BY DEF PipeInv, TypeOK, Doc, Orderly
<1>2. ASSUME NEW new, tasks' = Enqueue(new, tasks), \A u \in new : Hired(u, doc.gen) => Indexing(u) PROVE Good
  BY <1>1, <1>2 DEF Enqueue
<1>3. UNCHANGED tasks => Good
  BY <1>1
<1>4. ASSUME NEW t \in tasks, Work(t) \/ Crash(t) \/ StrayPickup(t) PROVE Good
  <2>1. t \in Tasks /\ t.pc # "archived"
    BY <1>1, <1>4, WorkLive DEF TypeOK, WellFormed
  <2>2. PICK R, new : Moves({t}, R, new) /\ Given(new, t)
    BY <1>1, <1>4, WorkSteady DEF Steady
  <2>3. CASE ~Hired(t, doc.gen)
    <3>1. \A u \in new : ~Hired(u, doc.gen)
      BY <2>1, <2>2, <2>3 DEF Given, Batched, Hired
    <3> QED
      BY <1>1, <2>1, <2>2, <2>3, <3>1, HiredAfter
  <2>4. CASE Hired(t, doc.gen)
    <3>1. Indexing(t) /\ t.gen = doc.gen
      BY <1>1, <2>4 DEF Hired
    <3>2. \A u \in new : Hired(u, doc.gen) => Indexing(u)
      BY <2>2, <3>1 DEF Given, Indexing, Hired
    <3>3. CASE t.typ \in {"index", "tree"}
      <4>1. \A u \in R : Hired(u, doc.gen) => Indexing(u)
        BY <2>2, <3>3 DEF Moves, Kin, Indexing
      <4> QED
        BY <1>1, <2>1, <2>2, <3>2, <4>1, HiredAfter
    <3>4. CASE t.typ \notin {"index", "tree"}
      <4>1. t.typ = "assemble" /\ t.pc = "handover" /\ t.typ \notin Crashable
        BY <3>1, <3>4 DEF Indexing, Careful
      <4>2. AssembleHandover(t)
        BY <1>4, <4>1
           DEF Work, Crash, StrayPickup, CanCrash, Drop, SplitStart, SplitInit, SplitProbeFails, SplitReady,
               SplitHeld, LastAdvance, RenderStart, RenderEmit, RenderAdvance, RenderFails, RenderGiveUp, RenderCount,
               FailedAdvance, OcrStart, OcrSave, OcrRetry, OcrFail, OcrCount, OcrCountFailed, AssembleStart,
               AssembleDecide, IndexBuild, TreeStart, TreeSettle, IndexFails, GenCleanup, DeleteObjects, DeletePurge,
               Starts, At
      <4>3. PICK more : Ack(t, more) /\ \A u \in more : u.typ \in {"index", "gencleanup"}
        BY <4>2 DEF AssembleHandover, DocTask, Task
      <4>4. Moves({t}, {}, more)
        BY <1>1, <4>1, <4>3, AckMoves
      <4>5. \A u \in more : Hired(u, doc.gen) => Indexing(u)
        BY <4>3 DEF Indexing, Hired
      <4>6. \A u \in tasks' : u \in tasks \/ u \in more
        BY <4>4 DEF Moves, Enqueue
      <4> QED
        BY <1>1, <4>5, <4>6
    <3> QED
      BY <3>3, <3>4
  <2> QED
    BY <2>3, <2>4
<1>5. CASE Housekeeping
  <2>1. ASSUME NEW typ, NEW g, NEW b, typ \in {"index", "delete"}, tasks' = Enqueue({DocTask(typ, g, b)}, tasks)
        PROVE  Good
    <3>1. \A u \in {DocTask(typ, g, b)} : Hired(u, doc.gen) => Indexing(u)
      <4>1. \A u \in {DocTask(typ, g, b)} : u.typ = typ
        BY DEF DocTask, Task
      <4> QED
        BY <2>1, <4>1 DEF Indexing, Hired
    <3> QED
      BY <1>2, <2>1, <3>1
  <2>2. ~HkAdvance
    BY DEF HkAdvance, Stuck
  <2>3. ASSUME NEW b, HkDispatch({"queued", "splitting"}, "split", b) \/ HkDispatch({"assembling"}, "assemble", b)
        PROVE  FALSE
    BY <2>3 DEF HkDispatch, Stuck
  <2>4. \A b : HkDispatch({"indexing"}, "index", b) => Good
    BY <2>1 DEF HkDispatch
  <2>5. \A b : HkDelete(b) => Good
    BY <2>1 DEF HkDelete
  <2>6. \A p \in Page : HkReset(p) => Good
    BY <1>3 DEF HkReset
  <2> QED
    BY <1>5, <2>2, <2>3, <2>4, <2>5, <2>6 DEF Housekeeping
<1>6. CASE Ask
  BY <1>3, <1>6 DEF Ask, CancelCheck, DeleteMark, ReparseBump, PagesCheck
<1>7. ASSUME NEW r \in reqs, ServeStep(r) \/ RequestDies(r) PROVE Good
  <2>1. CASE DeleteEnqueue(r)
    <3>1. \A u \in {DocTask("delete", 0, 0)} : ~Hired(u, doc.gen)
      BY DEF DocTask, Task, Hired
    <3> QED
      BY <1>2, <2>1, <3>1 DEF DeleteEnqueue
  <2>2. CASE ReparseEnqueue(r)
    <3>1. r.gen # doc.gen
      BY <2>2 DEF ReparseEnqueue, In, PipeInv, StatusInv, Stopped
    <3>2. \A u \in {DocTask("split", r.gen, 0)} : ~Hired(u, doc.gen)
      <4>1. \A u \in {DocTask("split", r.gen, 0)} : u.gen = r.gen
        BY DEF DocTask, Task
      <4> QED
        BY <3>1, <4>1 DEF Hired
    <3> QED
      BY <1>2, <2>2, <3>2 DEF ReparseEnqueue
  <2>3. CASE PagesAdvance(r)
    <3>1. r.gen # doc.gen
      BY <2>3 DEF PagesAdvance, In, PipeInv, StatusInv, Stopped
    <3>2. \A u \in NewTasks(r.gen) : ~Hired(u, doc.gen)
      BY <3>1, NewTasksAre DEF Hired
    <3> QED
      BY <1>2, <2>3, <3>2 DEF PagesAdvance
  <2> QED
    BY <1>3, <1>7, <2>1, <2>2, <2>3
       DEF ServeStep, RequestDies, CancelWrite, PagesReset, PagesAdjust, PagesPick, PagesParse
<1> QED
  BY <1>3, <1>4, <1>5, <1>6, <1>7 DEF Next, WorkStep, vars

(* The assembly that hands a document over to the index is alone with it.  *)
LEMMA BecomesIndexing ==
    ASSUME Careful, PipeInv, doc.exists, doc'.gen = doc.gen, doc'.status = "indexing", doc.status # "indexing",
           [Next]_vars
    PROVE  \A u \in tasks' : Hired(u, doc.gen) => Indexing(u)
<1>1. /\ TypeOK /\ GenInv /\ TurnInv /\ WorkerInv /\ StatusInv
  BY DEF PipeInv
<1>2. PICK t \in tasks : AssembleDecide(t) /\ t.gen = doc.gen /\ Goto(t, "handover")
  BY <1>1, StepOnto
<1>3. t \in Tasks /\ Hired(t, doc.gen) /\ t.typ = "assemble"
  BY <1>1, <1>2 DEF AssembleDecide, At, Hired, TypeOK, WellFormed
<1>4. Only(t)
  BY <1>1, <1>2, <1>3, DeciderAlone
<1>5. tasks' = Others(t) \cup {[t EXCEPT !.pc = "handover"]}
  BY <1>2 DEF Goto
<1>6. PICK v : v = [t EXCEPT !.pc = "handover"]
  OBVIOUS
<1>7. v.typ = "assemble" /\ v.pc = "handover"
  BY <1>3, <1>6 DEF Tasks
<1>8. ASSUME NEW u \in tasks', Hired(u, doc.gen) PROVE u = v
  BY <1>2, <1>4, <1>5, <1>6, <1>8 DEF Only, Others
<1> QED
  BY <1>7, <1>8 DEF Indexing

LEMMA OrderlyStep ==
    ASSUME Tame, Either, Careful, PipeInv, Orderly, [Next]_vars
    PROVE  Orderly'
<1>1. TypeOK /\ GenInv /\ PipeInv'
  BY PipeStep DEF PipeInv
<1> SUFFICES ASSUME doc'.exists
             PROVE  /\ doc'.status = "indexing" => \A u \in tasks' : Hired(u, doc'.gen) => Indexing(u)'
                    /\ \A u \in tasks' : Probing(u)' => doc'.status \in {"splitting"} \cup Stopped
  BY DEF Orderly, Hired, Stopped
<1>2. doc.exists
  BY <1>1, GoneStays
<1>3. CASE ReparseBump /\ doc'.gen = doc.gen + 1
  <2>1. doc \in Doc /\ doc.gen \in Nat /\ UNCHANGED tasks /\ \A u \in tasks : u.gen \in Int /\ u.gen <= doc.gen
    BY <1>1, <1>3, SizeAssumption DEF ReparseBump, GenInv, NoneAhead, TypeOK, Doc, Gen, WellFormed, Tasks
  <2>2. \A u \in tasks' : ~Hired(u, doc'.gen)
    BY <1>3, <2>1 DEF Hired
  <2> QED
    BY <2>2 DEF Probing, Hired
<1>4. CASE doc'.gen = doc.gen
  <2>1. \A u : (Hired(u, doc'.gen) <=> Hired(u, doc.gen)) /\ (Indexing(u)' <=> Indexing(u)) /\ (Probing(u)' <=> Probing(u))
    BY <1>4 DEF Hired, Indexing, Probing
  <2>2. doc'.status = "indexing" => \A u \in tasks' : Hired(u, doc.gen) => Indexing(u)
    BY <1>2, <1>4, StaysIndexing, BecomesIndexing
  <2>3. ASSUME NEW u \in tasks', Probing(u) PROVE doc'.status \in {"splitting"} \cup Stopped
    <3>1. doc'.status # "queued"
      BY <1>2, <1>4, <2>3, NotProbing
    <3>2. u.typ = "split" /\ Hired(u, doc.gen)' /\ u.pc # "advance"
      BY <1>4, <2>3 DEF Probing, Hired
    <3>3. SplitAt(u)'
      BY <1>1, <3>2 DEF PipeInv, StatusInv
    <3> QED
      BY <3>1, <3>2, <3>3 DEF SplitAt, Stopped
  <2> QED
    BY <2>1, <2>2, <2>3
<1> QED
  BY <1>1, <1>3, <1>4, StepGen

LEMMA LifeInit == Init => LifeInv /\ Lifecycle!Init
<1> SUFFICES ASSUME Init PROVE LifeInv /\ Lifecycle!Init
  OBVIOUS
<1>1. PipeInv /\ CountInv /\ VerdictInv
  BY PipeInit, CountInit, VerdictInit
<1>2. /\ doc.gen = 1 /\ doc.status = "queued" /\ ~doc.deleted /\ doc.exists /\ reqs = {}
      /\ \A p \in Page : row[p].st = "absent"
  BY DEF Init, NoRow
<1>3. \A t \in tasks : t.typ = "split" /\ t.pc = "queued"
  <2>1. LET d == DocTask("split", 1, 0) IN d.typ = "split" /\ d.pc = "queued"
    BY DEF DocTask, Task
  <2> QED
    BY <2>1 DEF Init
<1>4. Stopping /\ Orderly /\ PurgesDeleted /\ NoOrphanRows
  BY <1>2, <1>3 DEF Stopping, Orderly, Probing, PurgesDeleted, Purging, NoOrphanRows
<1>5. \A s \in Settled : Rows(doc.gen, s) = {}
  BY <1>2 DEF Rows, Settled
<1> QED
  BY <1>1, <1>2, <1>4, <1>5 DEF LifeInv, Lifecycle!Init, Settled

(* The tasks, windows, counters, requests and repairs of a document        *)
(* together implement the lifecycle of its status (types/knowledge.go),    *)
(* whatever the order of their steps: pages are known once, while the      *)
(* document is split; they are finished while it is parsed; it is          *)
(* assembled when all are, indexed when one was read, settled as completed *)
(* or partial by what became of them; and it leaves that path only to be   *)
(* cancelled, deleted, reparsed, or put back to be parsed on.              *)
THEOREM PipelineFollowsLifecycle ==
    ASSUME Tame, Either, Careful, "serial_stop" \in Timing
    PROVE  Spec => FollowsLifecycle
<1>1. Tame /\ Either /\ Careful /\ "serial_stop" \in Timing
  OBVIOUS
<1>2. LifeInv /\ NoOrphanRows' /\ [Next]_vars => LifeInv'
  <2> SUFFICES ASSUME LifeInv, NoOrphanRows', [Next]_vars PROVE LifeInv'
    OBVIOUS
  <2>1. PipeInv /\ CountInv /\ VerdictInv /\ Stopping /\ Orderly /\ PurgesDeleted /\ TypeOK
    BY DEF LifeInv, PipeInv
  <2>2. PipeInv' /\ CountInv' /\ VerdictInv'
    BY <1>1, <2>1, PipeStep, CountStep, VerdictStep
  <2>3. Stopping' /\ Orderly' /\ PurgesDeleted'
    BY <1>1, <2>1, StopStep, OrderlyStep, PurgeStep
  <2> QED
    BY <2>2, <2>3 DEF LifeInv
<1>3. LifeInv /\ NoOrphanRows' /\ [Next]_vars => [Lifecycle!Next]_(Lifecycle!vars)
  BY <1>1, LifeStep DEF Life
<1> QED
  BY <1>2, <1>3, LifeInit, RowsDieWithDocument, PTL DEF Spec, FollowsLifecycle, Lifecycle!Spec
================================================================================
