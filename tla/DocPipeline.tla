------------------------------ MODULE DocPipeline ------------------------------
(***************************************************************************)
(* The ingestion pipeline of one document: the documents row, its          *)
(* document_pages rows, the asynq tasks that work on them, the API         *)
(* requests that disturb them and the housekeeping that repairs them       *)
(* (internal/application/service/document, .../service/index,              *)
(* internal/repository/postgres, internal/queue).                          *)
(*                                                                         *)
(* A step is one database statement or transaction, or one call of the     *)
(* object store or queue; between two steps any other task, request or     *)
(* housekeeping run may act.                                               *)
(***************************************************************************)
EXTENDS Integers, FiniteSets

CONSTANTS
    N,               \* pages of the file
    Batch,           \* parser.render.batch_pages
    RenderInflight,  \* workers.render_inflight_batches
    RenderAhead,     \* workers.render_ahead_pages
    OcrInflight,     \* workers.ocr_inflight_pages
    MaxRetry,        \* queue.Policy.MaxRetry, one value for every task type
    Hold,            \* whether the upload may be on hold, as a set (U111)
    IsImage,         \* the file is an image, not a PDF
    Faulty,          \* the stages that may return an error
    Flaky,           \* the pages on which render and ocr may fail
    Crashable,       \* task types whose worker may die ("api": a request)
    Ops,             \* what users may ask for
    Timing,          \* timing assumptions: PromptFinish, PromptSplit, SerialPages, SerialStop
    MaxGen,          \* bound: parse generations
    MaxHk,           \* bound: housekeeping time buckets alive at once
    MaxReq,          \* bound: API requests in a behaviour
    MaxCrash,        \* bound: worker and request deaths
    MaxStale,        \* bound: housekeeping hits on work that is still alive
    MaxStray         \* bound: tasks picked up before their claim commits

Page == 1..N
Gen == 1..MaxGen

Stages == {"split", "split_permanent", "render", "ocr", "engine", "index", "tree"}
TaskTypes == {"split", "render", "ocr", "assemble", "index", "tree", "gencleanup", "delete"}

ASSUME SizeAssumption ==
    /\ N \in Nat \ {0} /\ Batch \in Nat \ {0}
    /\ RenderInflight \in Nat \ {0} /\ RenderAhead \in Nat \ {0} /\ OcrInflight \in Nat \ {0}
    /\ MaxRetry \in Nat /\ MaxGen \in Nat \ {0} /\ MaxHk \in Nat /\ MaxReq \in Nat
    /\ MaxCrash \in Nat /\ MaxStale \in Nat /\ MaxStray \in Nat

ASSUME KindAssumption ==
    /\ Hold \subseteq BOOLEAN /\ IsImage \in BOOLEAN
    /\ Flaky \subseteq Page
    /\ Faulty \subseteq Stages
    /\ Crashable \subseteq TaskTypes \cup {"api", "upload"}
    /\ Ops \subseteq {"cancel", "delete", "reparse", "pages"}
    /\ Timing \subseteq {"prompt_finish", "prompt_split", "serial_pages", "serial_stop"}

VARIABLES
    doc,      \* the documents row
    row,      \* the document_pages rows; generation 0 stands for "no row"
    tasks,    \* the tasks in Redis, archived (dead-lettered) ones included
    reqs,     \* the API requests being served
    blobs,    \* generations with objects in the store
    used      \* how much of each bound has been spent

vars == <<doc, row, tasks, reqs, blobs, used>>

DocStatus == {"queued", "splitting", "parsing", "assembling", "indexing", "completed",
              "partial", "failed", "cancelled", "deleting", "not_started"}
Terminal == {"completed", "partial", "failed", "cancelled", "deleting", "not_started"}
PageStatus == {"absent", "pending", "rendering", "rendered", "ocr", "done", "failed", "skipped"}
Stage == {"pending", "processing", "done", "partial", "failed"}

NoRow == [gen |-> 0, st |-> "absent", att |-> 0, img |-> FALSE]

-----------------------------------------------------------------------------
(* Tasks.  A task id is type, generation, lead page, attempt and bucket;   *)
(* an enqueue whose id is taken, even by an archived task, does nothing.   *)

Task(typ, g, p, a, h, P) ==
    [typ |-> typ, gen |-> g, page |-> p, att |-> a, hk |-> h, pages |-> P,
     todo |-> {}, left |-> {}, try |-> 0, pc |-> "queued"]

DocTask(typ, g, h) == Task(typ, g, 0, 0, h, {})

(* Mutant of Id: ids without the generation. *)
Id_AnyGen(t) == <<t.typ, t.page, t.att, t.hk>>

Id(t) == <<t.typ, t.gen, t.page, t.att, t.hk>>

Enqueue(new, T) == T \cup {t \in new : \A u \in T : Id(u) # Id(t)}

Live(t) == t.pc # "archived"
Final(t) == t.try >= MaxRetry

Restart(t) == [t EXCEPT !.pc = "queued", !.try = @ + 1, !.todo = {}, !.left = {}]

(* A dead-lettered task keeps its id.  One with a bucket in its id is      *)
(* forgotten: a later bucket never collides with it.                       *)
Archived(t) ==
    IF t.hk = 0 THEN {[t EXCEPT !.pc = "archived", !.try = 0, !.todo = {}, !.left = {}]} ELSE {}

(* What the queue keeps of a task whose handler returned a plain error.    *)
Errored(t) == IF Final(t) THEN Archived(t) ELSE {Restart(t)}

Others(t) == tasks \ {t}
CanCrash(typ) == typ \in Crashable /\ used.crash < MaxCrash
Spend(bound) == used' = [used EXCEPT ![bound] = @ + 1]

(* How a step leaves its task: at another step, in error, dead-lettered,   *)
(* or acknowledged (unless the worker dies before it can say so).          *)
Goto(t, pc) == tasks' = Others(t) \cup {[t EXCEPT !.pc = pc]} /\ UNCHANGED used
Error(t) == tasks' = Others(t) \cup Errored(t) /\ UNCHANGED used
DeadLetter(t) == tasks' = Others(t) \cup Archived(t) /\ UNCHANGED used
Ack(t, new) ==
    \/ tasks' = Enqueue(new, Others(t)) /\ UNCHANGED used
    \/ CanCrash(t.typ) /\ tasks' = Enqueue(new, Others(t) \cup Errored(t)) /\ Spend("crash")

-----------------------------------------------------------------------------
(* The documents row.                                                      *)

Visible == doc.exists /\ ~doc.deleted
Runnable(t) == doc.exists /\ doc.gen = t.gen /\ doc.status \notin {"deleting", "cancelled"}

(* Mutant of Update: the stop states left unguarded.                       *)
Update_Stopped(g, new) == doc' = IF doc.exists /\ doc.gen = g THEN new ELSE doc

(* DocumentsRepo.Update: a no-op on a superseded or stopped document.      *)
Update(g, new) ==
    doc' = IF doc.exists /\ doc.gen = g /\ doc.status \notin {"cancelled", "deleting"}
           THEN new ELSE doc

FailDoc(g) == Update(g, [doc EXCEPT !.status = "failed", !.parse = "failed"])

Counted(g) == doc.exists /\ doc.gen = g
CountPage(g, counter) == doc' = IF Counted(g) THEN [doc EXCEPT ![counter] = @ + 1] ELSE doc

-----------------------------------------------------------------------------
(* The document_pages rows and Advance.                                    *)

Rows(g, s) == {p \in Page : row[p].gen = g /\ row[p].st = s}
Active(g) == {p \in Page : row[p].gen = g /\ row[p].st # "skipped"}
Rank(p, S) == Cardinality({q \in S : q < p})
Least(S) == CHOOSE p \in S : \A q \in S : p <= q

SetPage(p, g, s) == row' = IF row[p].gen = g THEN [row EXCEPT ![p].st = s] ELSE row

OcrClaims(g) ==
    {p \in Rows(g, "rendered") :
        Rank(p, Rows(g, "rendered")) < OcrInflight - Cardinality(Rows(g, "ocr"))}

(* A pending page falls in the k-th batch claimed by the render loop; the  *)
(* loop goes on while the windows, counted before any claim, have room.    *)
RenderBatchOf(p, g) == Rank(p, Rows(g, "pending")) \div Batch
(* Mutants: a full batch counts, a started one does not; pages in OCR do   *)
(* not hold rendering back.                                                *)
BatchesInflight_Floor(g) == Cardinality(Rows(g, "rendering")) \div Batch
PagesAhead_NoOcr(g) == Cardinality(Rows(g, "rendered"))
BatchesInflight(g) == (Cardinality(Rows(g, "rendering")) + Batch - 1) \div Batch
PagesAhead(g) == Cardinality(Rows(g, "rendered")) + Cardinality(Rows(g, "ocr"))
RenderClaims(g) ==
    {p \in Rows(g, "pending") :
        /\ Rank(p, Rows(g, "pending")) < (RenderInflight - BatchesInflight(g)) * Batch
        /\ PagesAhead(g) + RenderBatchOf(p, g) * Batch < RenderAhead}

Claim(p, s) == [row[p] EXCEPT !.st = s, !.att = @ + 1]
Advanced(g) ==
    [p \in Page |-> IF p \in OcrClaims(g) THEN Claim(p, "ocr")
                    ELSE IF p \in RenderClaims(g) THEN Claim(p, "rendering")
                    ELSE row[p]]

(* One ocr task for each page claimed, one render task for each batch, in  *)
(* the name of its first page, and the assembly when every page of the     *)
(* generation is finished.                                                 *)
Leads(g) == {p \in RenderClaims(g) : Rank(p, Rows(g, "pending")) % Batch = 0}
BatchFrom(p, g) == {q \in RenderClaims(g) : RenderBatchOf(q, g) = RenderBatchOf(p, g)}
AllFinished(g) == Active(g) # {} /\ Active(g) = Rows(g, "done") \cup Rows(g, "failed")
NewTasks(g) ==
    {Task("ocr", g, p, row[p].att + 1, 0, {p}) : p \in OcrClaims(g)}
    \cup {Task("render", g, p, row[p].att + 1, 0, BatchFrom(p, g)) : p \in Leads(g)}
    \cup IF AllFinished(g) THEN {DocTask("assemble", g, 0)} ELSE {}

Advance(g) == row' = Advanced(g)

-----------------------------------------------------------------------------
(* A task whose document is gone, stopped or reparsed is dropped.          *)

At(t, typ, pc) == t.typ = typ /\ t.pc = pc
Starts(t, typ) == At(t, typ, "queued") /\ Runnable(t)

Drop(t) ==
    /\ t.pc = "queued" /\ t.typ # "delete" /\ ~Runnable(t)
    /\ Ack(t, {})
    /\ UNCHANGED <<doc, row, reqs, blobs>>

(* document:split *)

SplitStart(t) ==
    /\ Starts(t, "split")
    /\ Update(t.gen, [doc EXCEPT !.status = "splitting", !.parse = "processing"])
    /\ Goto(t, IF doc.hold THEN "probe_hold" ELSE "probe")
    /\ UNCHANGED <<row, reqs, blobs>>

(* Pages.Init: every row of the document is replaced by one of the task's  *)
(* generation.  The rows hang on the documents row.                        *)
(* Mutants: rendered pages survive; rows without a document.               *)
FreshRows_Keep(g, s) ==
    [p \in Page |-> IF row[p].img THEN row[p] ELSE [gen |-> g, st |-> s, att |-> 0, img |-> FALSE]]
FreshRows(g, s) == [p \in Page |-> [gen |-> g, st |-> s, att |-> 0, img |-> FALSE]]
RowsAllowed == doc.exists

(* The file is probed and its pages are known.                             *)
SplitInit(t) ==
    /\ At(t, "split", "probe") \/ At(t, "split", "probe_hold")
    /\ IF RowsAllowed
       THEN /\ row' = FreshRows(t.gen, IF t.pc = "probe" THEN "pending" ELSE "skipped")
            /\ Goto(t, IF t.pc = "probe" THEN "ready" ELSE "ready_hold")
       ELSE Error(t) /\ UNCHANGED row
    /\ UNCHANGED <<doc, reqs, blobs>>

SplitProbeFails(t) ==
    /\ At(t, "split", "probe") \/ At(t, "split", "probe_hold")
    /\ \/ "split" \in Faulty /\ ~Final(t) /\ Error(t) /\ UNCHANGED doc
       \/ "split" \in Faulty /\ Final(t) /\ DeadLetter(t) /\ FailDoc(t.gen)
       \/ "split_permanent" \in Faulty /\ DeadLetter(t) /\ FailDoc(t.gen)
    /\ UNCHANGED <<row, reqs, blobs>>

SplitReady(t) ==
    /\ At(t, "split", "ready")
    /\ Update(t.gen, [doc EXCEPT !.status = "parsing", !.pageCount = N])
    /\ Goto(t, "advance")
    /\ UNCHANGED <<row, reqs, blobs>>

SplitHeld(t) ==
    /\ At(t, "split", "ready_hold")
    /\ Update(t.gen, [doc EXCEPT !.status = "not_started", !.parse = "pending",
                                 !.pageCount = N, !.skipped = N])
    /\ Ack(t, {})
    /\ UNCHANGED <<row, reqs, blobs>>

(* The Advance that ends document:split and page:ocr.                      *)
LastAdvance(t) ==
    /\ t.typ \in {"split", "ocr"} /\ t.pc = "advance"
    /\ Advance(t.gen)
    /\ Ack(t, NewTasks(t.gen))
    /\ UNCHANGED <<doc, reqs, blobs>>

-----------------------------------------------------------------------------
(* page:render *)

(* A retry renders only what the attempts before it left.                  *)
(* Mutant: a retry renders its whole batch again.                          *)
StillRendering_All(t) == {p \in t.pages : row[p].gen = t.gen}
StillRendering(t) == {p \in t.pages : row[p].gen = t.gen /\ row[p].st = "rendering"}

RenderStart(t) ==
    /\ Starts(t, "render")
    /\ LET todo == StillRendering(t)
       IN  IF todo = {} THEN Ack(t, {})
           ELSE tasks' = Others(t) \cup {[t EXCEPT !.pc = "emit", !.todo = todo, !.left = todo]}
                /\ UNCHANGED used
    /\ UNCHANGED <<doc, row, reqs, blobs>>

(* One page comes out of the renderer: Put, then MarkRendered, which does  *)
(* not look at the state the page is in.                                   *)
RenderEmit(t) ==
    /\ At(t, "render", "emit")
    /\ LET p == Least(t.left)
       IN  /\ row' = IF row[p].gen = t.gen THEN [row EXCEPT ![p].st = "rendered", ![p].img = TRUE] ELSE row
           /\ tasks' = Others(t) \cup {[t EXCEPT !.pc = "advance", !.left = @ \ {p}]}
    /\ blobs' = blobs \cup {t.gen}
    /\ UNCHANGED <<doc, reqs, used>>

RenderAdvance(t) ==
    /\ At(t, "render", "advance")
    /\ Advance(t.gen)
    /\ IF t.left = {} THEN Ack(t, NewTasks(t.gen))
       ELSE /\ tasks' = Enqueue(NewTasks(t.gen), Others(t) \cup {[t EXCEPT !.pc = "emit"]})
            /\ UNCHANGED used
    /\ UNCHANGED <<doc, reqs, blobs>>

(* A page that does not render: retried, given up on the final attempt.    *)
(* An image that does not decode is a permanent error (renderImage): it is *)
(* dead-lettered on whatever attempt it is.                                *)
(* Mutant: nothing special on the final attempt.                           *)
RenderFails_NoGiveUp(t) ==
    /\ At(t, "render", "emit") /\ "render" \in Faulty /\ Least(t.left) \in Flaky
    /\ Error(t)
    /\ UNCHANGED <<doc, row, reqs, blobs>>

RenderFails(t) ==
    /\ At(t, "render", "emit") /\ "render" \in Faulty /\ Least(t.left) \in Flaky
    /\ IF Final(t)
       THEN tasks' = Others(t) \cup {[t EXCEPT !.pc = "give_up", !.left = t.todo]} /\ UNCHANGED used
       ELSE IF IsImage THEN DeadLetter(t) ELSE Error(t)
    /\ UNCHANGED <<doc, row, reqs, blobs>>

(* Mutant: gives up on the whole batch, rendered pages included.           *)
RenderGiveUp_All(t) ==
    /\ At(t, "render", "give_up") /\ t.left # {}
    /\ SetPage(Least(t.left), t.gen, "failed") /\ Goto(t, "count")
    /\ UNCHANGED <<doc, reqs, blobs>>

RenderGiveUp(t) ==
    /\ At(t, "render", "give_up") /\ t.left # {}
    /\ LET p == Least(t.left)
       IN  IF row[p].st = "rendering"
           THEN SetPage(p, t.gen, "failed") /\ Goto(t, "count")
           ELSE tasks' = Others(t) \cup {[t EXCEPT !.left = @ \ {p}]} /\ UNCHANGED <<row, used>>
    /\ UNCHANGED <<doc, reqs, blobs>>

RenderCount(t) ==
    /\ At(t, "render", "count")
    /\ CountPage(t.gen, "failed")
    /\ tasks' = Others(t) \cup {[t EXCEPT !.pc = "give_up", !.left = @ \ {Least(@)}]}
    /\ UNCHANGED <<row, reqs, blobs, used>>

(* The Advance after a failed page, then the task is dead-lettered.        *)
FailedAdvance(t) ==
    /\ At(t, "ocr", "give_up") \/ (At(t, "render", "give_up") /\ t.left = {})
    /\ Advance(t.gen)
    /\ tasks' = Enqueue(NewTasks(t.gen), Others(t) \cup Archived(t))
    /\ UNCHANGED <<doc, reqs, blobs, used>>

(* page:ocr *)

(* Mutant: a page that is done is read again.                              *)
OcrStart_Again(t) ==
    /\ Starts(t, "ocr")
    /\ IF row[t.page].gen = t.gen THEN Goto(t, "read") ELSE Ack(t, {})
    /\ UNCHANGED <<doc, row, reqs, blobs>>

OcrStart(t) ==
    /\ Starts(t, "ocr")
    /\ IF row[t.page].gen = t.gen /\ row[t.page].st \notin {"done", "failed"}
       THEN Goto(t, "read") ELSE Ack(t, {})
    /\ UNCHANGED <<doc, row, reqs, blobs>>

(* The engine answered (or the text layer stands in on the final attempt): *)
(* figures are stored, then SaveParsed, unless the page was superseded.    *)
OcrSave(t) ==
    /\ At(t, "ocr", "read")
    /\ blobs' = blobs \cup {t.gen}
    /\ SetPage(t.page, t.gen, "done")
    /\ IF row[t.page].gen = t.gen THEN Goto(t, "count") ELSE Ack(t, {})
    /\ UNCHANGED <<doc, reqs>>

OcrRetry(t) ==
    /\ At(t, "ocr", "read") /\ "ocr" \in Faulty /\ t.page \in Flaky /\ ~Final(t)
    /\ Error(t)
    /\ UNCHANGED <<doc, row, reqs, blobs>>

(* The final attempt failed with no usable text layer, or the document     *)
(* names an engine that does not exist.                                    *)
OcrFail(t) ==
    /\ At(t, "ocr", "read") /\ t.page \in Flaky
    /\ ("ocr" \in Faulty /\ Final(t)) \/ "engine" \in Faulty
    /\ SetPage(t.page, t.gen, "failed")
    /\ Goto(t, "count_failed")
    /\ UNCHANGED <<doc, reqs, blobs>>

OcrCount(t) ==
    /\ At(t, "ocr", "count")
    /\ CountPage(t.gen, "done")
    /\ IF Counted(t.gen) THEN Goto(t, "advance") ELSE Error(t)
    /\ UNCHANGED <<row, reqs, blobs>>

(* Mutant: the failed page is counted as done.                             *)
OcrCountFailed_Done(t) ==
    /\ At(t, "ocr", "count_failed")
    /\ CountPage(t.gen, "done")
    /\ Goto(t, "give_up")
    /\ UNCHANGED <<row, reqs, blobs>>

OcrCountFailed(t) ==
    /\ At(t, "ocr", "count_failed")
    /\ CountPage(t.gen, "failed")
    /\ Goto(t, "give_up")
    /\ UNCHANGED <<row, reqs, blobs>>

-----------------------------------------------------------------------------
(* document:assemble *)

AssembleStart(t) ==
    /\ Starts(t, "assemble")
    /\ Update(t.gen, [doc EXCEPT !.status = "assembling"])
    /\ Goto(t, "decide")
    /\ UNCHANGED <<row, reqs, blobs>>

(* A timing assumption, used only where a run says so: the finisher of a   *)
(* page counts it and returns before an assembly gets as far as reading    *)
(* the counters.                                                           *)
Finishing(g) == {t \in tasks : t.gen = g /\ t.pc \in {"count", "count_failed", "advance", "give_up"}}
PromptFinish(t) == "prompt_finish" \in Timing => Finishing(t.gen) = {}

(* The markdown is stored, the counters are read, and the verdict written; *)
(* a counter that moves between the read and the write moves after both.   *)
AssembleDecide(t) ==
    /\ At(t, "assemble", "decide") /\ PromptFinish(t)
    /\ blobs' = blobs \cup {t.gen}
    /\ IF ~Visible THEN Error(t) /\ UNCHANGED doc
       ELSE IF doc.failed >= doc.pageCount - doc.skipped THEN DeadLetter(t) /\ FailDoc(t.gen)
       ELSE /\ Update(t.gen, [doc EXCEPT !.status = "indexing",
                                         !.parse = IF doc.failed > 0 THEN "partial" ELSE "done"])
            /\ Goto(t, "handover")
    /\ UNCHANGED <<row, reqs>>

AssembleHandover(t) ==
    /\ At(t, "assemble", "handover")
    /\ Ack(t, {DocTask("index", t.gen, 0)}
              \cup IF t.gen > 1 THEN {DocTask("gencleanup", t.gen, 0)} ELSE {})
    /\ UNCHANGED <<doc, row, reqs, blobs>>

(* index:build and index:tree.  Their handler marks the document failed    *)
(* when the final attempt fails.                                           *)

IndexBuild(t) ==
    /\ Starts(t, "index")
    /\ Ack(t, {DocTask("tree", t.gen, 0)})
    /\ UNCHANGED <<doc, row, reqs, blobs>>

TreeStart(t) ==
    /\ Starts(t, "tree")
    /\ Goto(t, "settle")
    /\ UNCHANGED <<doc, row, reqs, blobs>>

(* SetIndexResult: the document settles.                                   *)
TreeSettle(t) ==
    /\ At(t, "tree", "settle")
    /\ IF Visible
       THEN /\ Update(t.gen, [doc EXCEPT !.status = IF doc.parse = "partial" THEN "partial" ELSE "completed"])
            /\ Ack(t, {})
       ELSE Error(t) /\ UNCHANGED doc
    /\ UNCHANGED <<row, reqs, blobs>>

IndexFails(t) ==
    /\ \/ "index" \in Faulty /\ Starts(t, "index")
       \/ "tree" \in Faulty /\ At(t, "tree", "settle")
    /\ Error(t)
    /\ IF Final(t) /\ Visible
       THEN Update(t.gen, [doc EXCEPT !.status = "failed"]) ELSE UNCHANGED doc
    /\ UNCHANGED <<row, reqs, blobs>>

(* gen:cleanup removes the objects of older generations.                   *)
(* Mutant: and those of its own.                                           *)
GenCleanup_Own(t) ==
    /\ Starts(t, "gencleanup")
    /\ blobs' = {g \in blobs : g > t.gen}
    /\ Ack(t, {})
    /\ UNCHANGED <<doc, row, reqs>>

GenCleanup(t) ==
    /\ Starts(t, "gencleanup")
    /\ blobs' = {g \in blobs : g >= t.gen}
    /\ Ack(t, {})
    /\ UNCHANGED <<doc, row, reqs>>

(* document:delete removes the objects, then the row and all that hangs on *)
(* it.                                                                     *)
DeleteObjects(t) ==
    /\ At(t, "delete", "queued")
    /\ IF doc.exists /\ doc.status = "deleting"
       THEN Goto(t, "purge") /\ blobs' = {}
       ELSE Ack(t, {}) /\ UNCHANGED blobs
    /\ UNCHANGED <<doc, row, reqs>>

DeletePurge(t) ==
    /\ At(t, "delete", "purge")
    /\ doc' = [doc EXCEPT !.exists = FALSE]
    /\ row' = [p \in Page |-> NoRow]
    /\ Ack(t, {})
    /\ UNCHANGED <<reqs, blobs>>

-----------------------------------------------------------------------------
(* What can happen to a task besides its own steps.                        *)

(* The worker dies, or its lease runs out: the queue runs the task again,  *)
(* from the start, or dead-letters it when that was the last attempt.      *)
Crash(t) ==
    /\ t.pc \notin {"queued", "archived"} /\ CanCrash(t.typ)
    /\ tasks' = Others(t) \cup Errored(t)
    /\ Spend("crash")
    /\ UNCHANGED <<doc, row, reqs, blobs>>

(* Advance enqueues before its transaction commits: a worker quick enough  *)
(* still sees its pages pending, finds nothing to do and ends the task.    *)
(* Nothing else reads the task before the commit, so its disappearance can *)
(* be a step of its own.                                                   *)
StrayPickup(t) ==
    /\ At(t, "render", "queued") /\ t.try = 0 /\ used.stray < MaxStray
    /\ tasks' = Others(t)
    /\ Spend("stray")
    /\ UNCHANGED <<doc, row, reqs, blobs>>

Work(t) ==
    \/ Drop(t)
    \/ SplitStart(t) \/ SplitInit(t) \/ SplitProbeFails(t) \/ SplitReady(t) \/ SplitHeld(t)
    \/ LastAdvance(t)
    \/ RenderStart(t) \/ RenderEmit(t) \/ RenderAdvance(t)
    \/ RenderFails(t) \/ RenderGiveUp(t) \/ RenderCount(t) \/ FailedAdvance(t)
    \/ OcrStart(t) \/ OcrSave(t) \/ OcrRetry(t) \/ OcrFail(t) \/ OcrCount(t) \/ OcrCountFailed(t)
    \/ AssembleStart(t) \/ AssembleDecide(t) \/ AssembleHandover(t)
    \/ IndexBuild(t) \/ TreeStart(t) \/ TreeSettle(t) \/ IndexFails(t)
    \/ GenCleanup(t) \/ DeleteObjects(t) \/ DeletePurge(t)

-----------------------------------------------------------------------------
(* Housekeeping.  Its ages (started_at, updated_at) are abstracted: it     *)
(* acts freely on work nobody is doing any more, and at most MaxStale      *)
(* times on work that is only slow.                                        *)

Dead(p) ==
    \A t \in tasks : Live(t) /\ t.gen = row[p].gen /\ p \in t.pages =>
        t.typ # IF row[p].st = "ocr" THEN "ocr" ELSE "render"

(* No stage of the document is queued or running, no request restarts it.  *)
Idle ==
    /\ \A t \in tasks : Live(t) /\ t.gen = doc.gen => t.typ \in {"gencleanup", "delete"}
    /\ \A r \in reqs : r.op \notin {"reparse", "pages"}

Presume(dead) == IF dead THEN UNCHANGED used ELSE used.stale < MaxStale /\ Spend("stale")

(* ResetStale, one page at a time.                                         *)
HkReset(p) ==
    /\ row[p].st \in {"rendering", "ocr"}
    /\ row' = [row EXCEPT ![p].st = IF @ = "ocr" THEN "rendered" ELSE "pending"]
    /\ Presume(Dead(p))
    /\ UNCHANGED <<doc, tasks, reqs, blobs>>

Stuck(status) == Visible /\ doc.status \in status /\ Presume(Idle)

HkDispatch(status, typ, b) ==
    /\ Stuck(status)
    /\ tasks' = Enqueue({DocTask(typ, doc.gen, b)}, tasks)
    /\ UNCHANGED <<doc, row, reqs, blobs>>

(* Mutant: a document with nothing pending is not advanced.                *)
HkAdvance_Pending ==
    /\ Stuck({"parsing"}) /\ Rows(doc.gen, "pending") # {}
    /\ Advance(doc.gen)
    /\ tasks' = Enqueue(NewTasks(doc.gen), tasks)
    /\ UNCHANGED <<doc, reqs, blobs>>

HkAdvance ==
    /\ Stuck({"parsing"})
    /\ Advance(doc.gen)
    /\ tasks' = Enqueue(NewTasks(doc.gen), tasks)
    /\ UNCHANGED <<doc, reqs, blobs>>

HkDelete(b) ==
    /\ doc.exists /\ doc.status = "deleting"
    /\ tasks' = Enqueue({DocTask("delete", 0, b)}, tasks)
    /\ UNCHANGED <<doc, row, reqs, blobs, used>>

Housekeeping ==
    \/ \E p \in Page : HkReset(p)
    \/ HkAdvance
    \/ \E b \in 1..MaxHk :
          \/ HkDispatch({"queued", "splitting"}, "split", b)
          \/ HkDispatch({"assembling"}, "assemble", b)
          \/ HkDispatch({"indexing"}, "index", b)
          \/ HkDelete(b)

-----------------------------------------------------------------------------
(* API requests.  A request in flight is a record; its id is its number.   *)

Request(op, g, P, pc) == [id |-> used.req + 1, op |-> op, gen |-> g, pages |-> P, pc |-> pc, done |-> 0, failed |-> 0]
Open(op, g, P, pc) ==
    /\ op \in Ops /\ used.req < MaxReq /\ Visible
    /\ reqs' = reqs \cup {Request(op, g, P, pc)}
    /\ Spend("req")
Close(r) == reqs' = reqs \ {r}
Serve(r, pc) == reqs' = (reqs \ {r}) \cup {[r EXCEPT !.pc = pc]}
In(r, op, pc) == r.op = op /\ r.pc = pc

(* Cancel checks a copy of the row; its update has no status guard.        *)
CancelCheck ==
    /\ Open("cancel", doc.gen, {}, "write") /\ doc.status \notin Terminal
    /\ UNCHANGED <<doc, row, tasks, blobs>>

CancelWrite(r) ==
    /\ In(r, "cancel", "write")
    /\ doc' = IF Counted(r.gen) THEN [doc EXCEPT !.status = "cancelled"] ELSE doc
    /\ Close(r)
    /\ UNCHANGED <<row, tasks, blobs, used>>

(* A timing assumption, used only where a run says so: nobody deletes the  *)
(* document while a cancel of it is being served.                          *)
SerialStop == "serial_stop" \in Timing => \A r \in reqs : r.op # "cancel"

DeleteMark ==
    /\ SerialStop
    /\ Open("delete", doc.gen, {}, "enqueue")
    /\ doc' = [doc EXCEPT !.status = "deleting", !.deleted = TRUE]
    /\ UNCHANGED <<row, tasks, blobs>>

DeleteEnqueue(r) ==
    /\ In(r, "delete", "enqueue")
    /\ tasks' = Enqueue({DocTask("delete", 0, 0)}, tasks)
    /\ Close(r)
    /\ UNCHANGED <<doc, row, blobs, used>>

(* A timing assumption, used only where a run says so: no split is between *)
(* its pickup and its last step when a new generation starts.              *)
PromptSplit ==
    "prompt_split" \in Timing => \A t \in tasks : t.typ = "split" => t.pc \in {"queued", "archived"}

(* Whole-document reparse: BumpGen, then the split of the new generation.  *)
ReparseBump ==
    /\ doc.gen < MaxGen /\ PromptSplit
    /\ Open("reparse", doc.gen + 1, {}, "enqueue") /\ doc.status # "deleting"
    /\ doc' = [doc EXCEPT !.gen = @ + 1, !.status = "queued", !.parse = "pending",
                          !.done = 0, !.failed = 0, !.skipped = 0, !.hold = FALSE]
    /\ UNCHANGED <<row, tasks, blobs>>

ReparseEnqueue(r) ==
    /\ In(r, "reparse", "enqueue")
    /\ tasks' = Enqueue({DocTask("split", r.gen, 0)}, tasks)
    /\ Close(r)
    /\ UNCHANGED <<doc, row, blobs, used>>

(* Page reparse, also how the pages of a held upload are picked.           *)
(* A timing assumption, used only where a run says so: a user does not ask *)
(* for more pages while such a request is being served.                    *)
NoPageRequest == \A r \in reqs : r.op # "pages"
SerialPages == "serial_pages" \in Timing => NoPageRequest

PagesCheck(P) ==
    /\ SerialPages
    /\ doc.status \in Terminal \ {"cancelled"} /\ \A p \in P : p <= doc.pageCount
    /\ Open("pages", doc.gen, P, "reset")
    /\ UNCHANGED <<doc, row, tasks, blobs>>

PagesReset(r) ==
    /\ In(r, "pages", "reset")
    /\ LET hit == {p \in r.pages : row[p].gen = r.gen}
           was(s) == Cardinality({p \in hit : row[p].st = s})
       IN  /\ row' = [p \in Page |-> IF p \notin hit THEN row[p]
                                    ELSE [row[p] EXCEPT !.st = IF row[p].img THEN "rendered" ELSE "pending"]]
           /\ reqs' = (reqs \ {r}) \cup {[r EXCEPT !.pc = "adjust", !.done = was("done"), !.failed = was("failed")]}
    /\ UNCHANGED <<doc, tasks, blobs, used>>

Minus(a, b) == IF a > b THEN a - b ELSE 0

PagesAdjust(r) ==
    /\ In(r, "pages", "adjust")
    /\ doc' = IF Counted(r.gen)
              THEN [doc EXCEPT !.done = Minus(@, r.done), !.failed = Minus(@, r.failed)] ELSE doc
    /\ Serve(r, "pick")
    /\ UNCHANGED <<row, tasks, blobs, used>>

PagesPick(r) ==
    /\ In(r, "pages", "pick")
    /\ doc' = IF Counted(r.gen)
              THEN [doc EXCEPT !.hold = FALSE, !.skipped = Cardinality(Rows(r.gen, "skipped"))] ELSE doc
    /\ Serve(r, "parse")
    /\ UNCHANGED <<row, tasks, blobs, used>>

PagesParse(r) ==
    /\ In(r, "pages", "parse")
    /\ Update(r.gen, [doc EXCEPT !.status = "parsing", !.parse = "processing"])
    /\ Serve(r, "advance")
    /\ UNCHANGED <<row, tasks, blobs, used>>

PagesAdvance(r) ==
    /\ In(r, "pages", "advance")
    /\ Advance(r.gen)
    /\ tasks' = Enqueue(NewTasks(r.gen), tasks)
    /\ Close(r)
    /\ UNCHANGED <<doc, blobs, used>>

(* The request's context ends (the client went away, the process died)     *)
(* before its next statement.                                              *)
RequestDies(r) ==
    /\ CanCrash("api") /\ Close(r) /\ Spend("crash")
    /\ UNCHANGED <<doc, row, tasks, blobs>>

ServeStep(r) ==
    \/ CancelWrite(r) \/ DeleteEnqueue(r) \/ ReparseEnqueue(r)
    \/ PagesReset(r) \/ PagesAdjust(r) \/ PagesPick(r) \/ PagesParse(r) \/ PagesAdvance(r)

Ask == CancelCheck \/ DeleteMark \/ ReparseBump \/ \E P \in (SUBSET Page) \ {{}} : PagesCheck(P)

-----------------------------------------------------------------------------

(* The upload has created the row and enqueued the split, unless it died   *)
(* between the two.                                                        *)
Init ==
    /\ \E h \in Hold :
           doc = [exists |-> TRUE, deleted |-> FALSE, status |-> "queued", parse |-> "pending", gen |-> 1,
                  pageCount |-> 0, done |-> 0, failed |-> 0, skipped |-> 0, hold |-> h]
    /\ row = [p \in Page |-> NoRow]
    /\ tasks \in {{DocTask("split", 1, 0)}} \cup IF "upload" \in Crashable THEN {{}} ELSE {}
    /\ reqs = {} /\ blobs = {}
    /\ used = [crash |-> 0, stale |-> 0, stray |-> 0, req |-> 0]

WorkStep == \E t \in tasks : Work(t)

Next ==
    \/ WorkStep
    \/ \E t \in tasks : Crash(t) \/ StrayPickup(t)
    \/ Housekeeping
    \/ Ask
    \/ \E r \in reqs : ServeStep(r) \/ RequestDies(r)

Spec == Init /\ [][Next]_vars

(* Workers take the tasks that are queued, a request that is being served  *)
(* runs on, and the scheduler runs housekeeping every few minutes.         *)
Fairness ==
    /\ WF_vars(WorkStep)
    /\ WF_vars(\E r \in reqs : ServeStep(r))
    /\ \A p \in Page : WF_vars(HkReset(p))
    /\ WF_vars(HkAdvance)
    /\ WF_vars(\E b \in 1..MaxHk : HkDispatch({"queued", "splitting"}, "split", b)
                                \/ HkDispatch({"assembling"}, "assemble", b)
                                \/ HkDispatch({"indexing"}, "index", b))
    /\ WF_vars(\E b \in 1..MaxHk : HkDelete(b))

FairSpec == Spec /\ Fairness
-----------------------------------------------------------------------------
(* Properties.                                                             *)

Doc == [exists : BOOLEAN, deleted : BOOLEAN, status : DocStatus, parse : Stage, gen : Gen,
        pageCount : {0, N}, done : Nat, failed : Nat, skipped : 0..N, hold : BOOLEAN]
Row == [gen : 0..MaxGen, st : PageStatus, att : Nat, img : BOOLEAN]
Steps == {"queued", "archived", "probe", "probe_hold", "ready", "ready_hold", "advance", "emit",
          "give_up", "count", "read", "count_failed", "decide", "handover", "settle", "purge"}
Tasks == [typ : TaskTypes, gen : 0..MaxGen, page : 0..N, att : Nat, hk : 0..MaxHk,
          pages : SUBSET Page, todo : SUBSET Page, left : SUBSET Page, try : Nat, pc : Steps]
WellFormed(T) == T \subseteq Tasks /\ \A t \in T : t.typ # "delete" => t.gen \in Gen
Used == [crash : Nat, stale : Nat, stray : Nat, req : Nat]
Reqs == [id : Nat, op : {"cancel", "delete", "reparse", "pages"}, gen : Gen, pages : SUBSET Page,
         pc : {"write", "enqueue", "reset", "adjust", "pick", "parse", "advance"},
         done : Nat, failed : Nat]

(* Every variable stays in its type: rows carry a known status, tasks know *)
(* only steps of their handlers, requests only theirs (types/knowledge.go, *)
(* queue.go).                                                              *)
TypeOK ==
    /\ doc \in Doc
    /\ row \in [Page -> Row]
    /\ WellFormed(tasks)
    /\ reqs \subseteq Reqs
    /\ blobs \subseteq Gen
    /\ used \in Used

(* Pages.Init replaces all rows at once: the document never has rows of    *)
(* two generations side by side.                                           *)
OneGeneration == \A p, q \in Page : row[p].gen = row[q].gen

(* However many finishers call Advance at once, and whatever housekeeping  *)
(* puts back, no generation has more pages in OCR than the window          *)
(* (ocr_inflight_pages).                                                   *)
OcrWindow == \A g \in Gen : Cardinality(Rows(g, "ocr")) <= OcrInflight

(* Pages being rendered fit in render_inflight_batches batches.            *)
RenderWindow == \A g \in Gen : Cardinality(Rows(g, "rendering")) <= RenderInflight * Batch

(* Both windows of Advance hold, though each finisher tops them up from    *)
(* its own counts.                                                         *)
Windows == OcrWindow /\ RenderWindow

(* Backpressure of the render window: Advance counts the pages waiting for *)
(* OCR but not those being rendered, so render_ahead_pages can be          *)
(* overshot, by what the render window holds and no more.                  *)
Backpressure ==
    \A g \in Gen :
        Cardinality(Rows(g, "rendering") \cup Rows(g, "rendered") \cup Rows(g, "ocr"))
            < RenderAhead + RenderInflight * Batch

(* The OCR pool is never asked to read more pages of a document than its   *)
(* window, nor the same page twice at once: the tasks, not only the rows.  *)
Reading(g) == {t \in tasks : t.typ = "ocr" /\ t.gen = g /\ t.pc \in {"queued", "read"}}
OcrLoad ==
    \A g \in Gen :
        /\ Cardinality(Reading(g)) <= OcrInflight
        /\ \A t, u \in Reading(g) : t.page = u.page => t = u

(* What is rendered ahead and what the OCR pool is asked for stay bounded  *)
(* while no work is taken for dead and no page that is in work is asked    *)
(* for again.                                                              *)
Load == used.req = 0 => Backpressure /\ OcrLoad

Counting(typ, pc) == Cardinality({t \in tasks : t.typ = typ /\ t.pc = pc /\ t.gen = doc.gen})
Behind == doc.done + Counting("ocr", "count")
BehindFailed == doc.failed + Counting("ocr", "count_failed") + Counting("render", "count")

(* pages_done and pages_failed are kept apart from the rows: they differ   *)
(* from them only by the finishers between their two statements (savePage, *)
(* finishPageFailed, render's give-up).                                    *)
CountersExact ==
    doc.exists /\ NoPageRequest =>
        /\ Behind = Cardinality(Rows(doc.gen, "done"))
        /\ BehindFailed = Cardinality(Rows(doc.gen, "failed"))

(* Crashes may lose a count, but no page is ever counted twice.            *)
NeverOvercounted ==
    doc.exists /\ NoPageRequest =>
        /\ Behind <= Cardinality(Rows(doc.gen, "done"))
        /\ BehindFailed <= Cardinality(Rows(doc.gen, "failed"))

PageIs(p, st) == row[p].gen = doc.gen /\ row[p].st \in st

(* A document is assembled and indexed only when every page chosen of its  *)
(* own generation has been read or given up.                               *)
AssembledWhole ==
    doc.exists /\ doc.status \in {"assembling", "indexing", "completed", "partial"} /\ NoPageRequest =>
        \A p \in Page : PageIs(p, {"done", "failed", "skipped"})

(* A crash loses counts at most, and what housekeeping repairs after it    *)
(* never lets a document be assembled before its pages are finished.       *)
CrashSafe == NeverOvercounted /\ AssembledWhole

(* "completed" means every chosen page was read; "partial" means some      *)
(* pages were and some were not.                                           *)
VerdictTrue ==
    doc.exists /\ NoPageRequest =>
        /\ doc.status = "completed" => \A p \in Page : PageIs(p, {"done", "skipped"})
        /\ doc.status = "partial" => /\ \E p \in Page : PageIs(p, {"done"})
                                    /\ \E p \in Page : PageIs(p, {"failed"})

(* A page that was read is not put back to be read again.                  *)
NeverReread ==
    [][\A p \in Page : row[p].st = "done" /\ row'[p].gen = row[p].gen /\ NoPageRequest
        => row'[p].st = "done"]_vars

(* A task that ran out of attempts leaves none of its pages waiting for    *)
(* it: they were rendered or read, or they are given up.                   *)
GivesUp ==
    [][\A t \in tasks' \ tasks : t.pc = "archived" =>
        \A p \in t.pages : row'[p].gen = t.gen =>
            row'[p].st # IF t.typ = "ocr" THEN "ocr" ELSE "rendering"]_vars

(* Rows hang on the documents row: nothing that still runs when a document *)
(* is purged brings its pages back.                                        *)
NoOrphanRows == ~doc.exists => \A p \in Page : row[p] = NoRow

(* The rows of a document belong to it and to each other: one generation,  *)
(* and none without the document.                                          *)
RowsBelong == OneGeneration /\ NoOrphanRows

(* The image of a rendered page stays in the store while its document is   *)
(* in use: the cleanup after a reparse removes the objects of older        *)
(* generations only (genCleanup).                                          *)
ImagesKept ==
    doc.exists /\ doc.status # "deleting" =>
        \A p \in Page : row[p].gen = doc.gen /\ row[p].img => doc.gen \in blobs

(* Every document settles.                                                 *)
Settles == <>[](doc.status \in Terminal)

(* A deleted document is purged.                                           *)
DeletedIsPurged == doc.deleted ~> ~doc.exists

(* However reparses, cancels, deletes and the purge overlap and die, the   *)
(* document comes to rest, and a deleted one leaves nothing behind.        *)
Ends == Settles /\ DeletedIsPurged
=============================================================================
