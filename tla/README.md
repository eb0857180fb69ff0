# TLA+ models of bepaylot

bepaylot takes documents (PDF files and images), renders and reads their pages
through OCR engines, splits files into the documents they hold, extracts fields,
lays out case sheets and answers questions about it all in chat sessions. What
is hard in it is control: PostgreSQL rows that record how far something has
come, tasks in a Redis queue (asynq) that move it along, API requests that
disturb it, what the workers of one process share, and the turns of a session.
This directory holds the models of that control, the TLC configurations that
check them on small instances, and theorems about them for instances of any size.

Paths are relative to the repository. `pipeline.go`, `manage.go`, `upload.go`,
`callback.go` and `gate.go` are in `internal/application/service/document`;
`knowledge.go`, `pages.go` and `callbacks.go` in
`internal/application/repository/postgres` (`repo` below); `queue.go` in
`internal/queue`. `PROJECT.json` maps every definition to its lines.

| module | models | runs |
| --- | --- | --- |
| `DocPipeline` | the ingestion of one document: rows, tasks, requests, housekeeping | |
| `DocLifecycle` | the abstract specification: what the status of a document may do | |
| `MCDocPipeline` | the refinement from the one to the other | `clean`, `generations`, `crashes` |
| `Callbacks` | the completion callbacks of one document | `callbacks` |
| `ModelGate` | two kinds of model calls that exclude each other | `gate` |
| `WorkerTasks`, `TempFiles`, `Renderer` | the tasks of one worker process, the source files they share, the pool of PDFium instances they take turns on | |
| `RenderWorker` | the composition of the two | `render_worker` |
| `Split`, `MCSplit` | how files are split into documents, bundled, confirmed and shown | `split` |
| `Sheets`, `MCSheets` | extracted fields and the sheets of a case | `sheets` |
| `DocTypes` | one document type: versions, samples, test runs, jobs | `doctypes` |
| `CheckExpr`, `MCCheckExpr` | the formulas of cross-checks over the documents of a contract | `check_expr` |
| `Checks`, `MCChecks` | the runs of a cross-check and how documents find their contract | `checks` |
| `Turns` | the turns of one chat session | `turns` |
| `DocPipelineProofs`, `CallbacksProofs`, `RenderWorkerProofs`, `SheetsProofs`, `DocTypesProofs`, `SplitProofs`, `ChecksProofs`, `TurnsProofs` | theorems about the module each is named for; `RenderWorkerProofs` about `ModelGate` too, `ChecksProofs` about `CheckExpr` | |

    tlc -config clean.cfg MCDocPipeline
    tlapm RenderWorkerProofs.tla

## 1. The system

### Components, their state and their operations

| component | state | operations |
| --- | --- | --- |
| document rows (`knowledge.go`) | `documents`: status, parse status, generation, counters, `deleted_at`, `callback_run` | `Update` (guarded by generation and stop status), `CountPage`, `AdjustCounters`, `PickPages`, `BumpGen`, `SoftDelete`, `Purge`, `Stuck`, `Deleting` |
| page rows (`pages.go`) | `document_pages`: generation, status, attempts, image key | `Init`, `ClaimForRender`, `ClaimForOCR`, `MarkRendered`, `SaveParsed`, `SetStatus`, `ResetStale`, `ResetPages`, `Counts` |
| document pipeline (`pipeline.go`) | none of its own | handlers of `document:split`, `page:render`, `page:ocr`, `document:assemble`, `gen:cleanup`, `document:delete`; `Advance`; `Housekeeping` |
| index tasks (`service/index`) | sections, tree, cards | `index:build`, `index:tree`, `SetIndexResult` |
| document API (`manage.go`, `upload.go`) | none | `Upload`, `Cancel`, `Delete`, `Reparse` (whole document or pages) |
| task queue (`queue.go`, `inline.go`) | tasks with an id, attempts, a lease | enqueue, retry, dead letter, recovery |
| object store (`storage`) | blobs by document and generation | put, delete by prefix |
| completion callbacks (`callback.go`, `callbacks.go`, `webhook`) | `document_callbacks` and their attempts | schedule, deliver, record, re-arm, housekeeping |
| model gate (`gate.go`) | kind and number of the calls in progress | enter, leave |
| temporary files (`storage/tempfiles.go`) | reference-counted downloads | acquire, release |
| page renderer (`docpipe/parser/pdf/renderer.go`) | slots, each an instance of PDFium | acquire, probe, render, release, recycle, replace |
| split into documents (`service/docmodel/split.go`, `repo/segments.go`) | `document_segments`, `split_reviewed_at`, bundle codes | `SaveProposals`, `SaveSplit`, `document:classify`, automatic confirmation, rebuild of trees |
| document types (`service/docmodel/doctypes`, `repo/doctypes.go`) | types, versions of instructions, samples, runs, jobs | save, add, use, drop a version; upload, read, drop a sample; test and optimize |
| fields and sheets (`service/docmodel/extract.go`, `service/sheets`) | `extracted_fields`, `case_sheets`, `field_corrections` | `case:sheet`, `Extract`, `SaveCaseField`, `SaveEdits`, create, delete |
| cross-checks (`service/sheets/checks.go`, `repo/checks.go`) | `case_checks`, `case_check_links`, `check_rulesets` | create, evaluate after the build of the sheet, rerun, choose a contract, delete |
| check formulas (`internal/checkexpr`) | none: a pure evaluation | parse, check, evaluate |
| agent (`internal/agent`) | registry of running turns, inboxes, stored messages | run, steer, interrupt, follow up |
| OCR engines, search index, tools, LLM clients, MCP manager | connections, caches | calls whose answers are data |
| cases, metadata, usage, auth, HTTP layer, configuration, front end | single rows | single statements |

### How they interact

Nothing is held in memory between two steps of a document. A task handler reads
the `documents` row once, checks generation and status (`handleWith`,
pipeline.go), and works on that copy; each further access is one SQL statement
or transaction whose WHERE clause is all the protection there is. `Advance` is
the hub: under an advisory lock it counts the page rows, claims pages for OCR
and for rendering within its windows, enqueues a task for each claim, and
enqueues the assembly when every page is finished. The queue drops an enqueue
whose id is already taken, by a dead-lettered task too; the ids are built so that
work asked for twice is done once.

The workers of one process share what is outside the database: a render task
holds a reference-counted local copy of its file while it holds a slot of the
renderer, and OCR tasks pass a gate that lets one kind of model call run at a
time. Once a document is read, `index:tree` proposes how its file splits into
documents; users and `document:classify` revise that; a case sheet extracts
the fields of the documents and lays them out, while users and the chat agent
write the same fields. A cross-check waits for
its sheet, finds the contract each document belongs to and compares their fields
by formulas. A chat session runs one turn at a time, in one process.

### What is hard here

* finishers of several pages run at once and each decides from what it counts; a
  row and its counter are changed in two statements;
* a handler goes on with its copy of the row while the user cancels, deletes or
  reparses; a screen is saved from the state it was drawn from;
* workers die between any two statements, and are given up for dead when slow;
* whoever leaves a status must leave someone behind who will move it on;
* a receiver may take a callback whose answer is lost, and an attempt may be
  made by two tasks at once;
* a slot, a file or a place at the gate must come back whatever ends its user;
* an agent's late answer meets what a user wrote meanwhile;
* a message arrives while the turn that should read it closes its inbox.

`PROJECT.json` lists these hazards at the lines where they bite, each with the
properties that would catch it going wrong.

## 2. The models

A step is one database statement or transaction, one object-store call, one
enqueue or one model call; between two steps anything else may act. Payloads,
texts, prompts and layouts are names or members of small sets. Variables called
`used` count how much of each bound a behaviour has spent.

### DocPipeline: the ingestion of one document

| variable | code |
| --- | --- |
| `doc` | the `documents` row; `parse` is `parse_status`, `done`, `failed`, `skipped` the page counters |
| `row[p]` | the `document_pages` row of page p: generation, status, attempts, whether it has an image; `NoRow` if none |
| `tasks` | the tasks in Redis, dead-lettered ones included. `typ, gen, page, att, hk` make the id; `pc` is the next statement of the handler, `todo` and `left` its local page lists, `try` its attempt |
| `reqs` | the API requests between two of their statements |
| `blobs` | the generations that have objects |

| actions | code |
| --- | --- |
| `SplitStart` .. `SplitHeld` | `split` |
| `Advance`, `NewTasks`, `OcrClaims`, `RenderClaims` | `Advance`, and the claims of pages.go |
| `RenderStart` .. `RenderCount`, `FailedAdvance` | `render`, `renderImage` |
| `OcrStart` .. `OcrCountFailed`, `LastAdvance` | `ocr`, `savePage`, `finishPageFailed` |
| `AssembleStart`, `AssembleDecide`, `AssembleHandover` | `assemble` |
| `IndexBuild`, `TreeStart`, `TreeSettle`, `IndexFails` | `index:build`, `index:tree`, `SetIndexResult` |
| `DeleteObjects`, `DeletePurge`, `GenCleanup` | `purge`, `genCleanup` |
| `Drop` | `handleWith`: a task of a stopped or superseded document ends |
| `Crash` | a dead worker, a lost lease or an infrastructure error: the task is tried again, or dead-lettered after its last attempt |
| `StrayPickup` | a render task is picked up before the transaction that claimed its pages commits, finds nothing to do and ends |
| `HkReset`, `HkAdvance`, `HkDispatch`, `HkDelete` | `Housekeeping` |
| `CancelCheck/Write`, `DeleteMark/Enqueue`, `ReparseBump/Enqueue`, `PagesCheck` .. `PagesAdvance`, `RequestDies` | `Cancel`, `Delete`, `Reparse` of manage.go |

What it abstracts: pages carry a status, not blocks, text, figures or types;
`index_status`, titles, spans, usage and logs are left out, and so is the rewrite
of single pages by the furniture pass (`UpdateMarkdown`). `AssembleDecide` joins
the read of the counters and the write of the verdict (a `CountPage` between them
commutes: it moves after both). Housekeeping decides by ages: a page whose task
is gone, or a document nobody works on, may be hit at any time; work that is
still alive only `MaxStale` times, for it must be slow to look dead. `MaxRetry` is
one constant for all task types. The queue is the Redis one; a task with a time
bucket in its id (`hk`) is forgotten once dead-lettered, for a later bucket has
another id.

`DocLifecycle` is what this amounts to for the reader of a status: from which
status to which a document may go, and what a status says of the pages read, lost
and skipped. `FollowsLifecycle` says that every step of the pipeline is a step of
the lifecycle or leaves it alone.

The code has races that need one actor to be slow between two adjacent
statements. The set `Timing` takes them out of a run, one flag each, so that it
can show that nothing *else* goes wrong; section 5 tells what happens without.

| flag | meaning |
| --- | --- |
| `prompt_finish` | a finisher counts its page and returns before an assembly reads the counters |
| `prompt_split` | a reparse does not start while a split is between its pickup and its last step |
| `serial_pages` | a user asks for pages again only once the last such request has returned |
| `serial_stop` | nobody deletes the document while a cancel of it is being served |

### Callbacks: telling a receiver

One document, one callback URL. A delivery is made per generation and page-reparse
run (`Key`), sent until a 2xx or `max_attempts`, and every attempt is recorded.
`doc` is the part of the row that matters (`busy` stands for every status on the
way; `partial` has the event it would have as `completed`), `cb[k]` the delivery,
`log` the attempts, `calls` the calls of `scheduleCallback`, `tasks` the
`document:callback` tasks with the copy of attempts + 1 and `max_attempts` they
work with, `heard` what the receiver has answered with a 2xx. `Finish` is the
pipeline seen from here. `ScheduleRead/Create/Enqueue`, `DeliverGet/Send/Record/Next`,
`HkMissing`, `HkOverdue`, `Rearm`, `RearmEnqueue` and `RetryMissing` are the
statements of `scheduleCallback`, `deliverCallback`, `callbackHousekeeping` and
`RetryCallback`. With `Calm`, nothing ends the document between the check and the
write of a cancel; a page reparse does not begin while a callback is being
scheduled, nor housekeeping while it is served; and a retry is asked for once its
delivery is settled and no attempt is in flight.

### ModelGate, TempFiles, Renderer, RenderWorker: what workers share

`ModelGate` has the gate's kind and count (`kind`, `calls`) and where each worker of the
process is (`at[w]`: out, asking for the mutex, asleep on the condition variable,
in, and with which kind of call). A page is read and then, with
`classify.decision.serial`, its type is decided by a model that must not run
beside the reader; a reading may fail and is tried again. `Enter` is one pass of
the loop of `enter`; the last `LeaveGate` wakes everyone, each to ask again.

`TempFiles` has the map of entries (uses and state of the download), the disk and
what each task does with its key: `Join` under the mutex, `Download` outside it,
`Obtain` or `AcquireFails` after it, `Release`/`Drop` with the removal of the file by
its last user, `Expire` when a context ends. `Renderer` has the idle slots, the
state and page count of each PDFium instance, the call each task is in and the
goroutines that retry a replacement. `native` is the mode: child processes that
can be killed, or WebAssembly instances that a timed-out call keeps busy
(`StuckEnds`). `RenderWorker` joins the two: a task holds its file around its call
of the renderer, both under one context, and gives them back in the order of the
deferred calls. A task may return and come again for as long as the queue pleases.

### Split: which documents a file holds

`doc[f]` has a file's generation, the types its pages were given, whether its
split was reviewed and what remains to be built; `segs` the active segments of
every generation with their source (`image`, `titles`, `user`) and bundle code; `tree`
what the reader of a file sees; `procs` the tasks and requests between two steps.
`Read`, `Propose`, `Reread`, `Store` are `index:tree` from the spans on, also as run
by a rebuild; `Confirm` is the automatic confirmation; `Save` the user's split, with
the rebuild of each file it touched (`NextFile`); `ClassifyStart/Save/Finish` the
model's proposal. `Shown`, `Proposed` and `Saved` are `spansOf`, `SaveProposals` and
`SaveSplit`; `Rows` is what the split screen shows, `Bundle` the numbering of
`proposeBundles` and `AutoPlan` what an automatic confirmation saves. `Reparse` and
`PickPages` are the two re-readings of a file, the second of a file that is settled
(`Settled`). `Layout` is what rules and models may propose, `Review` what users may
save. With `Calm` (`Quiet`), nobody saves while a split is being confirmed, no file
is read again while a task or request works on it, one tree of a file is built at a
time, what has been saved is followed by its rebuild, and no classification dies once
it is saved or on its last attempt.

### Sheets: fields and sheets of a case

`fields[x]` is the history of `extracted_fields` of one slot (document and key),
`sheet` and `fixes` the rows of sheets and corrections, `work[s]` the `case:sheet` task
with its handler's copies, `reqs` the edits between check and store. `Lock` .. `Unlock`
are `Extract` under the advisory lock of a file, during which a connection of the
pool is kept (`Conns`); `SaveField` is `saveField`, in which a user's value replaces
all and an agent's only proposals; `Close` and `Done` lay out and store the cells;
`EditAsked` and `EditStored` are the two halves of `SaveEdits`. The documents are
fixed (`Split` changes them). With `Calm`, no process dies on the last attempt of a
task.

### DocTypes: the catalogue's life of one type

`typ` is the row, with the version in use and its copy of the fields; `prompts` the
versions; `samples`, `runs`, `files`, `tasks` and `jobs` as their tables, objects and
queue; `reqs` the requests between two of their statements. Saving, adding, using
and dropping a version, deleting the type, uploading, reading and dropping a
sample, entering its true values, and running a test or an optimization are
actions statement by statement; the process may die in each. With `Orderly`
(`Undisturbed`), nobody deletes a version while it is being run, or adds one while
the runs of its number are being deleted, and no process dies where it would leave a type half saved, a version half
deleted or a sample unqueued.

### CheckExpr: what a formula says

`vals` has the values of the field of each document of one contract's group, `rule`
the comparison and the two types it reads. Each function of the language is an
operator (`Logic`, `Compare`, `Sum`, `Same`, `MatchAny`, `Between`, `If`, with
`Broadcast2`, `Items` and `Outcome` for lists) and `Formula` is what `ruleFormula` writes for a rule
chosen field by field, and three sentences of the kind stored by earlier versions.
The steps are those of the users: a value is given, corrected or cleared, a
document joins the group or leaves. `Rows` are the outcomes shown document by
document. Amounts and dates are small integers; texts are model values of which
one contains another; ratios, dates' arithmetic and the ways `MATCH` compares text
are left out, and so is parsing.

### Checks: the runs of a cross-check

`run[r]` is the row of a run, with its result and, as history, the moment its
evaluation was last asked for; `sheet[r]` the status of its sheet; `world` what the
formulas say of every document and contract for the present values (`CheckExpr`
evaluates them); `links` the contracts the user chose; `at[a]` what the task of a run
or a request is doing. `Create` and `Insert` are `CreateCheck`; `TaskStart` .. `AfterBuild` the
end of `case:sheet` seen from here; `Load`, `View`, `ReadLinks`, `Store` are `runCheck`, by the
task or by `Rerun` and `SetLink`. `Narrow`, `Pick`, `Candidates` and `Link` are `link`: steps in
order, each keeping the contracts its formula holds for. The rules themselves,
evaluated per group, are left to `CheckExpr`. Assumptions: `Ordered`, a task does not
start before its run is stored; `Calm`, no process dies past the build of its sheet
and no statement of a request fails after the run was marked running; without
`Overlap`, a run is evaluated by one at a time.

### Turns: one chat session

`log` is what is stored, in order; `runs` the registry; `turn[m]` the `activeRun` of the
message m, with inbox, what is left over, the transcript `state`, what was last
`sent` and where messages were placed; `req[m]` how far the call of `Run` has come.
`Acquire`, `Interrupt`, `Persist`, `Push`, `Waited` are a call that meets a running turn
or takes the registry; `Save`, `Load`, `SetupFails`, `Call`, `Answer`, `Close`, `Store`,
`Release` the turn and its hand-over to a follow-up for what the model never read.
`Faulty` names what may fail. With `Patient`, a client whose message is stored waits
for its turn. Prompts, tools' answers, trimming by tokens, summaries and the
stream of events are data.

## 3. The runs

| run | instance | states | properties |
| --- | --- | --- | --- |
| `clean` | 4 pages, batches of 2, windows of 1 batch, 1 page ahead, 1 in OCR; on hold or not; every stage may fail, pages 1 and 2 may not render or read; two requests, each a cancel or for any pages; `prompt_finish`, `serial_pages` | 932k | `CountersExact`: counters are right up to finishers between two statements; `Windows` (`OcrWindow`, `RenderWindow`); `Load` (`Backpressure`, `OcrLoad`); `VerdictTrue`, when pages are picked, read, failed and read again; `GivesUp`: no page is forgotten by a task on its last attempt |
| `generations` | 2 pages, 2 generations, two of reparse, cancel and delete, two deaths of requests or purges; `prompt_finish`, `prompt_split`, `serial_stop` | 404k | `RowsBelong` (`OneGeneration`, `NoOrphanRows`), `ImagesKept`, `FollowsLifecycle`, `Ends` (`Settles`, `DeletedIsPurged`) |
| `crashes` | 2 pages, 2 deaths of workers or of the upload | 11k | `CrashSafe` (`NeverOvercounted`, `AssembledWhole`), `NeverReread`, `Settles`: housekeeping brings it to its end |
| `callbacks` | 2 attempts, 2 generations, 1 page run, request, death, stale hit, retry; `Calm` | 364k | `DeliveriesSound` (`AttemptsAddUp`, `VerdictRight`), `EventTrue`, `SettledStays`, `Told` |
| `gate` | 3 workers, one retry | 1.4k | `GateSafe`: the kinds stay apart, the count is exact, no sleeper is forgotten; `TakesTurns` |
| `render_worker` | 2 tasks, 2 files, 1 slot, batches of up to 2 pages, recycling after 2, one child that dies, both modes | 200k | `FilesSafe`: who reads a file holds it and finds it, one writer, nothing kept; `PoolSafe`: no slot lost or made, one caller per instance, recycled in time; `TasksReturn` |
| `doctypes` | 1 sample, 3 versions and editions, 4 requests, 1 job, 1 retry, 1 death; `Orderly` | 777k | `RowsAgree`: the type agrees with the version in use, a ready sample has its files; `RunTrue`: an output stays with the instructions that made it; `Settles` |
| `split` | 2 files of 2 pages, 1 label that opens bundles, 2 generations, 1 request, 1 retry, 1 death; `Calm` | 1.1M | `SplitSound`: every page in one document, a review covers its file; `ShownTrue`: trees show the segments, a running classification has a task; `ReviewStands` |
| `sheets` | 2 sheets, 1 document, 1 key, 1 value or none, 2 requests, 1 retry, 1 death; `Calm` | 759k | `FieldsSound` (`UserWins`, `AskedAtMostTwice`), `CellsSound` (with `CorrectionsAgree`), `DoneStays`, `SheetSettles` |
| `turns` | 2 messages and a stop, two clients that may leave, 2 calls of the model, everything may fail; `Patient` | 459k | `TranscriptSound` (`StoredOnce`, `SeesEarlierReplies`, `OwnMessageRead`), `TranscriptGrows`, `Served` (`Answered`, `RequestsEnd`) |
| `check_expr` | a contract, 2 other types with up to 2 documents, 2 amounts or none, 7 rules over any two types | 32k | `PassMeansComplete`: no rule on two fields passes with a value missing; `RowsAddUp`: rows and outcome agree; `VerdictStands`: a value filled in turns no verdict round (`FillNeverFlips`), nor does a further document cure a fail (`GrowNeverCures`) |
| `checks` | 1 run, 2 contracts, 1 document, a formula and then the AI, 2 requests at a time and 3 in all, 1 retry; `Ordered`, `Calm`, no `Overlap` | 24k | `LinkSound`, `Fresh`: what is shown is as new as what was asked for; `RunSettles` |

Each takes less than four minutes with two workers. Why the bounds are enough:
the windows and batches matter through "full", "one short of full" and "one over",
which four pages reach; the races are between two or three actors, and two
generations, requests, files, sheets or tasks, with one death and one retry,
give each its counterpart; a third worker at the gate makes one sleep while the
other two change its kind. Larger instances were checked while modelling:
`callbacks` at two requests and no stale hit (675k states) or no death (2.7M);
`clean` with a task picked up twice (`MaxStray = 1`, 3.3M), and with cancels alone
against `FollowsLifecycle`; `checks` with `MCThreeSteps`, `MCThree`, three contracts
and no request (48k): a document is under the contract that beats every other.

`CHECK_DEADLOCK FALSE` where the system really may stop: a document settled, its
tasks done and its users gone. `gate` and `render_worker` never stop, and there
deadlock is checked.

Several invariants are conjunctions of named parts, so that a run asks one
question. `PROJECT.json` lists for each property of a run a mutated definition,
marked as such in its module, that TLC finds to break it.

### Fairness

No fairness is assumed of users, of deaths, of failures or of receivers.

* `DocPipeline`, `Callbacks`: weak fairness of some task's next step (workers poll
  the queue and asynq redelivers), of the next step of a request being served, and
  of each duty of housekeeping, which the scheduler runs every few minutes
  (internal/container/container.go). Tasks are finitely many and each step brings
  one forward. `Told` holds though a receiver may never answer: attempts run out.
* `ModelGate`: a model call ends (it has a timeout); a goroutine that asks for the
  mutex gets it; and one that is woken each time the gate opens is not overtaken
  for ever (strong fairness of `Pass`): to be, whole model calls would have to fit
  between its wake-up and its lock, every time.
* `RenderWorker`: weak fairness of what a running task and a replacement do; strong
  fairness of taking a slot, for receivers of a channel are served in order; a
  stuck WebAssembly call ends. No task has to arrive.
* `DocTypes`: requests being served, the reader of a sample and the runner of a job
  go on; the page that shows a job is polled, which closes a stale one (`JobClose`).
* `Sheets`: the builder of a sheet goes on; the advisory lock, by strong fairness,
  for PostgreSQL serves waiters in order.
* `Checks`: the task of a sheet and requests being served go on. Nobody has to rerun.
* `Turns`: goroutines run on, and the model and the store answer or time out.
* `Split` has no liveness property: its steps are those of tasks whose ends
  `DocPipeline` is about.

## 4. The proofs

TLAPS checks these theorems for every value of the constants the assumptions
admit: what kind of value each constant is, twice as many names as slots
(`RendererAssumption`), fewer sheets than connections (`SheetsAssumption`), proposals
and reviews of a file whose documents do not overlap (`SplitAssumption`). The third
column has the hypotheses of a theorem; where it is empty nothing is assumed of
timing, deaths or the order of requests.

| theorem | states | assuming |
| --- | --- | --- |
| `DocPipelineProofs!TypeCorrect` | `Spec => []TypeOK` | |
| `DocPipelineProofs!RowsBelongHere` | `[]RowsBelong`, from `GenerationsNeverMix` and `RowsDieWithDocument` | |
| `DocPipelineProofs!WindowsHold` | `[]Windows`, from `OcrWindowHolds` and `RenderWindowHolds` | |
| `DocPipelineProofs!ImagesStay` | `[]ImagesKept` | `serial_stop` |
| `DocPipelineProofs!PipeAlways` | `[]PipeInv`, on which the rest of this module stands | `Tame`, `Either` |
| `DocPipelineProofs!AssembledWhenWhole` | `[]AssembledWhole` | `Tame`, `Either` |
| `DocPipelineProofs!NeverReadAgain` | `NeverReread` | `Tame`, `Either` |
| `DocPipelineProofs!CountsFollow` | `[]CountInv` | `Tame`, `Either` |
| `DocPipelineProofs!CrashesAreSafe` | `[]CrashSafe` | `Tame`, `Either` |
| `DocPipelineProofs!LoadIsBounded` | `[]Load` | `Tame`, `Either`, `Careful` |
| `DocPipelineProofs!PagesAreGivenUp` | `GivesUp` | the same; and a PDF, or no retries |
| `DocPipelineProofs!CountersAreExact` | `[]CountersExact` | `Tame`, `Either`, `Careful` |
| `DocPipelineProofs!VerdictIsTrue` | `[]VerdictTrue` | `Tame`, `Either`, `Careful` |
| `DocPipelineProofs!PipelineFollowsLifecycle` | `FollowsLifecycle`: `Spec` implies the specification of `DocLifecycle`, a refinement | the same and `serial_stop` |
| `CallbacksProofs!TypeCorrect` | `[]TypeOK` | |
| `CallbacksProofs!EveryAttemptCounts` | `[]AttemptsAddUp` | |
| `CallbacksProofs!VerdictsAreRight` | `[]VerdictRight` | `Calm` |
| `CallbacksProofs!DeliveriesAreSound` | `[]DeliveriesSound`, from the two before | `Calm` |
| `CallbacksProofs!SettledIsFinal` | `SettledStays` | |
| `CallbacksProofs!EventsAreTrue` | `[]EventTrue` | `Calm` |
| `RenderWorkerProofs!GateIsSafe` | `[]GateSafe` | |
| `RenderWorkerProofs!SharedFilesSafe` | the invariants of the shared files, whatever their users do | |
| `RenderWorkerProofs!UsesFiles` | `Spec` implies the specification of `TempFiles`: a refinement | |
| `RenderWorkerProofs!FilesAreSafe` | `[]FilesSafe` | |
| `RenderWorkerProofs!PoolIsSafe` | `[]PoolSafe` | |
| `SheetsProofs!SheetsInvariant` | `[]IInv`, on which the next four rest | |
| `SheetsProofs!UserAlwaysWins` | `[]UserWins` | |
| `SheetsProofs!FieldsAreSound` | `[]FieldsSound` | |
| `SheetsProofs!CellsAreSound` | `[]CellsSound` | |
| `SheetsProofs!DoneForGood` | `DoneStays` | |
| `DocTypesProofs!RowsDoAgree` | `[]RowsAgree` | `Orderly` |
| `DocTypesProofs!RunsAreTrue` | `[]RunTrue` | `Orderly` |
| `SplitProofs!SplitIsSound` | `[]SplitSound` | |
| `SplitProofs!SplitStands` | `ReviewStands` | `Calm` |
| `SplitProofs!ShownIsTrue` | `[]ShownTrue` | `Calm` |
| `ChecksProofs!FreshAlways` | `[]Fresh` | no `Overlap` |
| `ChecksProofs!LinksAreSound` | `[]LinkSound` | some run; finitely many contracts |
| `ChecksProofs!PassNeedsEveryValue` | `[]PassMeansComplete` | `Measured` |
| `ChecksProofs!RowsTellTheOutcome` | `[]RowsAddUp` | `Measured` |
| `ChecksProofs!VerdictsStand` | `VerdictStands` | `Measured`, no negative amounts |
| `TurnsProofs!StoredAtMostOnce` | `[]StoredOnce` | |
| `TurnsProofs!TranscriptOnlyGrows` | `TranscriptGrows` | |
| `TurnsProofs!TranscriptIsSound` | `[]TranscriptSound` | `Roomy` |

The hypotheses are the assumptions the runs make, no more, and section 5 has the
behaviours that break the properties without them:

* `Tame`: housekeeping takes no work for dead that is alive (`MaxStale = 0`), a split
  does not die half-way, and where there are reparses none begins while a split is under
  way (`prompt_split`).
* `Either`: users do not ask for single pages again, or they do so one request at a
  time (`serial_pages`), and neither these requests nor the tasks of a parse die.
* `Careful`: no task of a parse dies, and a finisher counts its page before an assembly
  reads the counters (`prompt_finish`); requests, the upload, purges and clean-ups may
  die.
* `Measured`: the rules compare amounts and dates, or are the documented sentences; no
  texts, for which each of the three properties fails. Amounts are not negative: a
  refund joined to a group may well cure a sum that was above its bound.
* `Roomy`: the messages of the session and a reply to each fit in what a turn loads.

`clean` and `generations` are instances of the first three (`generations` of `serial_stop`
too), `crashes` of the first two; every run of a property with a hypothesis satisfies it.

*Rows.* The lemma `StepRows` sorts the steps of `DocPipeline`: each is the `Advance`
of one generation, or it starts no page, keeps every row in its generation or puts
them all in one, and makes no row of a document that is gone. Given that, the
generation and purge theorems are short. For the windows it remains to bound
`Advance`: a claim of "the first n" takes at most n pages (`FirstPages`, from ranks
being distinct), what was in the window and what was claimed add up (`UnionCount`),
and counting batches rounded up leaves room for what the loop claims (`RoundUp`).
`Advance` counts under a lock what it changes, so no other invariant is needed.

*Who holds a page.* `RowsBelong` and `Windows` are facts about rows. That a document is
assembled when its pages are finished, that none is read twice or left behind, and
that the counters are right are facts about rows, tasks, requests and the document's
status together, and `PipeInv` is what ties them, in parts that the steps of one kind
or another disturb. `GenInv`: a task's id is its own, and no task, request or row is of
a generation that is not there yet. `TurnInv`: a split past its pickup is of the newest
generation, and one request asks for pages at a time. `WorkerInv` says what a task for
pages knows: a page it was enqueued for is in its hands or past them, in its own
generation (`Own`); at each statement of its handler the pages it still means to write
have the status it read (`InHand`); and no other task waits for the same page
(`Alone`), though an id may be enqueued, refused, retried and enqueued again.
`StatusInv` says what a status means for the tasks: before the split ends there are no
rows to work on, an assembly or an index task of the generation exists only when every
chosen page is finished, and where no task of a parse dies a settled document has no
tasks of its generation left. `QuietInv` is the other half of page reparses: while one is
served nobody works for its generation, so its five statements meet no finisher. None
of the parts is inductive alone: `Alone` needs `StatusInv` to know that an assembly does not
claim pages, and `StatusInv` needs `Own` to know that a late finisher does not undo one.

*Load, giving up.* What is rendered ahead is bounded by a claim at a time: `Bounded`
adds the window of what is being rendered to the room there was for it, until a user
interferes (`Untouched`). `GivesUp` is about the *end* of a final attempt, several
statements after the pages were lost; `Handled` says at each of them which pages of the
batch no longer wait for the task (`Off`).

*Counters.* A page is counted in two statements: its row is finished, then the counter
moves. `CountInv` compares counter and rows through the finishers between the two
(`ToCount`, `ToLose`) and through a request that took pages back and still owes the
counters their number (`Due`): at most equal while finishers may die (`Match`), equal
where they do not. `VerdictInv` carries that to the end: an assembly that has decided, and the index after it,
still see the pages the decision was drawn from.

*The lifecycle.* `LifeInv` joins these invariants with two facts about stopping
(`Stopping`: who is being deleted has no cancel before him, whose unguarded write would
bring him back) and about order (`Orderly`: only a split moves a document that is
splitting, only index tasks one that is being indexed). `LifeStep` then maps each action to
a step of `DocLifecycle`, or to a stutter: an `Update` of the pipeline is a step of the
lifecycle exactly when its WHERE clause lets it through, and steps of superseded
generations are stutters (`LifeElsewhere`).

*Callbacks.* `AttemptsAddUp` is not inductive: a task in flight carries the attempt
number and the limit it read before the request. `IInv` says what such a copy may
still be: the number is that of a recorded attempt or the next one, and in the
latter case the delivery is still pending and the limit not above the row's
(`InFlight`); a pending delivery has an attempt left and at most `MaxAttempts`
(`Counted`); and whatever refers to a delivery that is gone belongs to a purged
document (`Referred`), so that no old task can meet a new row. The delicate step is
`Rearm`: it may find an attempt in flight, whose limit is then lower than the row's.
Attempts still add up, but the verdict may be wrong; with `Calm` there is none in
flight, the limits are equal and the verdict is right. For `EventTrue`, `EventInv` says
what a delivery of the present run, made or about to be, may tell of: a document that
has ended, by the status it ended in, or by the cancellation that is still to be written
(`Tells`); and when a request may still write (`ReqsCalm`).

*Gate.* `GateInv` adds to the property that the count is the number of workers inside
and the kind theirs: who enters finds it 0 or its own kind, and the last to leave
wakes the sleepers, so that a sleeper always waits for someone who is inside.

*Files.* `EntryTells` ties each entry to its tasks: it counts its users, it is absent
exactly when there are none, a download under way has one task that makes it, and
an entry is ready exactly when its file is on the disk. The last user, who removes
the file, is therefore alone; the first, who writes it, too.

*Pool.* `PoolInv` says of every task what its place implies (`JobFits`): a busy task has
one running instance, no other task has it, a stuck instance is only with a task
that is about to give it up; and of every instance that what it has drawn and its
caller still wants stays below `Recycle + MaxPages`. Slots are conserved because
each step moves one between the channel, a task and a respawning goroutine.
`RenderWorker` needs little more: every step is a step of the files and leaves the
pool alone, or the other way round, or the joint return (`StepsMap`).

*Sheets.* `Sorted` says what `saveField` keeps of the rows of a slot: what is
confirmed is the user's and the newest of the user's, no value of the user's is only
proposed, and one row at most is proposed. So a late answer of an agent has nothing of
the user's to supersede. Rows never change their value (`Grows`), so that a cell, and
the cells a task is about to store, keep the text they were laid out with. `Fits` says
that a task past its start works on a sheet that is not done, whence `DoneStays`. For
the corrections, an edit that was checked compares its value with the AI's before the
transaction that stores it; `Checked` says that the comparison still holds then,
because a sheet that was done is done or deleted, and edits leave the AI's text of a
cell alone.

*Document types.* `InUseAgrees` speaks of the time between requests, and the requests
are what breaks it: `VersionInv` says which request may leave the version in use and the type apart,
and for how long. `UploadsOnce` and `FilesKept` say of an upload and of a deletion in
progress that the row precedes the task and outlives the files. In `RunInv`, a version
whose number may be given again has no run, or a request that is about to delete its
runs, and a job that can still write holds the instructions of a version that is there.

*Split.* `SplitIsSound` needs an invariant on what tasks carry: a plan that waits to be
saved is a whole split of each of its files (`PlanSound`), though the case it was
drawn from has changed; `SegsSound` says the same of what is stored. That `AutoPlan` is such
a plan is the heart of it: the gaps of the screen are the maximal runs of pages that
no document has, found by well-foundedness of the naturals. For `ReviewStands`, `KeepInv`
says that a plan of the automatic confirmation still agrees with what the user has
split when it is saved. For `ShownTrue`, a file has its tree or owes it: to a task that has
not read its segments yet (`Later`), to one that has (`Due`), or to the task that builds
its index (`Pend`); `TreeInv` says that each tree about to be stored is the one wanted or
is owed once more, and `FormInv` who may be at work on a file.

*Checks.* `Fresh` compares a result with the moment its evaluation was asked for; `FreshInv`
says that one at a time works on a run (`Alone`), that who has seen the values has seen
them after it was asked, and after the last evaluation of that run was (`Fits`). A
task that dies is tried again and was asked for nothing yet; a deleted run forgets.
`LinkSound` needs neither: `LinkInv` says that a result is what `Place` makes of one state of
the values, of the choices as they were read and of some answers of the AI, which every
step keeps, so that the rest is about `Candidates`. `Best` holds of each step of the search:
the contracts that remain are `Ahead` of the others by what was read and, while it goes
on, alike so far; and one that beats every other and fails no step is never lost.
`Candidates` is a function over the steps, and what each step keeps is carried to the last
by `UpToN`, from the well-foundedness of the naturals: a function that satisfies the
recursive equation exists, so the one that is chosen satisfies it.

*Check formulas.* The three theorems are about every group that can come up (`GroupInv`:
as many documents and values of the right kind as the types say), so most of the work
is on the operators. `OutcomeTells` reads the outcome of a list off its items; that of a
comparison is then told by the pairs of values that are compared (`CompareTells`, `Met`),
which gives `PassMeansComplete` and, with one document kept of a group, `RowsAddUp`.
For `VerdictStands`, `Below(v, w)` says that w knows more than v: the same where v is known,
item by item. Every function of the language is monotone in it (`CompareBelow`,
`SumBelow`, `BetweenBelow`), for the logical ones are three-valued, and an outcome that
is a verdict stays (`EvalStands`). A document that joins makes lists longer and sums
larger (`TotalGrows`): what failed before has an item that still fails, or a sum still
above its bound. Sums are treated as the search above.

*Turns.* `TurnsInv` is the inductive invariant: at most one turn is there, the registered one
(`Registered`); who was handed to it has returned; and what is stored of a message is one
entry of its user, once its request has saved it, and one reply, once its turn has ended
(`Asked`, `LogOK`), whence `StoredOnce`. What was sent is how the transcript, with what was placed
in it, begins (`Placing`), and what is placed later is placed behind it: `TranscriptGrows`. `ReadsInv`
adds that a turn past its load has every reply of the session in its history (`Knows`):
none is added until it stores its own, since it is the only one. That the load is of
the whole session takes `Roomy` and `StoredOnce`: the stored entries are told apart by
their role and message, so there are at most two for each message (`LogFits`).

What is only model-checked: liveness (`Ends`, `Settles`, `Told`, `TakesTurns`, `TasksReturn`,
`SheetSettles`, `Served`, `RunSettles`), which is beyond the prover. Every invariant and
every other action property that a run checks is also a theorem.

## 5. Where the code and its words part, and what the assumptions hide

All runs pass. The first table changes constants of a cfg (all else as it stands) and
checks the one property; TLC then finds it violated.

| cfg and change | property | what happens |
| --- | --- | --- |
| `generations`, without `serial_stop` | `Ends` | `Cancel` checks a status it read earlier, and its write of `cancelled` is not guarded against `deleting`: a document deleted in between is never purged |
| `clean`, without `prompt_finish` | `VerdictTrue` | a page is set `failed` in one statement and counted in the next (`finishPageFailed` of pipeline.go). Another finisher's `Advance` in between sees all pages finished; the assembly reads `pages_failed = 0` and the document ends `completed`, where src/spec/spec.md wants `partial` |
| `clean`, `IsImage = TRUE`, `N = 1`, `Flaky = {1}` | `GivesUp` | an image that does not decode is dead-lettered at once, while giving up its page waits for a final attempt: the page stays `rendering` until housekeeping has it rendered again |
| `clean`, `N = 3`, `Hold = {TRUE}` | `Settles` | an assembly that was dead-lettered (every chosen page failed) keeps its id; when the user picks further pages, the queue drops the new one and the document stays in `parsing` |
| `clean`, without `serial_pages` | `CountersExact` | two page reparses both count the pages one of them reset |
| `crashes`, `MaxStale = 1` | `NeverReread`, `CrashSafe` | a task taken for dead delivers its page after it has been read again, or counts it twice; the windows still hold, which is proved |
| `crashes`, `"split"` in `Crashable` | `NeverReread` | a split that died after its `Advance` runs again and replaces the rows of pages being read |
| `generations`, without `prompt_split` | `Ends` | the rows of a new generation are replaced by the split of the old one |
| `callbacks`, `Calm = FALSE` | `DeliveriesSound` | an attempt started before a retry re-armed its delivery is recorded by the old limit: `failed`, although `max_attempts` more were promised |
| `callbacks`, `Calm = FALSE` | `EventTrue` | `BumpCallbackRun` precedes the reset of the pages: a call under way sends the callback of the new run with the old status |
| `render_worker`, `DeadNotReturned` as invariant | `DeadNotReturned` | a child process that died by itself goes back to the pool: `release` asks only whether a call timed out and how many pages it drew |
| `split`, `Files = 1`, `MaxTry = 0`, `MaxCrash = 0`, `IndexedIsConfirmed` as invariant | `IndexedIsConfirmed` | `BumpGen` does not clear `split_reviewed_at`: the split of a reparsed file is not confirmed again |
| `sheets`, `Calm = FALSE` | `SheetSettles` | a death on the last attempt leaves the sheet `running` |
| `sheets`, `ShowsCurrent` as invariant | `ShowsCurrent` | a cell keeps the field it was laid out with when the field column gets a newer value |
| `doctypes`, `NumbersNeverReused` as property | `NumbersNeverReused` | the number of the newest version is given again once it is dropped |
| `doctypes`, `Orderly = FALSE` | `RowsAgree` | a save that dies before its last statement leaves the version in use with other fields than the type |
| the same, without `RowsAgree` | `RunTrue` | a run of a dropped version is stored under its number and taken for one of the next version of that number |
| `checks`, `Calm = FALSE` | `RunSettles` | a task that dies between the last write of its sheet and the run leaves the run `pending`, for the next attempt finds the sheet done; a rerun that fails after `running` was written leaves it there, and `RerunCheck` refuses to start another |
| `check_expr`, `Ops = {"same"}` | `RowsAddUp`, `VerdictStands` | `SAME` goes by the values there are: a document that gets its value may turn a pass into a fail; and a row leaves out what the other documents say |
| `check_expr`, `Ops = {"same", "diff", "contains"}` | `PassMeansComplete` | `SAME` compares whatever values it has once there are two, and `CONTAINS` any pair that matches: a rule passes though a document misses the value, which src/spec/spec.md:1835 rules out |
| the same | `NothingKnown` | `matchAny` compares the number of missing values with the number of pairs, and a pair that misses both counts twice: `CONTAINS` of nothing and nothing is a fail |
| `check_expr`, `Ops = {"le", "same"}` | `FailHasRow` | rows are evaluated with one document at a time: two documents that differ from each other, the contract's value missing, fail the rule with no row that says which |
| `checks`, `MCTwoSteps`, `MCAll`, `MaxReq = 0` | `NoMatchNoLink` | a step that fails for some contracts and cannot tell about one links the document to that one, where src/spec/spec.md:1846 wants it left open |
| `checks`, `Ordered = FALSE` | `RunSettles` | `CreateCheck` queues the build of the sheet before it inserts the run; a task that is done by then finds no run, and the run stays `pending` |
| `checks`, `Overlap = TRUE` | `ChoiceShown` | two evaluations of one run store their results in any order; the one that read the links before the user's choice may be the last |
| `turns`, `Window = 2` | `TranscriptSound` | a turn loads the *first* `Window` messages: past them it reads neither its own message nor what came before it |
| `turns`, `Patient = FALSE` | `Served` | a stored message whose client leaves while it waits is not answered |

Met by reading, and without a property here:

* *Pipeline.* Objects written by an OCR or render task that had passed its check
  before a delete survive the purge. The render windows of src/spec/spec.md are
  overshot: `render_ahead_pages` counts neither the pages being rendered nor the
  batch about to be claimed, and `render_inflight_batches` is a bound in pages once
  batches are partly rendered; `Backpressure` and `RenderWindow` state what holds. A
  page reparse that dies after resetting its pages leaves a `completed` document
  with an unread page. The id of a dead-lettered `index:tree` blocks the next one.
* *Split.* `handleClassify` ends with `fail(nil)`: on its final attempt it writes
  `failed` over `done`. `AutoConfirm` views and saves in two transactions. A late
  classification of an old generation makes the segments of the new one stale.
  Saving some files numbers the bundles anew, and the bundles of the files left out
  keep their codes: they may join another bundle.
* *Document types.* Fields of the version in use are edited in place, where
  internal/types/doctype.go says that versions never are. Two requests that pass
  their checks together may use a version that the other deletes.
* *Sheets.* An extraction under way that finds nothing replaces a newer proposal of
  the chat agent. If index workers are as many as the connections of the pool, they
  may hold all of them while each waits for one more.
* *Turns.* A stop that arrives during set-up ends the turn as `error`, not
  `interrupted`. A message may be read twice, from the history and from the inbox. If
  a follow-up fails, messages left over before the last get no answer of their own.
  Registry and inbox are in memory: several API processes do not exclude each
  other, and a process that dies loses what was handed in.

## 6. What is not modelled, and the plan

`PROJECT.json` lists every component with its status. Left out for good: what pages
say, ranking of search results, prompts and tools, the lexer and
parser of formulas, the protocols of S3, HTTP and the LLM providers (data the control
does not depend on), and components that are single statements on single rows.

Next, in this order:

1. `Sheets` with the documents of a case changing (`Split`), and `Checks` composed with
   the build of its sheet in `Sheets`.
