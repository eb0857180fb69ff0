-------------------------------- MODULE DocTypes -------------------------------
(***************************************************************************)
(* One document type of the catalogue: its versions of AI instructions,    *)
(* its sample documents with their files, the test runs of the versions on *)
(* the samples, and the jobs that make them                                *)
(* (internal/application/service/docmodel/doctypes and                     *)
(* internal/application/repository/postgres/doctypes.go).                  *)
(*                                                                         *)
(* A step is one database statement, object-store call or model call.      *)
(* Instructions and fields are names; a version holds an edition of each.  *)
(***************************************************************************)
EXTENDS Integers, FiniteSets, Sequences

CONSTANTS
    Sample,        \* samples that may be uploaded (an id is used once)
    Orderly,       \* assumption: see Undisturbed
    MaxVersion,    \* bound: version numbers
    MaxEdition,    \* bound: sets of instructions, or of fields, ever written
    MaxTry,        \* queue.Policy.MaxRetry of doctype:sample
    MaxReq,        \* bound: user requests in a behaviour
    MaxJob,        \* bound: jobs in a behaviour
    MaxCrash       \* bound: process deaths

ASSUME DocTypesAssumption ==
    /\ IsFiniteSet(Sample) /\ Orderly \in BOOLEAN
    /\ MaxVersion \in Nat \ {0} /\ MaxEdition \in Nat \ {0}
    /\ {MaxTry, MaxReq, MaxJob, MaxCrash} \subseteq Nat

VARIABLES
    typ,        \* the doc_types row
    prompts,    \* doc_type_prompts, by version
    samples,    \* doc_type_samples
    runs,       \* doc_type_runs: the instructions a sample was read with, by version
    files,      \* the objects kept for samples
    tasks,      \* the doctype:sample task of each sample
    jobs,       \* doc_type_jobs, with what the request that runs one does
    reqs,       \* requests between two of their statements
    dropped,    \* version numbers that were deleted
    used        \* how much of each bound has been spent

vars == <<typ, prompts, samples, runs, files, tasks, jobs, reqs, dropped, used>>

Version == 1..MaxVersion
Edition == 1..MaxEdition
NoPrompt == [text |-> 0, fields |-> 0]
NoSample == [status |-> "none", pages |-> FALSE, truth |-> FALSE]
NoRuns == [v \in Version |-> 0]
NoTask == [pc |-> "none", try |-> 0]
NoType == [exists |-> FALSE, cur |-> 0, fields |-> 0]

Versions == {v \in Version : prompts[v] # NoPrompt}
Spend(bound) == used' = [used EXCEPT ![bound] = @ + 1]
Ask(r) == used.req < MaxReq /\ Spend("req") /\ reqs' = reqs \cup {r}
Answer(r) == reqs' = reqs \ {r}
Goto(r, pc) == reqs' = (reqs \ {r}) \cup {[r EXCEPT !.pc = pc]}
Request(op, pc, v) == [id |-> used.req + 1, op |-> op, pc |-> pc, v |-> v, s |-> {}, pages |-> FALSE]
NextText == used.text + 1

-----------------------------------------------------------------------------
(* The type and its versions.                                              *)

(* Save: an upsert of the type, version 1 if there is none, and the new    *)
(* fields to the version in use: three statements.  Update, Create and the *)
(* knowledge bases that declare a type all come here; v = 0 when only the  *)
(* title changes.                                                          *)
SaveType(fields) ==
    /\ fields > used.fields => fields = used.fields + 1
    /\ typ.exists \/ fields # 0
    /\ typ' = IF typ.exists THEN [typ EXCEPT !.fields = IF fields = 0 THEN @ ELSE fields]
                            ELSE [exists |-> TRUE, cur |-> 1, fields |-> fields]
    /\ used.req < MaxReq
    /\ used' = [used EXCEPT !.req = @ + 1, !.fields = IF fields > @ THEN fields ELSE @]
    /\ reqs' = reqs \cup {Request("save", "first", fields)}
    /\ UNCHANGED <<prompts, samples, runs, files, tasks, jobs, dropped>>

SaveFirst(r) ==
    /\ r.op = "save" /\ r.pc = "first"
    /\ IF typ.exists /\ prompts[1] = NoPrompt
       THEN /\ NextText \in Edition /\ Spend("text")
            /\ prompts' = [prompts EXCEPT ![1] = [text |-> NextText, fields |-> typ.fields]]
       ELSE UNCHANGED <<prompts, used>>
    /\ IF r.v = 0 THEN Answer(r) ELSE Goto(r, "fields")
    /\ UNCHANGED <<typ, samples, runs, files, tasks, jobs, dropped>>

SaveFields(r) ==
    /\ r.op = "save" /\ r.pc = "fields"
    /\ prompts' = IF typ.exists /\ typ.cur \in Versions
                  THEN [prompts EXCEPT ![typ.cur].fields = typ.fields] ELSE prompts
    /\ Answer(r)
    /\ UNCHANGED <<typ, samples, runs, files, tasks, jobs, dropped, used>>

(* AddPrompt: the number after the largest there is.  Its fields are given *)
(* by the user, or those of the version in use when the request read it.   *)
AddPrompt(fields, use) ==
    LET v == 1 + CHOOSE n \in Versions : \A m \in Versions : m <= n
    IN  /\ typ.exists /\ typ.cur \in Versions
        /\ v \in Version /\ NextText \in Edition
        /\ prompts' = [prompts EXCEPT ![v] = [text |-> NextText, fields |-> fields]]
        /\ used.req < MaxReq
        /\ used' = [used EXCEPT !.req = @ + 1, !.text = @ + 1]
        /\ reqs' = IF use THEN reqs \cup {Request("use", "use", v)} ELSE reqs
        /\ UNCHANGED <<typ, samples, runs, files, tasks, jobs, dropped>>

(* SetCurrent, by itself or as the end of AddPrompt.                       *)
Use(v) == typ' = IF typ.exists /\ v \in Versions
                 THEN [typ EXCEPT !.cur = v, !.fields = prompts[v].fields] ELSE typ

SetCurrent(v) ==
    /\ v \in Versions /\ used.req < MaxReq /\ Spend("req")
    /\ Use(v)
    /\ UNCHANGED <<prompts, samples, runs, files, tasks, jobs, reqs, dropped>>

UseAdded(r) ==
    /\ r.op = "use" /\ Answer(r)
    /\ Use(r.v)
    /\ UNCHANGED <<prompts, samples, runs, files, tasks, jobs, dropped, used>>

(* DeletePrompt: a check, the delete that checks again, and the delete of  *)
(* the version's runs.                                                     *)
Busy(v) ==
    \/ \E j \in DOMAIN jobs : jobs[j].v = v /\ jobs[j].pc # "over"
    \/ \E r \in reqs : r.op = "drop" /\ r.pc = "runs" /\ r.v = v

(* Nobody deletes a version while it is being run, or adds one while the   *)
(* runs of its number are being deleted.                                   *)
Undisturbed(v) == Orderly => ~Busy(v)

DropCheck(v) ==
    /\ typ.exists /\ typ.cur # v /\ v \in Versions
    /\ Ask(Request("drop", "version", v))
    /\ UNCHANGED <<typ, prompts, samples, runs, files, tasks, jobs, dropped>>

(* Mutant: the delete trusts the check.                                    *)
DropVersion_Trusting(r) ==
    /\ r.op = "drop" /\ r.pc = "version" /\ Undisturbed(r.v)
    /\ IF typ.exists /\ r.v \in Versions
       THEN /\ prompts' = [prompts EXCEPT ![r.v] = NoPrompt]
            /\ dropped' = dropped \cup {r.v}
            /\ Goto(r, "runs")
       ELSE Answer(r) /\ UNCHANGED <<prompts, dropped>>
    /\ UNCHANGED <<typ, samples, runs, files, tasks, jobs, used>>

DropVersion(r) ==
    /\ r.op = "drop" /\ r.pc = "version" /\ Undisturbed(r.v)
    /\ IF typ.exists /\ r.v \in Versions /\ r.v # typ.cur
       THEN /\ prompts' = [prompts EXCEPT ![r.v] = NoPrompt]
            /\ dropped' = dropped \cup {r.v}
            /\ Goto(r, "runs")
       ELSE Answer(r) /\ UNCHANGED <<prompts, dropped>>
    /\ UNCHANGED <<typ, samples, runs, files, tasks, jobs, used>>

(* Mutant: the runs of a deleted version stay.                             *)
DropRuns_Keep(r) ==
    /\ r.op = "drop" /\ r.pc = "runs" /\ Answer(r)
    /\ UNCHANGED <<typ, prompts, samples, runs, files, tasks, jobs, dropped, used>>

DropRuns(r) ==
    /\ r.op = "drop" /\ r.pc = "runs" /\ Answer(r)
    /\ runs' = [s \in Sample |-> [runs[s] EXCEPT ![r.v] = 0]]
    /\ UNCHANGED <<typ, prompts, samples, files, tasks, jobs, dropped, used>>

(* Delete: the files of every sample, then the type, and with the row its  *)
(* versions, samples and jobs.                                             *)
DeleteType ==
    /\ typ.exists /\ Ask(Request("delete", "rows", 0))
    /\ files' = {}
    /\ UNCHANGED <<typ, prompts, samples, runs, tasks, jobs, dropped>>

DeleteRows(r) ==
    /\ r.op = "delete" /\ Answer(r)
    /\ typ' = NoType
    /\ prompts' = [v \in Version |-> NoPrompt]
    /\ samples' = [s \in Sample |-> IF samples[s].status = "none" THEN NoSample ELSE [NoSample EXCEPT !.status = "deleted"]]
    /\ runs' = [s \in Sample |-> NoRuns]
    /\ jobs' = [j \in DOMAIN jobs |-> [jobs[j] EXCEPT !.status = "gone"]]
    /\ dropped' = {}
    /\ UNCHANGED <<files, tasks, used>>

-----------------------------------------------------------------------------
(* Samples.                                                                *)

Source(s) == <<s, "source">>
Images(s) == <<s, "images">>
Exists(s) == samples[s].status \in {"processing", "ready", "failed"}
SetRead(s, status) ==
    samples' = IF Exists(s) THEN [samples EXCEPT ![s].status = status, ![s].pages = (status = "ready")] ELSE samples

(* Upload: the file, the row, the task.                                    *)
UploadFile(s) ==
    /\ typ.exists /\ samples[s].status = "none" /\ \A r \in reqs : s \notin r.s
    /\ Ask([Request("upload", "row", 0) EXCEPT !.s = {s}])
    /\ files' = files \cup {Source(s)}
    /\ UNCHANGED <<typ, prompts, samples, runs, tasks, jobs, dropped>>

UploadRow(r) ==
    /\ r.op = "upload" /\ r.pc = "row"
    /\ IF typ.exists
       THEN /\ samples' = [s \in Sample |-> IF s \in r.s THEN [NoSample EXCEPT !.status = "processing"] ELSE samples[s]]
            /\ Goto(r, "task")
       ELSE Answer(r) /\ UNCHANGED samples
    /\ UNCHANGED <<typ, prompts, runs, files, tasks, jobs, dropped, used>>

UploadTask(r, ok) ==
    /\ r.op = "upload" /\ r.pc = "task" /\ Answer(r)
    /\ IF ok THEN /\ tasks' = [s \in Sample |-> IF s \in r.s THEN [NoTask EXCEPT !.pc = "queued"] ELSE tasks[s]]
                  /\ UNCHANGED samples
             ELSE (\E s \in r.s : SetRead(s, "failed")) /\ UNCHANGED tasks
    /\ UNCHANGED <<typ, prompts, runs, files, jobs, dropped, used>>

(* handleSample: the file is drawn page by page, each image kept and read. *)
ReadStart(s) ==
    /\ tasks[s].pc = "queued"
    /\ tasks' = [tasks EXCEPT ![s] = IF samples[s].status = "processing" THEN [@ EXCEPT !.pc = "draw"] ELSE NoTask]
    /\ UNCHANGED <<typ, prompts, samples, runs, files, jobs, reqs, dropped, used>>

ReadDraw(s) ==
    /\ tasks[s].pc = "draw" /\ Source(s) \in files
    /\ files' = files \cup {Images(s)}
    /\ tasks' = [tasks EXCEPT ![s].pc = "read"]
    /\ UNCHANGED <<typ, prompts, samples, runs, jobs, reqs, dropped, used>>

ReadDone(s) ==
    /\ tasks[s].pc = "read"
    /\ SetRead(s, "ready")
    /\ tasks' = [tasks EXCEPT ![s] = NoTask]
    /\ UNCHANGED <<typ, prompts, runs, files, jobs, reqs, dropped, used>>

(* A step fails: for good on the last attempt, or when trying again would  *)
(* not help.                                                               *)
ReadFails(s, final) ==
    /\ tasks[s].pc \in {"draw", "read"}
    /\ tasks[s].try = MaxTry => final
    /\ IF final THEN SetRead(s, "failed") /\ tasks' = [tasks EXCEPT ![s] = NoTask]
                ELSE UNCHANGED samples /\ tasks' = [tasks EXCEPT ![s] = [NoTask EXCEPT !.pc = "queued", !.try = tasks[s].try + 1]]
    /\ UNCHANGED <<typ, prompts, runs, files, jobs, reqs, dropped, used>>

(* The worker dies; a task that dies on its last attempt is archived, and  *)
(* nothing looks for samples that were being read.                         *)
ReaderDies(s) ==
    /\ tasks[s].pc \in {"draw", "read"}
    /\ Orderly => tasks[s].try < MaxTry
    /\ used.crash < MaxCrash /\ Spend("crash")
    /\ tasks' = [tasks EXCEPT ![s] = IF @.try = MaxTry THEN NoTask ELSE [NoTask EXCEPT !.pc = "queued", !.try = tasks[s].try + 1]]
    /\ UNCHANGED <<typ, prompts, samples, runs, files, jobs, reqs, dropped>>

SetTruth(s) ==
    /\ samples[s].status = "ready" /\ ~samples[s].truth
    /\ used.req < MaxReq /\ Spend("req")
    /\ samples' = [samples EXCEPT ![s].truth = TRUE]
    /\ UNCHANGED <<typ, prompts, runs, files, tasks, jobs, reqs, dropped>>

(* DeleteSample: the row as read, the row gone with its runs, the files    *)
(* the row named.                                                          *)
DropSample(s) ==
    /\ Exists(s)
    /\ Ask([Request("forget", "row", 0) EXCEPT !.s = {s}, !.pages = samples[s].pages])
    /\ UNCHANGED <<typ, prompts, samples, runs, files, tasks, jobs, dropped>>

DropSampleRow(r) ==
    /\ r.op = "forget" /\ r.pc = "row"
    /\ IF \E s \in r.s : Exists(s)
       THEN /\ samples' = [s \in Sample |-> IF s \in r.s THEN [NoSample EXCEPT !.status = "deleted"] ELSE samples[s]]
            /\ runs' = [s \in Sample |-> IF s \in r.s THEN NoRuns ELSE runs[s]]
            /\ Goto(r, "files")
       ELSE Answer(r) /\ UNCHANGED <<samples, runs>>
    /\ UNCHANGED <<typ, prompts, files, tasks, jobs, dropped, used>>

DropSampleFiles(r) ==
    /\ r.op = "forget" /\ r.pc = "files" /\ Answer(r)
    /\ files' = files \ UNION {{Source(s)} \cup IF r.pages THEN {Images(s)} ELSE {} : s \in r.s}
    /\ UNCHANGED <<typ, prompts, samples, runs, tasks, jobs, dropped, used>>

-----------------------------------------------------------------------------
(* Test runs and optimizations, in the request of their user.              *)

Ready(kind) == {s \in Sample : samples[s].status = "ready" /\ (kind = "optimize" => samples[s].truth)}

JobCreate(kind, v) ==
    /\ typ.exists /\ v \in Versions /\ Ready(kind) # {}
    /\ Len(jobs) < MaxJob
    /\ jobs' = Append(jobs, [kind |-> kind, v |-> v, text |-> 0, left |-> Ready(kind),
                             status |-> "running", failed |-> FALSE, pc |-> "read"])
    /\ UNCHANGED <<typ, prompts, samples, runs, files, tasks, reqs, dropped, used>>

JobDo(j, change) ==
    /\ jobs' = [jobs EXCEPT ![j] = change]
    /\ UNCHANGED <<typ, prompts, samples, files, tasks, reqs, dropped>>

(* The instructions are read again; an optimization runs what the version  *)
(* has not been run on.                                                    *)
JobRead(j) ==
    /\ jobs[j].pc = "read"
    /\ IF typ.exists /\ jobs[j].v \in Versions
       THEN JobDo(j, [jobs[j] EXCEPT !.text = prompts[jobs[j].v].text, !.pc = "run",
                         !.left = IF jobs[j].kind = "run" THEN @ ELSE {s \in @ : runs[s][jobs[j].v] = 0}])
       ELSE JobDo(j, [jobs[j] EXCEPT !.left = {}, !.failed = TRUE, !.pc = "run"])
    /\ UNCHANGED <<runs, used>>

(* One sample, in no order: the agent answers and the output is kept, or   *)
(* one of the two fails and the others go on.                              *)
JobRun(j, s, ok) ==
    /\ jobs[j].pc = "run" /\ s \in jobs[j].left
    /\ runs' = IF ok /\ Exists(s) THEN [runs EXCEPT ![s][jobs[j].v] = jobs[j].text] ELSE runs
    /\ JobDo(j, [jobs[j] EXCEPT !.left = @ \ {s}, !.failed = @ \/ ~(ok /\ Exists(s))])
    /\ UNCHANGED used

JobFinish(j) ==
    /\ jobs[j].pc = "run" /\ jobs[j].left = {}
    /\ JobDo(j, [jobs[j] EXCEPT !.pc = "over",
                    !.status = IF @ = "gone" THEN @ ELSE IF jobs[j].failed THEN "failed" ELSE "done"])
    /\ UNCHANGED <<runs, used>>

JobDies(j) ==
    /\ jobs[j].pc # "over"
    /\ used.crash < MaxCrash /\ Spend("crash")
    /\ JobDo(j, [jobs[j] EXCEPT !.pc = "over"])
    /\ UNCHANGED runs

(* Jobs: one that is running past its limit was cut off.                   *)
(* Mutant: only the jobs that have a runner are looked at.                 *)
JobClose_Alive(j) ==
    /\ jobs[j].status = "running" /\ jobs[j].pc # "over"
    /\ JobDo(j, [jobs[j] EXCEPT !.status = "failed"])
    /\ UNCHANGED <<runs, used>>

JobClose(j) ==
    /\ jobs[j].status = "running" /\ jobs[j].pc = "over"
    /\ JobDo(j, [jobs[j] EXCEPT !.status = "failed"])
    /\ UNCHANGED <<runs, used>>

DropProposal(j) ==
    /\ jobs[j].kind = "optimize" /\ jobs[j].status \in {"done", "failed"}
    /\ JobDo(j, [jobs[j] EXCEPT !.status = "gone"])
    /\ UNCHANGED <<runs, used>>

-----------------------------------------------------------------------------

Init ==
    /\ typ = [exists |-> TRUE, cur |-> 1, fields |-> 1]
    /\ prompts = [v \in Version |-> IF v = 1 THEN [text |-> 1, fields |-> 1] ELSE NoPrompt]
    /\ samples = [s \in Sample |-> NoSample]
    /\ runs = [s \in Sample |-> NoRuns]
    /\ files = {} /\ tasks = [s \in Sample |-> NoTask]
    /\ jobs = <<>> /\ reqs = {} /\ dropped = {}
    /\ used = [req |-> 0, crash |-> 0, text |-> 1, fields |-> 1]

Serve(r) ==
    \/ SaveFirst(r) \/ SaveFields(r) \/ UseAdded(r)
    \/ DropVersion(r) \/ DropRuns(r) \/ DeleteRows(r)
    \/ UploadRow(r) \/ \E ok \in BOOLEAN : UploadTask(r, ok)
    \/ DropSampleRow(r) \/ DropSampleFiles(r)

(* The request dies; none that would leave the type half saved, a version  *)
(* half deleted or a sample unqueued, when those are assumed away.         *)
RequestDies(r) ==
    /\ Orderly => r.op \in {"use", "forget"}
    /\ used.crash < MaxCrash /\ Spend("crash") /\ Answer(r)
    /\ UNCHANGED <<typ, prompts, samples, runs, files, tasks, jobs, dropped>>

ReadStep(s) == ReadStart(s) \/ ReadDraw(s) \/ ReadDone(s) \/ \E final \in BOOLEAN : ReadFails(s, final)
JobStep(j) == JobRead(j) \/ JobFinish(j) \/ \E s \in Sample, ok \in BOOLEAN : JobRun(j, s, ok)

Next ==
    \/ \E fields \in {0} \cup Edition : SaveType(fields)
    \/ \E fields \in 1..used.fields, use \in BOOLEAN : AddPrompt(fields, use)
    \/ \E v \in Version : SetCurrent(v) \/ DropCheck(v)
    \/ \E v \in Version, kind \in {"run", "optimize"} : JobCreate(kind, v)
    \/ DeleteType
    \/ \E r \in reqs : Serve(r) \/ RequestDies(r)
    \/ \E s \in Sample : UploadFile(s) \/ SetTruth(s) \/ DropSample(s) \/ ReadStep(s) \/ ReaderDies(s)
    \/ \E j \in DOMAIN jobs : JobStep(j) \/ JobDies(j) \/ JobClose(j) \/ DropProposal(j)

Spec == Init /\ [][Next]_vars

(* Requests and tasks under way go on, and a page that shows a running job *)
(* asks for the jobs of the type again and again.                          *)
Fairness ==
    /\ WF_vars(\E r \in reqs : Serve(r))
    /\ \A s \in Sample : WF_vars(ReadStep(s))
    /\ \A j \in 1..MaxJob : WF_vars(j \in DOMAIN jobs /\ JobStep(j)) /\ WF_vars(j \in DOMAIN jobs /\ JobClose(j))

FairSpec == Spec /\ Fairness

-----------------------------------------------------------------------------
(* Properties.                                                             *)

TypeOK ==
    /\ typ \in [exists : BOOLEAN, cur : {0} \cup Version, fields : {0} \cup Edition]
    /\ prompts \in [Version -> [text : {0} \cup Edition, fields : {0} \cup Edition]]
    /\ samples \in [Sample -> [status : {"none", "processing", "ready", "failed", "deleted"},
                               pages : BOOLEAN, truth : BOOLEAN]]
    /\ runs \in [Sample -> [Version -> {0} \cup Edition]]
    /\ files \subseteq Sample \X {"source", "images"}
    /\ tasks \in [Sample -> [pc : {"none", "queued", "draw", "read"}, try : 0..MaxTry]]
    /\ Len(jobs) <= MaxJob

Between(op) == \E r \in reqs : r.op = op

(* What the type asks for and what its version in use reads are the same   *)
(* fields, and there is a version in use: versions are made, used, edited  *)
(* and deleted by requests that overlap, each a statement at a time.       *)
InUseAgrees ==
    typ.exists /\ ~Between("save") =>
        typ.cur \in Versions /\ prompts[typ.cur].fields = typ.fields

(* A version is scored by what its own instructions read: no output of a   *)
(* deleted version is left, or arrives, under a number that was given      *)
(* again.                                                                  *)
RunTrue ==
    \A s \in Sample, v \in Versions :
        runs[s][v] \in {0, prompts[v].text} \/ \E r \in reqs : r.op = "drop" /\ r.v = v

(* A sample that can be looked at has its file and its images.             *)
ReadyHasFiles ==
    \A s \in Sample : samples[s].status = "ready" => {Source(s), Images(s)} \subseteq files \/ Between("delete")

(* What the rows of a type say of its versions and samples is so.          *)
RowsAgree == TypeOK /\ InUseAgrees /\ ReadyHasFiles

(* "A deleted number is never reused" (AddPrompt).                         *)
NumbersNeverReused == [][\A v \in dropped : v \notin {w \in Version : prompts'[w] # NoPrompt}]_vars

(* An uploaded sample is read, or said to have failed.                     *)
SampleSettles == \A s \in Sample : samples[s].status = "processing" ~> samples[s].status # "processing"

Running(j) == j \in DOMAIN jobs /\ jobs[j].status = "running"

(* A job ends, for those who watch it, even when its server was restarted. *)
JobsEnd == \A j \in 1..MaxJob : Running(j) ~> ~Running(j)

(* Nothing that the user sees under way stays so for ever.                 *)
Settles == SampleSettles /\ JobsEnd
==============================================================================
