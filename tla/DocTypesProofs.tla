----------------------------- MODULE DocTypesProofs -----------------------------
(***************************************************************************)
(* Theorems about DocTypes, for any samples and any bounds: a type agrees  *)
(* with its version in use, a sample that can be looked at has its files,  *)
(* and a version is scored by what its own instructions read, whatever     *)
(* requests, readers and jobs overlap.                                     *)
(***************************************************************************)
EXTENDS DocTypes, FiniteSetTheorems, WellFoundedInduction, TLAPS

-----------------------------------------------------------------------------
(* Types.                                                                  *)

Reqs == [id : Nat, op : {"save", "use", "drop", "delete", "upload", "forget"},
         pc : {"first", "fields", "use", "version", "runs", "rows", "row", "task", "files"},
         v : Nat, s : SUBSET Sample, pages : BOOLEAN]
Job == [kind : {"run", "optimize"}, v : Version, text : {0} \cup Edition, left : SUBSET Sample,
        status : {"running", "done", "failed", "gone"}, failed : BOOLEAN, pc : {"read", "run", "over"}]
Used == [req : Nat, crash : Nat, text : Nat, fields : Edition]

Typed == TypeOK /\ jobs \in Seq(Job) /\ reqs \subseteq Reqs /\ used \in Used

LEMMA RequestType ==
    ASSUME Typed, NEW op \in {"save", "use", "drop", "delete", "upload", "forget"},
           NEW pc \in {"first", "fields", "use", "version", "runs", "rows", "row", "task", "files"}, NEW v \in Nat
    PROVE  /\ Request(op, pc, v) \in Reqs /\ Request(op, pc, v).op = op /\ Request(op, pc, v).pc = pc
           /\ Request(op, pc, v).v = v /\ Request(op, pc, v).s = {}
<1>1. used.req + 1 \in Nat
  BY DEF Typed, Used
<1> QED
  BY <1>1 DEF Request, Reqs

LEMMA SampleRequest ==
    ASSUME Typed, NEW op \in {"upload", "forget"}, NEW s \in Sample, NEW p \in BOOLEAN, NEW q,
           q = [Request(op, "row", 0) EXCEPT !.s = {s}, !.pages = p] \/ q = [Request(op, "row", 0) EXCEPT !.s = {s}]
    PROVE  q \in Reqs /\ q.op = op /\ q.pc = "row" /\ q.s = {s}
<1>1. PICK r \in Reqs : r = Request(op, "row", 0) /\ r.op = op /\ r.pc = "row"
  BY RequestType
<1>2. q = [r EXCEPT !.s = {s}, !.pages = p] \/ q = [r EXCEPT !.s = {s}]
  BY <1>1
<1>3. CASE q = [r EXCEPT !.s = {s}, !.pages = p]
  BY <1>1, <1>3 DEF Reqs
<1>4. CASE q = [r EXCEPT !.s = {s}]
  BY <1>1, <1>4 DEF Reqs
<1> QED
  BY <1>2, <1>3, <1>4

LEMMA GotoType ==
    ASSUME Typed, NEW r \in reqs, NEW pc \in {"fields", "runs", "task", "files"}
    PROVE  LET q == [r EXCEPT !.pc = pc]
           IN  q \in Reqs /\ q.op = r.op /\ q.pc = pc /\ q.v = r.v /\ q.s = r.s /\ q.id = r.id
BY DEF Reqs, Typed

(* One job moves on; the others stay.                                      *)
LEMMA JobsChange ==
    ASSUME Typed, NEW j \in DOMAIN jobs, NEW q \in Job, jobs' = [jobs EXCEPT ![j] = q]
    PROVE  /\ jobs' \in Seq(Job) /\ Len(jobs') = Len(jobs) /\ DOMAIN jobs' = DOMAIN jobs
           /\ jobs'[j] = q /\ \A k \in DOMAIN jobs : k # j => jobs'[k] = jobs[k]
BY DEF Typed

LEMMA JobType ==
    ASSUME Typed, NEW j \in DOMAIN jobs
    PROVE  jobs[j] \in Job
BY DEF Typed

(* What the steps of a job make of it.                                     *)
LEMMA JobSteps ==
    ASSUME Typed, NEW j \in DOMAIN jobs, JobStep(j) \/ JobDies(j) \/ JobClose(j) \/ DropProposal(j)
    PROVE  \E q \in Job :
              /\ jobs' = [jobs EXCEPT ![j] = q]
              /\ q.v = jobs[j].v /\ q.left \subseteq jobs[j].left
              /\ jobs[j].pc = "over" => q.pc = "over"
              /\ q.pc = "run" => \/ jobs[j].pc = "run" /\ q.text = jobs[j].text
                                 \/ q.left = {}
                                 \/ q.v \in Versions /\ q.text = prompts[q.v].text
<1>1. jobs[j] \in Job /\ prompts \in [Version -> [text : {0} \cup Edition, fields : {0} \cup Edition]]
  BY JobType DEF Typed, TypeOK
<1>2. CASE JobRead(j)
  <2>1. CASE typ.exists /\ jobs[j].v \in Versions
    <3>1. PICK L \in SUBSET jobs[j].left : jobs' = [jobs EXCEPT ![j] = [jobs[j] EXCEPT !.text = prompts[jobs[j].v].text, !.pc = "run", !.left = L]]
      <4>1. CASE jobs[j].kind = "run"
        <5>1. jobs' = [jobs EXCEPT ![j] = [jobs[j] EXCEPT !.text = prompts[jobs[j].v].text, !.pc = "run", !.left = jobs[j].left]]
          BY <1>1, <1>2, <2>1, <4>1 DEF JobRead, JobDo, Job
        <5> QED
          BY <5>1
      <4>2. CASE jobs[j].kind # "run"
        <5>1. PICK L : L = {s \in jobs[j].left : runs[s][jobs[j].v] = 0}
          OBVIOUS
        <5>2. jobs' = [jobs EXCEPT ![j] = [jobs[j] EXCEPT !.text = prompts[jobs[j].v].text, !.pc = "run", !.left = L]]
          BY <1>1, <1>2, <2>1, <4>2, <5>1 DEF JobRead, JobDo, Job
        <5> QED
          BY <5>1, <5>2
      <4> QED
        BY <4>1, <4>2
    <3>2. PICK q : q = [jobs[j] EXCEPT !.text = prompts[jobs[j].v].text, !.pc = "run", !.left = L]
      OBVIOUS
    <3>3. prompts[jobs[j].v].text \in {0} \cup Edition
      BY <1>1 DEF Job
    <3>4. q \in Job /\ q.v = jobs[j].v /\ q.left = L /\ q.pc = "run" /\ q.text = prompts[jobs[j].v].text
      BY <1>1, <3>2, <3>3 DEF Job
    <3>5. jobs[j].pc = "read"
      BY <1>2 DEF JobRead
    <3> QED
      BY <2>1, <3>1, <3>2, <3>4, <3>5
  <2>2. CASE ~(typ.exists /\ jobs[j].v \in Versions)
    <3>1. PICK q : q = [jobs[j] EXCEPT !.left = {}, !.failed = TRUE, !.pc = "run"]
      OBVIOUS
    <3>2. jobs' = [jobs EXCEPT ![j] = q] /\ jobs[j].pc = "read"
      BY <1>2, <2>2, <3>1 DEF JobRead, JobDo
    <3>3. q \in Job /\ q.v = jobs[j].v /\ q.left = {} /\ q.pc = "run"
      BY <1>1, <3>1 DEF Job
    <3> QED
      BY <3>2, <3>3
  <2> QED
    BY <2>1, <2>2
<1>3. ASSUME NEW s \in Sample, NEW ok \in BOOLEAN, JobRun(j, s, ok)
      PROVE  \E q \in Job : /\ jobs' = [jobs EXCEPT ![j] = q] /\ q.v = jobs[j].v /\ q.left \subseteq jobs[j].left
                            /\ q.pc = "run" /\ jobs[j].pc = "run" /\ q.text = jobs[j].text
  <2>1. PICK b \in BOOLEAN : b = (jobs[j].failed \/ ~(ok /\ Exists(s)))
    OBVIOUS
  <2>2. PICK q : q = [jobs[j] EXCEPT !.left = @ \ {s}, !.failed = b]
    OBVIOUS
  <2>3. jobs' = [jobs EXCEPT ![j] = q] /\ jobs[j].pc = "run"
    BY <1>1, <1>3, <2>1, <2>2 DEF JobRun, JobDo, Job
  <2>4. q \in Job /\ q.v = jobs[j].v /\ q.left \subseteq jobs[j].left /\ q.pc = jobs[j].pc /\ q.text = jobs[j].text
    BY <1>1, <2>2 DEF Job
  <2> QED
    BY <2>3, <2>4
<1>4. ASSUME NEW pc \in {jobs[j].pc, "over"}, NEW st \in {"running", "done", "failed", "gone"},
             jobs' = [jobs EXCEPT ![j] = [jobs[j] EXCEPT !.pc = pc, !.status = st]]
      PROVE  \E q \in Job : /\ jobs' = [jobs EXCEPT ![j] = q] /\ q.v = jobs[j].v /\ q.left = jobs[j].left
                            /\ q.pc = pc /\ q.text = jobs[j].text
  <2>1. PICK q : q = [jobs[j] EXCEPT !.pc = pc, !.status = st]
    OBVIOUS
  <2>2. q \in Job /\ q.v = jobs[j].v /\ q.left = jobs[j].left /\ q.pc = pc /\ q.text = jobs[j].text
    BY <1>1, <2>1 DEF Job
  <2> QED
    BY <1>4, <2>1, <2>2
<1>5. CASE JobFinish(j)
  <2>1. PICK st \in {"running", "done", "failed", "gone"} : jobs' = [jobs EXCEPT ![j] = [jobs[j] EXCEPT !.pc = "over", !.status = st]]
    BY <1>1, <1>5 DEF JobFinish, JobDo, Job
  <2> QED
    BY <1>4, <2>1
<1>6. CASE JobDies(j)
  <2>1. jobs' = [jobs EXCEPT ![j] = [jobs[j] EXCEPT !.pc = "over", !.status = jobs[j].status]]
    BY <1>1, <1>6 DEF JobDies, JobDo, Job
  <2>2. jobs[j].status \in {"running", "done", "failed", "gone"}
    BY <1>1 DEF Job
  <2> QED
    BY <1>4, <2>1, <2>2
<1>7. CASE JobClose(j) \/ DropProposal(j)
  <2>1. PICK st \in {"failed", "gone"} : jobs' = [jobs EXCEPT ![j] = [jobs[j] EXCEPT !.pc = jobs[j].pc, !.status = st]]
    BY <1>1, <1>7 DEF JobClose, DropProposal, JobDo, Job
  <2>2. PICK q \in Job : /\ jobs' = [jobs EXCEPT ![j] = q] /\ q.v = jobs[j].v /\ q.left = jobs[j].left
                         /\ q.pc = jobs[j].pc /\ q.text = jobs[j].text
    BY <1>4, <2>1
  <2> QED
    BY <2>2
<1> QED
  BY <1>2, <1>3, <1>5, <1>6, <1>7 DEF JobStep

(* The type and its versions: a version has instructions; a type that is   *)
(* there has the version in use, or a save that is about to make version   *)
(* 1; and the two ask for the same fields, or a save is about to say so.   *)
VersionInv ==
    /\ \A v \in Versions : prompts[v].text # 0
    /\ ~typ.exists => Versions = {}
    /\ typ.exists => typ.cur \in Versions \/ (typ.cur = 1 /\ \E r \in reqs : r.op = "save" /\ r.pc = "first")
    /\ typ.exists /\ typ.cur \in Versions =>
           prompts[typ.cur].fields = typ.fields \/ \E r \in reqs : r.op = "save" /\ r.v # 0

(* Samples: an upload is of a sample that has no row before its row, and   *)
(* has one afterwards, and is the only one; the files go after the row.    *)
UploadsOnce ==
    /\ \A r \in reqs : \A s \in r.s :
          /\ r.op = "upload" => (r.pc = "row" <=> samples[s].status = "none")
          /\ r.op = "forget" => samples[s].status # "none"
          /\ r.op = "forget" /\ r.pc = "files" => samples[s].status = "deleted"
    /\ \A q, r \in reqs : \A s \in q.s \cap r.s :
          q.op = "upload" /\ q.pc = "row" /\ r.op = "upload" /\ r.pc = "row" => q = r

(* What is being read has a row, and what was drawn or read has its files. *)
FilesKept ==
    \A s \in Sample :
          /\ tasks[s].pc # "none" => samples[s].status # "none"
          /\ (tasks[s].pc = "read" /\ Exists(s)) \/ samples[s].status = "ready" =>
                {Source(s), Images(s)} \subseteq files \/ Between("delete")

(* Runs: what a version was scored by is what it reads, unless its runs    *)
(* are about to be deleted; a job that can still write reads the same; and *)
(* it was given samples that have a row.                                   *)
RunInv ==
    /\ \A s \in Sample, v \in Version :
          \/ runs[s][v] = 0 \/ (v \in Versions /\ runs[s][v] = prompts[v].text)
          \/ \E r \in reqs : r.op = "drop" /\ r.pc = "runs" /\ r.v = v
    /\ \A j \in DOMAIN jobs : \A s \in jobs[j].left :
          /\ samples[s].status # "none"
          /\ jobs[j].pc = "run" /\ Exists(s) =>
                jobs[j].v \in Versions /\ jobs[j].text = prompts[jobs[j].v].text

-----------------------------------------------------------------------------
(* Versions.                                                               *)

LEMMA VersionDef == \A v : v \in Versions <=> v \in Version /\ prompts[v] # NoPrompt
BY DEF Versions

(* A new version has a number that no version has.                         *)
LEMMA NewNumber ==
    ASSUME Typed, Versions # {}
    PROVE  1 + (CHOOSE n \in Versions : \A m \in Versions : m <= n) \notin Versions
<1>1. MaxVersion \in Nat /\ Versions \subseteq 1..MaxVersion
  BY DocTypesAssumption DEF Versions, Version
<1>2. PICK T : T = {MaxVersion - v : v \in Versions}
  OBVIOUS
<1>3. T \subseteq Nat /\ T # {}
  <2>1. \A v \in Versions : MaxVersion - v \in Nat
    BY <1>1
  <2> QED
    BY <1>2, <2>1
<1>4. PICK x \in T : \A y \in T : ~(<<y, x>> \in OpToRel(<, Nat))
  BY <1>3, NatLessThanWellFounded, WFMin
<1>5. \A y \in T : ~(y < x)
  BY <1>3, <1>4 DEF OpToRel
<1>6. PICK w \in Versions : x = MaxVersion - w
  BY <1>2
<1>7. \A m \in Versions : m <= w
  <2> SUFFICES ASSUME NEW m \in Versions PROVE m <= w
    OBVIOUS
  <2>1. MaxVersion - m \in T
    BY <1>2
  <2>2. ~(MaxVersion - m < MaxVersion - w)
    BY <1>5, <1>6, <2>1
  <2> QED
    BY <1>1, <2>2
<1>8. PICK k : k = CHOOSE n \in Versions : \A m \in Versions : m <= n
  OBVIOUS
<1>9. k \in Versions /\ \A m \in Versions : m <= k
  BY <1>7, <1>8
<1>10. 1 + k \notin Versions
  BY <1>1, <1>9
<1> QED
  BY <1>8, <1>10

(* Steps that leave the type and its versions alone, and no save.          *)
LEMMA VersionFrame ==
    ASSUME VersionInv, typ' = typ, prompts' = prompts, \A r \in reqs : r.op = "save" => r \in reqs'
    PROVE  VersionInv'
<1>1. Versions' = Versions
  BY DEF Versions
<1> QED
  BY <1>1 DEF VersionInv

LEMMA VersionStep ==
    ASSUME Typed, VersionInv, Orderly, Next
    PROVE  VersionInv'
<1>1. /\ typ \in [exists : BOOLEAN, cur : {0} \cup Version, fields : {0} \cup Edition]
      /\ prompts \in [Version -> [text : {0} \cup Edition, fields : {0} \cup Edition]]
      /\ reqs \subseteq Reqs /\ used \in Used /\ 1 \in Version /\ 0 \notin Edition /\ 0 \notin Version
  BY DocTypesAssumption DEF Typed, TypeOK, Version, Edition
<1>2. ASSUME NEW fields \in {0} \cup Edition, SaveType(fields) PROVE VersionInv'
  <2>1. PICK q \in Reqs : q = Request("save", "first", fields) /\ q.op = "save" /\ q.pc = "first" /\ q.v = fields
    <3>1. fields \in Nat
      BY DEF Edition
    <3> QED
      BY <3>1, RequestType
  <2>2. reqs' = reqs \cup {q} /\ prompts' = prompts /\ Versions' = Versions
    BY <1>2, <2>1 DEF SaveType, Versions
  <2>3. CASE typ.exists
    <3>1. typ'.exists = typ.exists /\ typ'.cur = typ.cur /\ (fields = 0 => typ'.fields = typ.fields)
      BY <1>1, <1>2, <2>3 DEF SaveType
    <3> QED
      BY <2>1, <2>2, <2>3, <3>1 DEF VersionInv
  <2>4. CASE ~typ.exists
    <3>1. typ'.exists /\ typ'.cur = 1 /\ Versions = {}
      BY <1>1, <1>2, <2>4 DEF SaveType, VersionInv
    <3> QED
      BY <2>1, <2>2, <3>1 DEF VersionInv
  <2> QED
    BY <2>3, <2>4
<1>3. ASSUME NEW r \in reqs, SaveFirst(r) PROVE VersionInv'
  <2>1. typ' = typ /\ r.op = "save" /\ r.pc = "first"
    BY <1>3 DEF SaveFirst
  <2>2. PICK q : q = [r EXCEPT !.pc = "fields"]
    OBVIOUS
  <2>3. q.op = r.op /\ q.v = r.v /\ q.pc = "fields"
    BY <1>1, <2>2 DEF Reqs
  <2>4. reqs' = IF r.v = 0 THEN reqs \ {r} ELSE (reqs \ {r}) \cup {q}
    BY <1>3, <2>2 DEF SaveFirst, Answer, Goto
  <2>5. (\E u \in reqs : u.op = "save" /\ u.v # 0) => \E u \in reqs' : u.op = "save" /\ u.v # 0
    BY <2>1, <2>3, <2>4
  <2>6. CASE typ.exists /\ prompts[1] = NoPrompt
    <3>1. PICK n : n = NextText /\ n \in Edition
      BY <1>3, <2>6 DEF SaveFirst
    <3>2. PICK x : x = [text |-> n, fields |-> typ.fields]
      OBVIOUS
    <3>3. x.text = n /\ x.fields = typ.fields /\ x # NoPrompt /\ n # 0
      BY <1>1, <3>1, <3>2 DEF NoPrompt
    <3>4. prompts' = [prompts EXCEPT ![1] = x]
      BY <1>3, <2>6, <3>1, <3>2 DEF SaveFirst
    <3>5. prompts'[1] = x /\ \A v \in Version : v # 1 => prompts'[v] = prompts[v]
      BY <1>1, <3>4
    <3>6. \A v : v \in Versions' <=> v = 1 \/ v \in Versions
      BY <1>1, <3>3, <3>5 DEF Versions
    <3>7. \A v \in Versions' : prompts'[v].text # 0
      BY <1>1, <3>3, <3>5, <3>6, VersionDef DEF VersionInv
    <3>8. typ.cur \in Versions'
      BY <2>6, <3>6 DEF VersionInv
    <3>9. prompts'[typ.cur].fields = typ.fields \/ \E u \in reqs' : u.op = "save" /\ u.v # 0
      BY <1>1, <2>5, <2>6, <3>3, <3>5, <3>6, <3>8, VersionDef DEF VersionInv
    <3> QED
      BY <2>1, <2>6, <3>7, <3>8, <3>9 DEF VersionInv
  <2>7. CASE ~(typ.exists /\ prompts[1] = NoPrompt)
    <3>1. prompts' = prompts /\ Versions' = Versions
      BY <1>3, <2>7 DEF SaveFirst, Versions
    <3>2. typ.exists => typ.cur \in Versions
      BY <1>1, <2>7, VersionDef DEF VersionInv
    <3> QED
      BY <2>1, <2>5, <3>1, <3>2 DEF VersionInv
  <2> QED
    BY <2>6, <2>7
<1>4. ASSUME NEW r \in reqs, SaveFields(r) PROVE VersionInv'
  <2>1. typ' = typ /\ reqs' = reqs \ {r} /\ r.op = "save" /\ r.pc = "fields"
    BY <1>4 DEF SaveFields, Answer
  <2>2. CASE typ.exists /\ typ.cur \in Versions
    <3>1. prompts' = [prompts EXCEPT ![typ.cur].fields = typ.fields] /\ typ.cur \in Version
      BY <1>4, <2>2 DEF SaveFields, Versions
    <3>2. PICK x : x = [prompts[typ.cur] EXCEPT !.fields = typ.fields]
      OBVIOUS
    <3>3. x.text = prompts[typ.cur].text /\ x.fields = typ.fields /\ x.text # 0
      BY <1>1, <2>2, <3>1, <3>2 DEF VersionInv
    <3>4. x # NoPrompt
      BY <3>3 DEF NoPrompt
    <3>5. prompts'[typ.cur] = x /\ \A v \in Version : v # typ.cur => prompts'[v] = prompts[v]
      BY <1>1, <3>1, <3>2
    <3>6. \A v : v \in Versions' <=> v \in Versions
      BY <1>1, <2>2, <3>4, <3>5, <3>1 DEF Versions
    <3>7. \A v \in Versions' : prompts'[v].text # 0
      BY <3>3, <3>5, <3>6, VersionDef DEF VersionInv
    <3> QED
      BY <2>1, <2>2, <3>3, <3>5, <3>6, <3>7 DEF VersionInv
  <2>3. CASE ~(typ.exists /\ typ.cur \in Versions)
    <3>1. prompts' = prompts /\ Versions' = Versions
      BY <1>4, <2>3 DEF SaveFields, Versions
    <3> QED
      BY <2>1, <2>3, <3>1 DEF VersionInv
  <2> QED
    BY <2>2, <2>3
<1>5. ASSUME NEW fields \in 1..used.fields, NEW use \in BOOLEAN, AddPrompt(fields, use) PROVE VersionInv'
  <2>1. PICK v : v = 1 + CHOOSE n \in Versions : \A m \in Versions : m <= n
    OBVIOUS
  <2>2. typ.exists /\ typ.cur \in Versions /\ typ' = typ /\ v \in Version /\ NextText \in Edition
    BY <1>5, <2>1 DEF AddPrompt
  <2>3. v \notin Versions
    BY <2>1, <2>2, NewNumber
  <2>4. PICK x : x = [text |-> NextText, fields |-> fields]
    OBVIOUS
  <2>5. x.text # 0 /\ x # NoPrompt
    BY <1>1, <2>2, <2>4 DEF NoPrompt
  <2>6. prompts' = [prompts EXCEPT ![v] = x]
    BY <1>5, <2>1, <2>4 DEF AddPrompt
  <2>7. prompts'[v] = x /\ \A w \in Version : w # v => prompts'[w] = prompts[w]
    BY <1>1, <2>2, <2>6
  <2>8. \A w : w \in Versions' <=> w = v \/ w \in Versions
    BY <2>2, <2>5, <2>7 DEF Versions
  <2>9. \A w \in Versions' : prompts'[w].text # 0
    BY <2>2, <2>3, <2>5, <2>7, <2>8, VersionDef DEF VersionInv
  <2>10. reqs \subseteq reqs' /\ prompts'[typ.cur] = prompts[typ.cur]
    BY <1>5, <2>2, <2>3, <2>7, VersionDef DEF AddPrompt
  <2> QED
    BY <2>2, <2>8, <2>9, <2>10 DEF VersionInv
<1>6. ASSUME NEW v \in Nat, Use(v), prompts' = prompts, \A r \in reqs : r.op = "save" => r \in reqs' PROVE VersionInv'
  <2>1. CASE typ.exists /\ v \in Versions
    <3>1. typ'.exists /\ typ'.cur = v /\ typ'.fields = prompts[v].fields /\ Versions' = Versions
      BY <1>1, <1>6, <2>1 DEF Use, Versions
    <3> QED
      BY <1>6, <2>1, <3>1 DEF VersionInv
  <2>2. CASE ~(typ.exists /\ v \in Versions)
    BY <1>6, <2>2, VersionFrame DEF Use
  <2> QED
    BY <2>1, <2>2
<1>7. ASSUME NEW r \in reqs, DropVersion(r) PROVE VersionInv'
  <2>1. typ' = typ /\ r.op = "drop" /\ \A u \in reqs : u.op = "save" => u \in reqs'
    BY <1>7 DEF DropVersion, Answer, Goto
  <2>2. CASE typ.exists /\ r.v \in Versions /\ r.v # typ.cur
    <3>1. prompts' = [prompts EXCEPT ![r.v] = NoPrompt] /\ r.v \in Version
      BY <1>7, <2>2 DEF DropVersion, Versions
    <3>2. prompts'[r.v] = NoPrompt /\ \A w \in Version : w # r.v => prompts'[w] = prompts[w]
      BY <1>1, <3>1
    <3>3. \A w : w \in Versions' <=> w # r.v /\ w \in Versions
      BY <3>1, <3>2 DEF Versions
    <3>4. \A w \in Versions' : prompts'[w].text # 0
      BY <3>2, <3>3, VersionDef DEF VersionInv
    <3> QED
      BY <2>1, <2>2, <3>2, <3>3, <3>4, VersionDef DEF VersionInv
  <2>3. CASE ~(typ.exists /\ r.v \in Versions /\ r.v # typ.cur)
    BY <1>7, <2>1, <2>3, VersionFrame DEF DropVersion
  <2> QED
    BY <2>2, <2>3
<1>8. ASSUME NEW r \in reqs, DeleteRows(r) PROVE VersionInv'
  <2>1. Versions' = {} /\ ~typ'.exists
    BY <1>8 DEF DeleteRows, Versions, NoType
  <2> QED
    BY <2>1 DEF VersionInv
<1>9. ASSUME NEW r \in reqs, Serve(r) PROVE VersionInv'
  <2>1. CASE UseAdded(r)
    <3>1. r.v \in Nat /\ Use(r.v) /\ prompts' = prompts /\ \A u \in reqs : u.op = "save" => u \in reqs'
      BY <1>1, <2>1 DEF UseAdded, Answer, Reqs
    <3> QED
      BY <1>6, <3>1
  <2>2. CASE DropRuns(r) \/ UploadRow(r) \/ (\E ok \in BOOLEAN : UploadTask(r, ok)) \/ DropSampleRow(r) \/ DropSampleFiles(r)
    <3>1. typ' = typ /\ prompts' = prompts /\ r.op # "save" /\ \A u \in reqs : u # r => u \in reqs'
      BY <2>2 DEF DropRuns, UploadRow, UploadTask, DropSampleRow, DropSampleFiles, Answer, Goto
    <3> QED
      BY <3>1, VersionFrame
  <2> QED
    BY <1>3, <1>4, <1>7, <1>8, <1>9, <2>1, <2>2 DEF Serve
<1>10. ASSUME NEW r \in reqs, RequestDies(r) PROVE VersionInv'
  BY <1>10, VersionFrame DEF RequestDies, Answer
<1>11. ASSUME NEW v \in Version, SetCurrent(v) \/ DropCheck(v) PROVE VersionInv'
  <2>1. CASE SetCurrent(v)
    <3>1. v \in Nat
      BY DEF Version
    <3> QED
      BY <1>6, <2>1, <3>1 DEF SetCurrent
  <2>2. CASE DropCheck(v)
    BY <2>2, VersionFrame DEF DropCheck, Ask
  <2> QED
    BY <1>11, <2>1, <2>2
<1>12. ASSUME NEW v \in Version, NEW kind \in {"run", "optimize"}, JobCreate(kind, v) PROVE VersionInv'
  BY <1>12, VersionFrame DEF JobCreate
<1>13. CASE DeleteType
  BY <1>13, VersionFrame DEF DeleteType, Ask
<1>14. ASSUME NEW s \in Sample, UploadFile(s) \/ SetTruth(s) \/ DropSample(s) \/ ReadStep(s) \/ ReaderDies(s) PROVE VersionInv'
  <2>1. typ' = typ /\ prompts' = prompts /\ reqs \subseteq reqs'
    BY <1>14 DEF UploadFile, SetTruth, DropSample, ReadStep, ReadStart, ReadDraw, ReadDone, ReadFails, ReaderDies, Ask
  <2> QED
    BY <2>1, VersionFrame
<1>15. ASSUME NEW j \in DOMAIN jobs, JobStep(j) \/ JobDies(j) \/ JobClose(j) \/ DropProposal(j) PROVE VersionInv'
  <2>1. typ' = typ /\ prompts' = prompts /\ reqs' = reqs
    BY <1>15 DEF JobStep, JobRead, JobRun, JobFinish, JobDies, JobClose, DropProposal, JobDo
  <2> QED
    BY <2>1, VersionFrame
<1> QED
  BY <1>2, <1>5, <1>9, <1>10, <1>11, <1>12, <1>13, <1>14, <1>15 DEF Next

-----------------------------------------------------------------------------
(* Samples.                                                                *)

(* What a read makes of the row it is of.                                  *)
LEMMA SetReadStatus ==
    ASSUME Typed, NEW s \in Sample, NEW st \in {"ready", "failed"}, SetRead(s, st)
    PROVE  \A x \in Sample : samples'[x].status = IF x = s /\ Exists(s) THEN st ELSE samples[x].status
<1>1. samples \in [Sample -> [status : {"none", "processing", "ready", "failed", "deleted"}, pages : BOOLEAN, truth : BOOLEAN]]
  BY DEF Typed, TypeOK
<1>2. CASE Exists(s)
  <2>1. PICK b : b = (st = "ready")
    OBVIOUS
  <2>2. samples' = [samples EXCEPT ![s].status = st, ![s].pages = b]
    BY <1>2, <2>1 DEF SetRead
  <2> QED
    BY <1>1, <1>2, <2>2
<1>3. CASE ~Exists(s)
  BY <1>3 DEF SetRead
<1> QED
  BY <1>2, <1>3

(* The rows keep or lose their documents; no upload gets further.          *)
SameRows ==
    \A s \in Sample : /\ samples'[s].status = "none" <=> samples[s].status = "none"
                      /\ samples[s].status = "deleted" => samples'[s].status = "deleted"

LEMMA UploadsFrame ==
    ASSUME Typed, UploadsOnce, SameRows,
           \A r \in reqs' : \/ r \in reqs
                            \/ r.s = {}
                            \/ r.op = "forget" /\ r.pc = "row" /\ \A s \in r.s : s \in Sample /\ samples'[s].status # "none"
    PROVE  UploadsOnce'
<1>1. \A r \in reqs : r.s \subseteq Sample
  BY DEF Typed, Reqs
<1> QED
  BY <1>1 DEF UploadsOnce, SameRows

LEMMA RowsSame ==
    ASSUME Typed, NEW s \in Sample, NEW st \in {"ready", "failed"}, SetRead(s, st)
    PROVE  SameRows
<1>1. \A x \in Sample : samples'[x].status = IF x = s /\ Exists(s) THEN st ELSE samples[x].status
  BY SetReadStatus
<1> QED
  BY <1>1 DEF SameRows, Exists

LEMMA UploadsStep ==
    ASSUME Typed, UploadsOnce, Orderly, Next
    PROVE  UploadsOnce'
<1>1. /\ samples \in [Sample -> [status : {"none", "processing", "ready", "failed", "deleted"}, pages : BOOLEAN, truth : BOOLEAN]]
      /\ reqs \subseteq Reqs /\ used \in Used /\ \A r \in reqs : r.s \subseteq Sample
  BY DEF Typed, TypeOK, Reqs
<1>2. samples' = samples => SameRows
  BY DEF SameRows
<1>3. ASSUME NEW op \in {"save", "use", "drop", "delete"}, NEW pc \in {"first", "use", "version", "rows"}, NEW v \in Nat,
             reqs' \subseteq reqs \cup {Request(op, pc, v)}, samples' = samples
      PROVE  UploadsOnce'
  <2>1. Request(op, pc, v).s = {}
    BY RequestType
  <2> QED
    BY <1>2, <1>3, <2>1, UploadsFrame
<1>4. ASSUME reqs' \subseteq reqs, SameRows PROVE UploadsOnce'
  BY <1>4, UploadsFrame
<1>5. ASSUME NEW fields \in {0} \cup Edition, SaveType(fields) PROVE UploadsOnce'
  <2>1. fields \in Nat
    BY DEF Edition
  <2> QED
    BY <1>3, <1>5, <2>1 DEF SaveType
<1>6. ASSUME NEW fields \in 1..used.fields, NEW use \in BOOLEAN, AddPrompt(fields, use) PROVE UploadsOnce'
  <2>1. PICK v : v = 1 + CHOOSE n \in Versions : \A m \in Versions : m <= n
    OBVIOUS
  <2>2. v \in Nat /\ samples' = samples /\ reqs' \subseteq reqs \cup {Request("use", "use", v)}
    BY <1>6, <2>1 DEF AddPrompt, Version
  <2> QED
    BY <1>3, <2>2
<1>7. ASSUME NEW v \in Version, SetCurrent(v) \/ DropCheck(v) PROVE UploadsOnce'
  <2>1. v \in Nat
    BY DEF Version
  <2>2. CASE SetCurrent(v)
    BY <1>2, <1>4, <2>2 DEF SetCurrent
  <2>3. CASE DropCheck(v)
    BY <1>3, <2>1, <2>3 DEF DropCheck, Ask
  <2> QED
    BY <1>7, <2>2, <2>3
<1>8. CASE DeleteType
  BY <1>3, <1>8 DEF DeleteType, Ask
<1>9. ASSUME NEW r \in reqs, NEW pc \in {"fields", "runs"}, r.op \in {"save", "drop"}, Goto(r, pc), samples' = samples PROVE UploadsOnce'
  <2>1. PICK q : q = [r EXCEPT !.pc = pc]
    OBVIOUS
  <2>2. q.op = r.op /\ q.s = r.s /\ reqs' = (reqs \ {r}) \cup {q}
    BY <1>1, <1>9, <2>1 DEF Goto, Reqs
  <2> QED
    BY <1>9, <2>2 DEF UploadsOnce
<1>10. ASSUME NEW r \in reqs, UploadRow(r) PROVE UploadsOnce'
  <2>1. CASE typ.exists
    <3>1. PICK q : q = [r EXCEPT !.pc = "task"]
      OBVIOUS
    <3>2. q.op = "upload" /\ q.pc = "task" /\ q.s = r.s /\ reqs' = (reqs \ {r}) \cup {q} /\ r.op = "upload" /\ r.pc = "row"
      BY <1>1, <1>10, <2>1, <3>1 DEF UploadRow, Goto, Reqs
    <3>3. \A x \in Sample : samples'[x].status = IF x \in r.s THEN "processing" ELSE samples[x].status
      BY <1>1, <1>10, <2>1 DEF UploadRow, NoSample
    <3>4. \A u \in reqs : u # r /\ u.op = "upload" /\ u.pc = "row" => u.s \cap r.s = {}
      BY <3>2 DEF UploadsOnce
    <3>5. \A u \in reqs' : \A x \in u.s :
             /\ u.op = "upload" => (u.pc = "row" <=> samples'[x].status = "none")
             /\ u.op = "forget" => samples'[x].status # "none"
             /\ u.op = "forget" /\ u.pc = "files" => samples'[x].status = "deleted"
      <4> SUFFICES ASSUME NEW u \in reqs', NEW x \in u.s
                   PROVE  /\ u.op = "upload" => (u.pc = "row" <=> samples'[x].status = "none")
                          /\ u.op = "forget" => samples'[x].status # "none"
                          /\ u.op = "forget" /\ u.pc = "files" => samples'[x].status = "deleted"
        OBVIOUS
      <4>1. CASE u = q
        BY <1>1, <3>2, <3>3, <4>1
      <4>2. CASE u # q
        <5>1. u \in reqs /\ u # r /\ x \in Sample
          BY <1>1, <3>2, <4>2
        <5>2. CASE x \in r.s
          <6>1. samples[x].status = "none"
            BY <3>2, <5>2 DEF UploadsOnce
          <6>2. u.op # "forget" /\ ~(u.op = "upload" /\ u.pc = "row") /\ ~(u.op = "upload" /\ u.pc # "row")
            BY <3>4, <5>1, <5>2, <6>1 DEF UploadsOnce
          <6> QED
            BY <6>2
        <5>3. CASE x \notin r.s
          BY <3>3, <5>1, <5>3 DEF UploadsOnce
        <5> QED
          BY <5>2, <5>3
      <4> QED
        BY <4>1, <4>2
    <3>6. \A u, w \in reqs' : \A x \in u.s \cap w.s :
             u.op = "upload" /\ u.pc = "row" /\ w.op = "upload" /\ w.pc = "row" => u = w
      BY <3>2 DEF UploadsOnce
    <3> QED
      BY <3>5, <3>6 DEF UploadsOnce
  <2>2. CASE ~typ.exists
    BY <1>2, <1>4, <1>10, <2>2 DEF UploadRow, Answer
  <2> QED
    BY <2>1, <2>2
<1>11. ASSUME NEW r \in reqs, NEW ok \in BOOLEAN, UploadTask(r, ok) PROVE UploadsOnce'
  <2>1. SameRows
    <3>1. CASE ok
      BY <1>2, <1>11, <3>1 DEF UploadTask
    <3>2. CASE ~ok
      <4>1. PICK x \in r.s : SetRead(x, "failed")
        BY <1>11, <3>2 DEF UploadTask
      <4> QED
        BY <1>1, <4>1, RowsSame
    <3> QED
      BY <3>1, <3>2
  <2> QED
    BY <1>4, <1>11, <2>1 DEF UploadTask, Answer
<1>12. ASSUME NEW r \in reqs, DropSampleRow(r) PROVE UploadsOnce'
  <2>1. CASE \E x \in r.s : Exists(x)
    <3>1. PICK q : q = [r EXCEPT !.pc = "files"]
      OBVIOUS
    <3>2. q.op = "forget" /\ q.pc = "files" /\ q.s = r.s /\ reqs' = (reqs \ {r}) \cup {q} /\ r.op = "forget" /\ r.pc = "row"
      BY <1>1, <1>12, <2>1, <3>1 DEF DropSampleRow, Goto, Reqs
    <3>3. \A x \in Sample : samples'[x].status = IF x \in r.s THEN "deleted" ELSE samples[x].status
      BY <1>1, <1>12, <2>1 DEF DropSampleRow, NoSample
    <3>4. \A x \in r.s : samples[x].status # "none"
      BY <3>2 DEF UploadsOnce
    <3> QED
      BY <1>1, <3>2, <3>3, <3>4 DEF UploadsOnce
  <2>2. CASE ~(\E x \in r.s : Exists(x))
    BY <1>2, <1>4, <1>12, <2>2 DEF DropSampleRow, Answer
  <2> QED
    BY <2>1, <2>2
<1>13. ASSUME NEW r \in reqs, Serve(r) PROVE UploadsOnce'
  <2>1. CASE SaveFirst(r)
    BY <1>2, <1>4, <1>9, <2>1 DEF SaveFirst, Answer
  <2>2. CASE DropVersion(r)
    BY <1>2, <1>4, <1>9, <2>2 DEF DropVersion, Answer
  <2>3. CASE SaveFields(r) \/ UseAdded(r) \/ DropRuns(r) \/ DropSampleFiles(r)
    <3>1. samples' = samples /\ reqs' \subseteq reqs
      BY <2>3 DEF SaveFields, UseAdded, DropRuns, DropSampleFiles, Answer
    <3> QED
      BY <1>2, <1>4, <3>1
  <2>4. CASE DeleteRows(r)
    <3>1. reqs' \subseteq reqs
      BY <2>4 DEF DeleteRows, Answer
    <3>2. SameRows
      BY <1>1, <2>4 DEF DeleteRows, NoSample, SameRows
    <3> QED
      BY <1>4, <3>1, <3>2
  <2> QED
    BY <1>10, <1>11, <1>12, <1>13, <2>1, <2>2, <2>3, <2>4 DEF Serve
<1>14. ASSUME NEW r \in reqs, RequestDies(r) PROVE UploadsOnce'
  BY <1>2, <1>4, <1>14 DEF RequestDies, Answer
<1>15. ASSUME NEW v \in Version, NEW kind \in {"run", "optimize"}, JobCreate(kind, v) PROVE UploadsOnce'
  BY <1>2, <1>4, <1>15 DEF JobCreate
<1>16. ASSUME NEW s \in Sample, UploadFile(s) PROVE UploadsOnce'
  <2>1. PICK q : q = [Request("upload", "row", 0) EXCEPT !.s = {s}]
    OBVIOUS
  <2>2. TRUE \in BOOLEAN
    OBVIOUS
  <2>3. q.op = "upload" /\ q.pc = "row" /\ q.s = {s}
    BY <2>1, <2>2, SampleRequest
  <2>4. reqs' = reqs \cup {q} /\ samples' = samples /\ samples[s].status = "none" /\ \A r \in reqs : s \notin r.s
    BY <1>16, <2>1 DEF UploadFile, Ask
  <2> QED
    BY <2>3, <2>4 DEF UploadsOnce
<1>17. ASSUME NEW s \in Sample, DropSample(s) PROVE UploadsOnce'
  <2>1. PICK p \in BOOLEAN : p = samples[s].pages
    BY <1>1
  <2>2. PICK q : q = [Request("forget", "row", 0) EXCEPT !.s = {s}, !.pages = p]
    OBVIOUS
  <2>3. q.op = "forget" /\ q.pc = "row" /\ q.s = {s}
    BY <2>2, SampleRequest
  <2>4. reqs' = reqs \cup {q} /\ samples' = samples /\ samples'[s].status # "none"
    BY <1>17, <2>1, <2>2 DEF DropSample, Ask, Exists
  <2> QED
    BY <1>2, <2>3, <2>4, UploadsFrame
<1>18. ASSUME NEW s \in Sample, SetTruth(s) \/ ReadStep(s) \/ ReaderDies(s) PROVE UploadsOnce'
  <2>1. reqs' = reqs
    BY <1>18 DEF SetTruth, ReadStep, ReadStart, ReadDraw, ReadDone, ReadFails, ReaderDies
  <2>2. CASE SetTruth(s)
    <3>1. \A x \in Sample : samples'[x].status = samples[x].status
      BY <1>1, <2>2 DEF SetTruth
    <3> QED
      BY <1>4, <2>1, <3>1 DEF SameRows
  <2>3. CASE \E st \in {"ready", "failed"} : SetRead(s, st)
    BY <1>4, <2>1, <2>3, RowsSame
  <2>4. CASE samples' = samples
    BY <1>2, <1>4, <2>1, <2>4
  <2> QED
    BY <1>18, <2>2, <2>3, <2>4 DEF ReadStep, ReadStart, ReadDraw, ReadDone, ReadFails, ReaderDies
<1>19. ASSUME NEW j \in DOMAIN jobs, JobStep(j) \/ JobDies(j) \/ JobClose(j) \/ DropProposal(j) PROVE UploadsOnce'
  <2>1. samples' = samples /\ reqs' = reqs
    BY <1>19 DEF JobStep, JobRead, JobRun, JobFinish, JobDies, JobClose, DropProposal, JobDo
  <2> QED
    BY <1>2, <1>4, <2>1
<1> QED
  BY <1>5, <1>6, <1>7, <1>8, <1>13, <1>14, <1>15, <1>16, <1>17, <1>18, <1>19 DEF Next

(* Steps that take no files of a sample that has a row, after which only   *)
(* what was being read, or was read, is.                                   *)
LEMMA FilesFrame ==
    ASSUME FilesKept, \A r \in reqs : r.op = "delete" => r \in reqs',
           \A s \in Sample :
              /\ tasks'[s].pc # "none" => samples'[s].status # "none"
              /\ \/ files \subseteq files'
                 \/ samples'[s].status = "deleted"
              /\ (tasks'[s].pc = "read" /\ Exists(s)') \/ samples'[s].status = "ready" =>
                    (tasks[s].pc = "read" /\ Exists(s)) \/ samples[s].status = "ready"
    PROVE  FilesKept'
<1> SUFFICES ASSUME NEW s \in Sample
             PROVE  /\ tasks'[s].pc # "none" => samples'[s].status # "none"
                    /\ (tasks'[s].pc = "read" /\ Exists(s)') \/ samples'[s].status = "ready" =>
                           {Source(s), Images(s)} \subseteq files' \/ Between("delete")'
  BY DEF FilesKept, Source, Images
<1>1. Between("delete") => Between("delete")'
  BY DEF Between
<1>2. Exists(s)' <=> samples'[s].status \in {"processing", "ready", "failed"}
  BY DEF Exists
<1> QED
  BY <1>1, <1>2 DEF FilesKept

LEMMA FilesStep ==
    ASSUME Typed, UploadsOnce, FilesKept, Orderly, Next
    PROVE  FilesKept'
<1>1. /\ samples \in [Sample -> [status : {"none", "processing", "ready", "failed", "deleted"}, pages : BOOLEAN, truth : BOOLEAN]]
      /\ tasks \in [Sample -> [pc : {"none", "queued", "draw", "read"}, try : 0..MaxTry]]
      /\ reqs \subseteq Reqs /\ \A r \in reqs : r.s \subseteq Sample
  BY DEF Typed, TypeOK, Reqs
<1>2. \A s \in Sample : Exists(s)' <=> samples'[s].status \in {"processing", "ready", "failed"}
  BY DEF Exists
<1>3. \A s \in Sample : tasks[s].pc # "none" => samples[s].status # "none"
  BY DEF FilesKept
<1>4. ASSUME \A s \in Sample : samples'[s].status = samples[s].status /\ tasks'[s].pc \in {tasks[s].pc, "none"}, files' = files,
             \A r \in reqs : r.op = "delete" => r \in reqs'
      PROVE  FilesKept'
  BY <1>2, <1>3, <1>4, FilesFrame DEF Exists
<1>5. ASSUME UNCHANGED <<samples, tasks, files>>, \A r \in reqs : r.op = "delete" => r \in reqs'
      PROVE  FilesKept'
  BY <1>4, <1>5
<1>6. CASE DeleteType
  <2>1. PICK q \in Reqs : q = Request("delete", "rows", 0) /\ q.op = "delete"
    BY RequestType
  <2>2. Between("delete")'
    BY <1>6, <2>1 DEF DeleteType, Ask, Between
  <2>3. samples' = samples /\ tasks' = tasks
    BY <1>6 DEF DeleteType
  <2> QED
    BY <2>2, <2>3, <1>3 DEF FilesKept
<1>7. ASSUME NEW r \in reqs, UploadRow(r) PROVE FilesKept'
  <2>1. CASE typ.exists
    <3>1. \A x \in Sample : samples'[x].status = IF x \in r.s THEN "processing" ELSE samples[x].status
      BY <1>1, <1>7, <2>1 DEF UploadRow, NoSample
    <3>2. \A x \in r.s : samples[x].status = "none"
      BY <1>7 DEF UploadRow, UploadsOnce
    <3>3. tasks' = tasks /\ files' = files /\ \A u \in reqs : u.op = "delete" => u \in reqs'
      BY <1>7, <2>1 DEF UploadRow, Goto
    <3> QED
      BY <1>1, <1>2, <1>3, <3>1, <3>2, <3>3, FilesFrame DEF Exists
  <2>2. CASE ~typ.exists
    BY <1>5, <1>7, <2>2 DEF UploadRow, Answer
  <2> QED
    BY <2>1, <2>2
<1>8. ASSUME NEW r \in reqs, NEW ok \in BOOLEAN, UploadTask(r, ok) PROVE FilesKept'
  <2>1. files' = files /\ \A u \in reqs : u.op = "delete" => u \in reqs'
    BY <1>8 DEF UploadTask, Answer
  <2>2. CASE ok
    <3>1. \A x \in Sample : tasks'[x].pc = IF x \in r.s THEN "queued" ELSE tasks[x].pc
      BY <1>1, <1>8, <2>2 DEF UploadTask, NoTask
    <3>2. \A x \in r.s : samples[x].status # "none"
      BY <1>8 DEF UploadTask, UploadsOnce
    <3>3. samples' = samples
      BY <1>8, <2>2 DEF UploadTask
    <3> QED
      BY <1>2, <1>3, <2>1, <3>1, <3>2, <3>3, FilesFrame DEF Exists
  <2>3. CASE ~ok
    <3>1. tasks' = tasks
      BY <1>8, <2>3 DEF UploadTask
    <3>2. PICK x \in r.s : SetRead(x, "failed")
      BY <1>8, <2>3 DEF UploadTask
    <3>3. \A y \in Sample : samples'[y].status = IF y = x /\ Exists(x) THEN "failed" ELSE samples[y].status
      BY <1>1, <3>2, SetReadStatus
    <3> QED
      BY <1>2, <1>3, <2>1, <3>1, <3>3, FilesFrame DEF Exists
  <2> QED
    BY <2>2, <2>3
<1>9. ASSUME NEW r \in reqs, DropSampleRow(r) PROVE FilesKept'
  <2>1. CASE \E x \in r.s : Exists(x)
    <3>1. \A x \in Sample : samples'[x].status = IF x \in r.s THEN "deleted" ELSE samples[x].status
      BY <1>1, <1>9, <2>1 DEF DropSampleRow, NoSample
    <3>2. tasks' = tasks /\ files' = files /\ \A u \in reqs : u.op = "delete" => u \in reqs'
      BY <1>9, <2>1 DEF DropSampleRow, Goto
    <3> QED
      BY <1>2, <1>3, <3>1, <3>2, FilesFrame DEF Exists
  <2>2. CASE ~(\E x \in r.s : Exists(x))
    BY <1>5, <1>9, <2>2 DEF DropSampleRow, Answer
  <2> QED
    BY <2>1, <2>2
<1>10. ASSUME NEW r \in reqs, DropSampleFiles(r) PROVE FilesKept'
  <2>1. \A x \in r.s : samples[x].status = "deleted"
    BY <1>10 DEF DropSampleFiles, UploadsOnce
  <2>2. samples' = samples /\ tasks' = tasks /\ \A u \in reqs : u.op = "delete" => u \in reqs'
    BY <1>10 DEF DropSampleFiles, Answer
  <2>3. \A x \in Sample : x \notin r.s =>
           (Source(x) \in files => Source(x) \in files') /\ (Images(x) \in files => Images(x) \in files')
    <3> SUFFICES ASSUME NEW x \in Sample, x \notin r.s, NEW o \in {Source(x), Images(x)}, o \in files PROVE o \in files'
      OBVIOUS
    <3>1. \A y \in r.s : o # Source(y) /\ o # Images(y)
      BY DEF Source, Images
    <3>2. o \notin UNION {{Source(y)} \cup IF r.pages THEN {Images(y)} ELSE {} : y \in r.s}
      BY <3>1
    <3> QED
      BY <1>10, <3>2 DEF DropSampleFiles
  <2>4. Between("delete") => Between("delete")'
    BY <2>2 DEF Between
  <2> QED
    BY <1>2, <2>1, <2>2, <2>3, <2>4 DEF FilesKept, Exists
<1>11. ASSUME NEW r \in reqs, DeleteRows(r) PROVE FilesKept'
  <2>1. \A x \in Sample : samples'[x].status = IF samples[x].status = "none" THEN "none" ELSE "deleted"
    BY <1>1, <1>11 DEF DeleteRows, NoSample
  <2>2. tasks' = tasks
    BY <1>11 DEF DeleteRows
  <2> QED
    BY <1>2, <1>3, <2>1, <2>2 DEF FilesKept
<1>12. ASSUME NEW r \in reqs, Serve(r) PROVE FilesKept'
  <2>1. CASE SaveFirst(r) \/ SaveFields(r) \/ UseAdded(r) \/ DropVersion(r) \/ DropRuns(r)
    <3>1. UNCHANGED <<samples, tasks, files>> /\ r.op # "delete" /\ \A u \in reqs : u # r => u \in reqs'
      BY <2>1 DEF SaveFirst, SaveFields, UseAdded, DropVersion, DropRuns, Answer, Goto
    <3> QED
      BY <1>5, <3>1
  <2> QED
    BY <1>7, <1>8, <1>9, <1>10, <1>11, <1>12, <2>1 DEF Serve
<1>13. ASSUME NEW r \in reqs, RequestDies(r) PROVE FilesKept'
  BY <1>5, <1>13 DEF RequestDies, Answer
<1>14. ASSUME NEW s \in Sample, UploadFile(s) PROVE FilesKept'
  <2>1. samples' = samples /\ tasks' = tasks /\ files \subseteq files' /\ reqs \subseteq reqs'
    BY <1>14 DEF UploadFile, Ask
  <2> QED
    BY <1>2, <1>3, <2>1, FilesFrame DEF Exists
<1>15. ASSUME NEW s \in Sample, SetTruth(s) PROVE FilesKept'
  <2>1. \A x \in Sample : samples'[x].status = samples[x].status
    BY <1>1, <1>15 DEF SetTruth
  <2> QED
    BY <1>4, <1>15, <2>1 DEF SetTruth
<1>16. ASSUME NEW s \in Sample, DropSample(s) PROVE FilesKept'
  BY <1>5, <1>16 DEF DropSample, Ask
<1>17. ASSUME NEW s \in Sample, ReadStart(s) PROVE FilesKept'
  <2>1. \A x \in Sample : tasks'[x].pc = IF x = s THEN IF samples[s].status = "processing" THEN "draw" ELSE "none" ELSE tasks[x].pc
    BY <1>1, <1>17 DEF ReadStart, NoTask
  <2>2. samples' = samples /\ files' = files /\ reqs' = reqs
    BY <1>17 DEF ReadStart
  <2> QED
    BY <1>2, <1>3, <2>1, <2>2, FilesFrame DEF Exists
<1>18. ASSUME NEW s \in Sample, ReadDraw(s) PROVE FilesKept'
  <2>1. \A x \in Sample : tasks'[x].pc = IF x = s THEN "read" ELSE tasks[x].pc
    BY <1>1, <1>18 DEF ReadDraw
  <2>2. samples' = samples /\ files \subseteq files' /\ {Source(s), Images(s)} \subseteq files' /\ reqs' = reqs /\ tasks[s].pc = "draw"
    BY <1>18 DEF ReadDraw
  <2>3. Between("delete") => Between("delete")'
    BY <2>2 DEF Between
  <2> QED
    BY <1>2, <2>1, <2>2, <2>3 DEF FilesKept, Exists
<1>19. ASSUME NEW s \in Sample, ReadDone(s) PROVE FilesKept'
  <2>1. \A x \in Sample : tasks'[x].pc = IF x = s THEN "none" ELSE tasks[x].pc
    BY <1>1, <1>19 DEF ReadDone, NoTask
  <2>2. files' = files /\ reqs' = reqs /\ tasks[s].pc = "read"
    BY <1>19 DEF ReadDone
  <2>3. \A x \in Sample : samples'[x].status = IF x = s /\ Exists(s) THEN "ready" ELSE samples[x].status
    BY <1>19, SetReadStatus DEF ReadDone
  <2> QED
    BY <1>2, <1>3, <2>1, <2>2, <2>3, FilesFrame DEF Exists
<1>20. ASSUME NEW s \in Sample, NEW final \in BOOLEAN, ReadFails(s, final) PROVE FilesKept'
  <2>1. \A x \in Sample : tasks'[x].pc = IF x = s THEN IF final THEN "none" ELSE "queued" ELSE tasks[x].pc
    <3>1. CASE final
      BY <1>1, <1>20, <3>1 DEF ReadFails, NoTask
    <3>2. CASE ~final
      <4>1. PICK q : q = [NoTask EXCEPT !.pc = "queued", !.try = tasks[s].try + 1]
        OBVIOUS
      <4>2. q.pc = "queued"
        BY <4>1 DEF NoTask
      <4>3. tasks' = [tasks EXCEPT ![s] = q]
        BY <1>20, <3>2, <4>1 DEF ReadFails
      <4> QED
        BY <1>1, <3>2, <4>2, <4>3
    <3> QED
      BY <3>1, <3>2
  <2>2. files' = files /\ reqs' = reqs /\ tasks[s].pc # "none"
    BY <1>20 DEF ReadFails
  <2>3. CASE final
    <3>1. \A x \in Sample : samples'[x].status = IF x = s /\ Exists(s) THEN "failed" ELSE samples[x].status
      BY <1>20, <2>3, SetReadStatus DEF ReadFails
    <3> QED
      BY <1>2, <1>3, <2>1, <2>2, <2>3, <3>1, FilesFrame DEF Exists
  <2>4. CASE ~final
    <3>1. samples' = samples
      BY <1>20, <2>4 DEF ReadFails
    <3> QED
      BY <1>2, <1>3, <2>1, <2>2, <2>4, <3>1, FilesFrame DEF Exists
  <2> QED
    BY <2>3, <2>4
<1>21. ASSUME NEW s \in Sample, ReaderDies(s) PROVE FilesKept'
  <2>1. \A x \in Sample : tasks'[x].pc = IF x = s THEN IF tasks[s].try = MaxTry THEN "none" ELSE "queued" ELSE tasks[x].pc
    BY <1>1, <1>21 DEF ReaderDies, NoTask
  <2>2. samples' = samples /\ files' = files /\ reqs' = reqs /\ tasks[s].pc # "none"
    BY <1>21 DEF ReaderDies
  <2> QED
    BY <1>2, <1>3, <2>1, <2>2, FilesFrame DEF Exists
<1>22. ASSUME NEW fields \in {0} \cup Edition, SaveType(fields) PROVE FilesKept'
  BY <1>5, <1>22 DEF SaveType
<1>23. ASSUME NEW fields \in 1..used.fields, NEW use \in BOOLEAN, AddPrompt(fields, use) PROVE FilesKept'
  BY <1>5, <1>23 DEF AddPrompt
<1>24. ASSUME NEW v \in Version, SetCurrent(v) \/ DropCheck(v) PROVE FilesKept'
  BY <1>5, <1>24 DEF SetCurrent, DropCheck, Ask
<1>25. ASSUME NEW v \in Version, NEW kind \in {"run", "optimize"}, JobCreate(kind, v) PROVE FilesKept'
  BY <1>5, <1>25 DEF JobCreate
<1>26. ASSUME NEW j \in DOMAIN jobs, JobStep(j) \/ JobDies(j) \/ JobClose(j) \/ DropProposal(j) PROVE FilesKept'
  <2>1. UNCHANGED <<samples, tasks, files>> /\ reqs' = reqs
    BY <1>26 DEF JobStep, JobRead, JobRun, JobFinish, JobDies, JobClose, DropProposal, JobDo
  <2> QED
    BY <1>5, <2>1
<1> QED
  BY <1>6, <1>12, <1>13, <1>14, <1>15, <1>16, <1>17, <1>18, <1>19, <1>20, <1>21, <1>22, <1>23, <1>24, <1>25, <1>26 DEF Next, ReadStep

-----------------------------------------------------------------------------
(* Runs.                                                                   *)

(* The runs of a version that some request is about to delete.             *)
Going(v) == \E r \in reqs : r.op = "drop" /\ r.pc = "runs" /\ r.v = v
RunOf(s, v) == runs[s][v] = 0 \/ (v \in Versions /\ runs[s][v] = prompts[v].text) \/ Going(v)
Given(j) == \A s \in jobs[j].left :
                /\ samples[s].status # "none"
                /\ jobs[j].pc = "run" /\ Exists(s) => jobs[j].v \in Versions /\ jobs[j].text = prompts[jobs[j].v].text

LEMMA RunParts == RunInv <=> (\A s \in Sample, v \in Version : RunOf(s, v)) /\ \A j \in DOMAIN jobs : Given(j)
BY DEF RunInv, RunOf, Going, Given

LEMMA JobLeft == ASSUME Typed, NEW j \in DOMAIN jobs PROVE jobs[j] \in Job /\ jobs[j].left \subseteq Sample
BY JobType DEF Job

(* What was scored stays so while versions keep their instructions and no  *)
(* deletion of runs is given up.                                           *)
LEMMA RunsFrame ==
    ASSUME Typed, \A s \in Sample, v \in Version : RunOf(s, v), runs' = runs,
           \A r \in reqs : r.op = "drop" /\ r.pc = "runs" => r \in reqs',
           \A v \in Versions : v \in Versions' /\ prompts'[v].text = prompts[v].text
    PROVE  \A s \in Sample, v \in Version : RunOf(s, v)'
<1> SUFFICES ASSUME NEW s \in Sample, NEW v \in Version PROVE RunOf(s, v)'
  OBVIOUS
<1>1. RunOf(s, v)
  OBVIOUS
<1>2. Going(v) => Going(v)'
  BY DEF Going
<1> QED
  BY <1>1, <1>2 DEF RunOf

LEMMA JobsFrame ==
    ASSUME Typed, \A j \in DOMAIN jobs : Given(j), jobs' = jobs,
           \A s \in Sample : samples[s].status # "none" =>
               samples'[s].status # "none" /\ (Exists(s)' => Exists(s)),
           \A v \in Versions : v \in Versions' /\ prompts'[v].text = prompts[v].text
    PROVE  \A j \in DOMAIN jobs' : Given(j)'
<1> SUFFICES ASSUME NEW j \in DOMAIN jobs PROVE Given(j)'
  OBVIOUS
<1>1. jobs[j].left \subseteq Sample
  BY JobLeft
<1> QED
  BY <1>1 DEF Given

(* Steps that touch neither.                                               *)
LEMMA RunFrame ==
    ASSUME Typed, RunInv, UNCHANGED <<runs, jobs>>,
           \A r \in reqs : r.op = "drop" /\ r.pc = "runs" => r \in reqs',
           \A s \in Sample : samples[s].status # "none" =>
               samples'[s].status # "none" /\ (Exists(s)' => Exists(s)),
           \A v \in Versions : v \in Versions' /\ prompts'[v].text = prompts[v].text
    PROVE  RunInv'
<1>1. (\A s \in Sample, v \in Version : RunOf(s, v)) /\ \A j \in DOMAIN jobs : Given(j)
  BY RunParts
<1>2. (\A s \in Sample, v \in Version : RunOf(s, v)') /\ \A j \in DOMAIN jobs' : Given(j)'
  BY <1>1, RunsFrame, JobsFrame
<1> QED
  BY <1>2 DEF RunInv, RunOf, Going, Given

LEMMA RunPartsPrime ==
    ASSUME \A s \in Sample, v \in Version : RunOf(s, v)', \A j \in DOMAIN jobs' : Given(j)'
    PROVE  RunInv'
BY DEF RunInv, RunOf, Going, Given

(* A version that nobody runs is deleted, and its runs are to go.          *)
LEMMA DropKeeps ==
    ASSUME Typed, RunInv, Orderly, NEW r \in reqs, DropVersion(r)
    PROVE  RunInv'
<1>1. reqs \subseteq Reqs /\ prompts \in [Version -> [text : {0} \cup Edition, fields : {0} \cup Edition]]
  BY DEF Typed, TypeOK
<1>2. UNCHANGED <<runs, jobs, samples>> /\ r.op = "drop" /\ r.pc = "version"
  BY DEF DropVersion
<1>3. CASE typ.exists /\ r.v \in Versions /\ r.v # typ.cur
  <2>1. PICK q : q = [r EXCEPT !.pc = "runs"]
    OBVIOUS
  <2>2. q.op = "drop" /\ q.pc = "runs" /\ q.v = r.v /\ reqs' = (reqs \ {r}) \cup {q}
    BY <1>1, <1>2, <1>3, <2>1 DEF DropVersion, Goto, Reqs
  <2>3. prompts' = [prompts EXCEPT ![r.v] = NoPrompt]
    BY <1>3 DEF DropVersion
  <2>4. \A v \in Versions : v # r.v => v \in Versions' /\ prompts'[v] = prompts[v]
    BY <1>1, <2>3 DEF Versions
  <2>5. \A v : v = r.v \/ Going(v) => Going(v)'
    BY <1>2, <2>2 DEF Going
  <2>6. \A s \in Sample, v \in Version : RunOf(s, v)'
    BY <1>2, <2>4, <2>5, RunParts DEF RunOf
  <2>7. \A j \in DOMAIN jobs' : Given(j)'
    <3> SUFFICES ASSUME NEW j \in DOMAIN jobs PROVE Given(j)'
      BY <1>2
    <3>1. Given(j) /\ jobs' = jobs /\ samples' = samples
      BY <1>2, RunParts
    <3>2. jobs[j].pc = "run" => jobs[j].v # r.v
      BY DEF DropVersion, Undisturbed, Busy
    <3>3. \A s : Exists(s)' <=> Exists(s)
      BY <3>1 DEF Exists
    <3> QED
      BY <2>4, <3>1, <3>2, <3>3 DEF Given
  <2> QED
    BY <2>6, <2>7, RunPartsPrime
<1>4. CASE ~(typ.exists /\ r.v \in Versions /\ r.v # typ.cur)
  <2>1. prompts' = prompts /\ reqs' = reqs \ {r}
    BY <1>4 DEF DropVersion, Answer
  <2>2. Versions' = Versions /\ \A s : Exists(s)' <=> Exists(s)
    BY <1>2, <2>1 DEF Versions, Exists
  <2> QED
    BY <1>2, <2>1, <2>2, RunFrame
<1> QED
  BY <1>3, <1>4

LEMMA JobKeeps ==
    ASSUME Typed, RunInv, NEW j \in DOMAIN jobs, JobStep(j) \/ JobDies(j) \/ JobClose(j) \/ DropProposal(j)
    PROVE  RunInv'
<1>1. UNCHANGED <<prompts, samples, reqs>> /\ Versions' = Versions /\ \A s : Exists(s)' <=> Exists(s)
  BY DEF JobStep, JobRead, JobRun, JobFinish, JobDies, JobClose, DropProposal, JobDo, Versions, Exists
<1>2. \A v : Going(v)' <=> Going(v)
  BY <1>1 DEF Going
<1>3. PICK q \in Job :
         /\ jobs' = [jobs EXCEPT ![j] = q]
         /\ q.v = jobs[j].v /\ q.left \subseteq jobs[j].left
         /\ q.pc = "run" => \/ jobs[j].pc = "run" /\ q.text = jobs[j].text
                            \/ q.left = {}
                            \/ q.v \in Versions /\ q.text = prompts[q.v].text
  BY JobSteps
<1>4. DOMAIN jobs' = DOMAIN jobs /\ jobs'[j] = q /\ \A k \in DOMAIN jobs : k # j => jobs'[k] = jobs[k]
  BY <1>3, JobsChange
<1>5. ASSUME NEW k \in DOMAIN jobs' PROVE Given(k)'
  <2>1. Given(k) /\ k \in DOMAIN jobs
    BY <1>4, RunParts
  <2>2. CASE k = j
    BY <1>1, <1>3, <1>4, <2>1, <2>2 DEF Given
  <2>3. CASE k # j
    BY <1>1, <1>4, <2>1, <2>3 DEF Given
  <2> QED
    BY <2>2, <2>3
<1>6. ASSUME NEW s \in Sample, NEW v \in Version PROVE RunOf(s, v)'
  <2>1. RunOf(s, v)
    BY RunParts
  <2>2. CASE runs' = runs
    BY <1>1, <1>2, <2>1, <2>2 DEF RunOf
  <2>3. CASE runs' # runs
    <3>1. PICK x \in Sample, ok \in BOOLEAN : JobRun(j, x, ok) /\ ok /\ Exists(x)
      BY <2>3 DEF JobStep, JobRead, JobRun, JobFinish, JobDies, JobClose, DropProposal
    <3>2. runs' = [runs EXCEPT ![x][jobs[j].v] = jobs[j].text] /\ jobs[j].pc = "run" /\ x \in jobs[j].left
      BY <3>1 DEF JobRun
    <3>3. jobs[j].v \in Versions /\ jobs[j].text = prompts[jobs[j].v].text
      BY <3>1, <3>2, RunParts DEF Given
    <3>4. runs \in [Sample -> [Version -> {0} \cup Edition]]
      BY DEF Typed, TypeOK
    <3>5. runs'[s][v] = IF s = x /\ v = jobs[j].v THEN jobs[j].text ELSE runs[s][v]
      BY <3>2, <3>4
    <3> QED
      BY <1>1, <1>2, <2>1, <3>3, <3>5 DEF RunOf
  <2> QED
    BY <2>2, <2>3
<1> QED
  BY <1>5, <1>6, RunPartsPrime

LEMMA RunStep ==
    ASSUME Typed, VersionInv, UploadsOnce, RunInv, Orderly, Next
    PROVE  RunInv'
<1>1. /\ samples \in [Sample -> [status : {"none", "processing", "ready", "failed", "deleted"}, pages : BOOLEAN, truth : BOOLEAN]]
      /\ prompts \in [Version -> [text : {0} \cup Edition, fields : {0} \cup Edition]]
      /\ runs \in [Sample -> [Version -> {0} \cup Edition]]
      /\ reqs \subseteq Reqs /\ \A r \in reqs : r.s \subseteq Sample
  BY DEF Typed, TypeOK, Reqs
<1>2. samples' = samples => \A s \in Sample : samples[s].status # "none" => samples'[s].status # "none" /\ (Exists(s)' => Exists(s))
  BY DEF Exists
<1>3. prompts' = prompts => \A v \in Versions : v \in Versions' /\ prompts'[v].text = prompts[v].text
  BY DEF Versions
<1>4. ASSUME UNCHANGED <<runs, jobs, samples, prompts>>, \A r \in reqs : r.op = "drop" /\ r.pc = "runs" => r \in reqs'
      PROVE  RunInv'
  BY <1>2, <1>3, <1>4, RunFrame
<1>5. ASSUME UNCHANGED <<runs, jobs, prompts>>, \A r \in reqs : r.op = "drop" /\ r.pc = "runs" => r \in reqs',
             \A s \in Sample : samples[s].status # "none" => samples'[s].status # "none" /\ (Exists(s)' => Exists(s))
      PROVE  RunInv'
  BY <1>3, <1>5, RunFrame
<1>6. ASSUME UNCHANGED <<runs, jobs, samples>>, \A r \in reqs : r.op = "drop" /\ r.pc = "runs" => r \in reqs',
             \A v \in Versions : v \in Versions' /\ prompts'[v].text = prompts[v].text
      PROVE  RunInv'
  BY <1>2, <1>6, RunFrame
<1>7. ASSUME NEW s \in Sample, NEW st \in {"ready", "failed"}, SetRead(s, st)
      PROVE  \A x \in Sample : samples[x].status # "none" => samples'[x].status # "none" /\ (Exists(x)' => Exists(x))
  <2>1. \A x \in Sample : samples'[x].status = IF x = s /\ Exists(s) THEN st ELSE samples[x].status
    BY <1>7, SetReadStatus
  <2> QED
    BY <2>1 DEF Exists
<1>8. ASSUME NEW r \in reqs, SaveFirst(r) PROVE RunInv'
  <2>1. UNCHANGED <<runs, jobs, samples>> /\ \A u \in reqs : u.op = "drop" /\ u.pc = "runs" => u \in reqs'
    BY <1>8 DEF SaveFirst, Answer, Goto
  <2>2. \A v \in Versions : v \in Versions' /\ prompts'[v].text = prompts[v].text
    <3>1. CASE typ.exists /\ prompts[1] = NoPrompt
      <4>1. PICK x : prompts' = [prompts EXCEPT ![1] = x]
        BY <1>8, <3>1 DEF SaveFirst
      <4>2. \A v \in Versions : v # 1 /\ prompts'[v] = prompts[v]
        BY <1>1, <3>1, <4>1 DEF Versions
      <4> QED
        BY <4>2 DEF Versions
    <3>2. CASE ~(typ.exists /\ prompts[1] = NoPrompt)
      BY <1>3, <1>8, <3>2 DEF SaveFirst
    <3> QED
      BY <3>1, <3>2
  <2> QED
    BY <1>6, <2>1, <2>2
<1>9. ASSUME NEW r \in reqs, SaveFields(r) PROVE RunInv'
  <2>1. UNCHANGED <<runs, jobs, samples>> /\ \A u \in reqs : u.op = "drop" /\ u.pc = "runs" => u \in reqs'
    BY <1>9 DEF SaveFields, Answer
  <2>2. \A v \in Versions : v \in Versions' /\ prompts'[v].text = prompts[v].text
    <3>1. CASE typ.exists /\ typ.cur \in Versions
      <4>1. prompts' = [prompts EXCEPT ![typ.cur].fields = typ.fields]
        BY <1>9, <3>1 DEF SaveFields
      <4>2. \A v \in Version : prompts'[v].text = prompts[v].text
        BY <1>1, <4>1
      <4>3. \A v \in Versions : prompts[v].text # 0
        BY DEF VersionInv
      <4>4. \A v \in Versions : v \in Version
        BY DEF Versions
      <4>5. \A v \in Versions : prompts'[v] # NoPrompt
        BY <4>2, <4>3, <4>4 DEF NoPrompt
      <4> QED
        BY <4>2, <4>4, <4>5 DEF Versions
    <3>2. CASE ~(typ.exists /\ typ.cur \in Versions)
      BY <1>3, <1>9, <3>2 DEF SaveFields
    <3> QED
      BY <3>1, <3>2
  <2> QED
    BY <1>6, <2>1, <2>2
<1>10. ASSUME NEW fields \in 1..used.fields, NEW use \in BOOLEAN, AddPrompt(fields, use) PROVE RunInv'
  <2>1. PICK v : v = 1 + CHOOSE n \in Versions : \A m \in Versions : m <= n
    OBVIOUS
  <2>2. v \notin Versions
    BY <1>10, <2>1, NewNumber DEF AddPrompt
  <2>3. PICK x : prompts' = [prompts EXCEPT ![v] = x]
    BY <1>10, <2>1 DEF AddPrompt
  <2>4. \A w \in Versions : w \in Version /\ w # v /\ prompts'[w] = prompts[w]
    BY <1>1, <2>2, <2>3 DEF Versions
  <2>5. \A w \in Versions : w \in Versions' /\ prompts'[w].text = prompts[w].text
    BY <2>4 DEF Versions
  <2>6. UNCHANGED <<runs, jobs, samples>> /\ reqs \subseteq reqs'
    BY <1>10 DEF AddPrompt
  <2> QED
    BY <1>6, <2>5, <2>6
<1>11. ASSUME NEW r \in reqs, UploadRow(r) PROVE RunInv'
  <2>1. CASE typ.exists
    <3>1. \A x \in Sample : samples'[x].status = IF x \in r.s THEN "processing" ELSE samples[x].status
      BY <1>1, <1>11, <2>1 DEF UploadRow, NoSample
    <3>2. \A x \in r.s : samples[x].status = "none"
      BY <1>11 DEF UploadRow, UploadsOnce
    <3>3. UNCHANGED <<runs, jobs, prompts>> /\ \A u \in reqs : u.op = "drop" => u \in reqs'
      BY <1>11, <2>1 DEF UploadRow, Goto
    <3>4. \A s \in Sample : samples[s].status # "none" => samples'[s].status # "none" /\ (Exists(s)' => Exists(s))
      BY <3>1, <3>2 DEF Exists
    <3> QED
      BY <1>5, <3>3, <3>4
  <2>2. CASE ~typ.exists
    BY <1>4, <1>11, <2>2 DEF UploadRow, Answer
  <2> QED
    BY <2>1, <2>2
<1>12. ASSUME NEW r \in reqs, NEW ok \in BOOLEAN, UploadTask(r, ok) PROVE RunInv'
  <2>1. UNCHANGED <<runs, jobs, prompts>> /\ \A u \in reqs : u.op = "drop" => u \in reqs'
    BY <1>12 DEF UploadTask, Answer
  <2>2. CASE ok
    BY <1>2, <1>5, <1>12, <2>1, <2>2 DEF UploadTask
  <2>3. CASE ~ok
    <3>1. PICK x \in r.s : SetRead(x, "failed")
      BY <1>12, <2>3 DEF UploadTask
    <3> QED
      BY <1>1, <1>5, <1>7, <2>1, <3>1
  <2> QED
    BY <2>2, <2>3
<1>13. ASSUME NEW r \in reqs, DropSampleRow(r) PROVE RunInv'
  <2>1. CASE \E x \in r.s : Exists(x)
    <3>1. \A x \in Sample : samples'[x].status = IF x \in r.s THEN "deleted" ELSE samples[x].status
      BY <1>1, <1>13, <2>1 DEF DropSampleRow, NoSample
    <3>2. UNCHANGED <<jobs, prompts>> /\ \A u \in reqs : u.op = "drop" => u \in reqs'
      BY <1>13, <2>1 DEF DropSampleRow, Goto
    <3>3. \A s \in Sample : samples[s].status # "none" => samples'[s].status # "none" /\ (Exists(s)' => Exists(s))
      BY <3>1 DEF Exists
    <3>4. \A s \in Sample, v \in Version : runs'[s][v] = 0 \/ runs'[s][v] = runs[s][v]
      <4>1. runs' = [x \in Sample |-> IF x \in r.s THEN NoRuns ELSE runs[x]]
        BY <1>13, <2>1 DEF DropSampleRow
      <4>2. \A v \in Version : NoRuns[v] = 0
        BY DEF NoRuns
      <4> QED
        BY <4>1, <4>2
    <3>5. \A s \in Sample, v \in Version : RunOf(s, v)'
      <4> SUFFICES ASSUME NEW s \in Sample, NEW v \in Version PROVE RunOf(s, v)'
        OBVIOUS
      <4>1. RunOf(s, v) /\ (Going(v) => Going(v)')
        BY <3>2, RunParts DEF Going
      <4> QED
        BY <1>3, <3>2, <3>4, <4>1 DEF RunOf
    <3>6. \A j \in DOMAIN jobs' : Given(j)'
      BY <1>3, <3>2, <3>3, RunParts, JobsFrame
    <3> QED
      BY <3>5, <3>6, RunPartsPrime
  <2>2. CASE ~(\E x \in r.s : Exists(x))
    BY <1>4, <1>13, <2>2 DEF DropSampleRow, Answer
  <2> QED
    BY <2>1, <2>2
<1>14. ASSUME NEW r \in reqs, DropRuns(r) PROVE RunInv'
  <2>1. UNCHANGED <<jobs, prompts, samples>> /\ r.op = "drop" /\ reqs' = reqs \ {r}
    BY <1>14 DEF DropRuns, Answer
  <2>2. \A s \in Sample, v \in Version : runs'[s][v] = IF v = r.v THEN 0 ELSE runs[s][v]
    BY <1>1, <1>14 DEF DropRuns
  <2>3. \A s \in Sample, v \in Version : RunOf(s, v)'
    <3> SUFFICES ASSUME NEW s \in Sample, NEW v \in Version PROVE RunOf(s, v)'
      OBVIOUS
    <3>1. RunOf(s, v) /\ (Going(v) /\ v # r.v => Going(v)')
      BY <2>1, RunParts DEF Going
    <3> QED
      BY <1>3, <2>1, <2>2, <3>1 DEF RunOf
  <2>4. \A j \in DOMAIN jobs' : Given(j)'
    BY <1>2, <1>3, <2>1, RunParts, JobsFrame
  <2> QED
    BY <2>3, <2>4, RunPartsPrime
<1>15. ASSUME NEW r \in reqs, DeleteRows(r) PROVE RunInv'
  <2>1. \A x \in Sample : samples'[x].status = IF samples[x].status = "none" THEN "none" ELSE "deleted"
    BY <1>1, <1>15 DEF DeleteRows, NoSample
  <2>2. \A s \in Sample, v \in Version : runs'[s][v] = 0
    BY <1>15 DEF DeleteRows, NoRuns
  <2>3. ASSUME NEW j \in DOMAIN jobs' PROVE Given(j)'
    <3>1. j \in DOMAIN jobs /\ jobs'[j] = [jobs[j] EXCEPT !.status = "gone"]
      BY <1>15 DEF DeleteRows
    <3>2. PICK q : q = [jobs[j] EXCEPT !.status = "gone"]
      OBVIOUS
    <3>3. q.left = jobs[j].left /\ jobs'[j] = q /\ jobs[j].left \subseteq Sample
      BY <3>1, <3>2, JobLeft DEF Job
    <3>4. \A x \in jobs[j].left : samples[x].status # "none"
      BY <3>1, RunParts DEF Given
    <3>5. \A x \in jobs[j].left : samples'[x].status = "deleted"
      BY <2>1, <3>3, <3>4
    <3> QED
      BY <3>3, <3>5 DEF Given, Exists
  <2>4. \A s \in Sample, v \in Version : RunOf(s, v)'
    BY <2>2 DEF RunOf
  <2> QED
    BY <2>3, <2>4, RunPartsPrime
<1>16. ASSUME NEW r \in reqs, Serve(r) PROVE RunInv'
  <2>1. CASE UseAdded(r) \/ DropSampleFiles(r)
    <3>1. UNCHANGED <<runs, jobs, samples, prompts>> /\ r.op # "drop" /\ reqs' = reqs \ {r}
      BY <1>1, <2>1 DEF UseAdded, DropSampleFiles, Answer
    <3> QED
      BY <1>4, <3>1
  <2> QED
    BY <1>8, <1>9, <1>11, <1>12, <1>13, <1>14, <1>15, <1>16, <2>1, DropKeeps DEF Serve
<1>17. ASSUME NEW r \in reqs, RequestDies(r) PROVE RunInv'
  BY <1>4, <1>17 DEF RequestDies, Answer
<1>18. ASSUME NEW v \in Version, NEW kind \in {"run", "optimize"}, JobCreate(kind, v) PROVE RunInv'
  <2>1. UNCHANGED <<prompts, samples, reqs, runs>>
    BY <1>18 DEF JobCreate
  <2>2. PICK q : q = [kind |-> kind, v |-> v, text |-> 0, left |-> Ready(kind), status |-> "running", failed |-> FALSE, pc |-> "read"]
    OBVIOUS
  <2>3. jobs' = Append(jobs, q) /\ q.pc = "read" /\ \A s \in q.left : samples[s].status = "ready"
    BY <1>18, <2>2 DEF JobCreate, Ready
  <2>4. jobs \in Seq(Job)
    BY DEF Typed
  <2>5. \A j \in DOMAIN jobs' : (j \in DOMAIN jobs /\ jobs'[j] = jobs[j]) \/ jobs'[j] = q
    BY <2>3, <2>4
  <2>6. \A s \in Sample, v1 \in Version : RunOf(s, v1)'
    BY <1>3, <2>1, RunParts, RunsFrame
  <2>7. ASSUME NEW j \in DOMAIN jobs' PROVE Given(j)'
    <3>1. CASE jobs'[j] = q
      BY <2>1, <2>3, <3>1 DEF Given
    <3>2. CASE j \in DOMAIN jobs /\ jobs'[j] = jobs[j]
      <4>1. Given(j)
        BY <3>2, RunParts
      <4> QED
        BY <1>3, <2>1, <3>2, <4>1 DEF Given, Exists
    <3> QED
      BY <2>5, <3>1, <3>2
  <2> QED
    BY <2>6, <2>7, RunPartsPrime
<1>19. ASSUME NEW s \in Sample, UploadFile(s) \/ DropSample(s) PROVE RunInv'
  BY <1>4, <1>19 DEF UploadFile, DropSample, Ask
<1>20. ASSUME NEW s \in Sample, SetTruth(s) \/ ReadStep(s) \/ ReaderDies(s) PROVE RunInv'
  <2>1. UNCHANGED <<runs, jobs, prompts>> /\ reqs' = reqs
    BY <1>20 DEF SetTruth, ReadStep, ReadStart, ReadDraw, ReadDone, ReadFails, ReaderDies
  <2>2. CASE SetTruth(s)
    <3>1. \A x \in Sample : samples'[x].status = samples[x].status
      BY <1>1, <2>2 DEF SetTruth
    <3> QED
      BY <1>5, <2>1, <3>1 DEF Exists
  <2>3. CASE \E st \in {"ready", "failed"} : SetRead(s, st)
    BY <1>5, <1>7, <2>1, <2>3
  <2>4. CASE samples' = samples
    BY <1>4, <2>1, <2>4
  <2> QED
    BY <1>20, <2>2, <2>3, <2>4 DEF ReadStep, ReadStart, ReadDraw, ReadDone, ReadFails, ReaderDies
<1>21. ASSUME NEW fields \in {0} \cup Edition, SaveType(fields) PROVE RunInv'
  BY <1>4, <1>21 DEF SaveType
<1>22. ASSUME NEW v \in Version, SetCurrent(v) \/ DropCheck(v) PROVE RunInv'
  BY <1>4, <1>22 DEF SetCurrent, DropCheck, Ask
<1>23. CASE DeleteType
  BY <1>4, <1>23 DEF DeleteType, Ask
<1> QED
  BY <1>10, <1>16, <1>17, <1>18, <1>19, <1>20, <1>21, <1>22, <1>23, JobKeeps DEF Next

-----------------------------------------------------------------------------
(* Every step keeps the types, whatever overlaps.                          *)

LEMMA TypedParts ==
    Typed <=>
        /\ typ \in [exists : BOOLEAN, cur : {0} \cup Version, fields : {0} \cup Edition]
        /\ prompts \in [Version -> [text : {0} \cup Edition, fields : {0} \cup Edition]]
        /\ samples \in [Sample -> [status : {"none", "processing", "ready", "failed", "deleted"}, pages : BOOLEAN, truth : BOOLEAN]]
        /\ runs \in [Sample -> [Version -> {0} \cup Edition]]
        /\ files \subseteq Sample \X {"source", "images"}
        /\ tasks \in [Sample -> [pc : {"none", "queued", "draw", "read"}, try : 0..MaxTry]]
        /\ Len(jobs) <= MaxJob /\ jobs \in Seq(Job) /\ reqs \subseteq Reqs /\ used \in Used
BY DEF Typed, TypeOK

LEMMA SpendType ==
    ASSUME Typed, NEW bound \in {"req", "crash", "text"}, Spend(bound)
    PROVE  used' \in Used
BY DEF Typed, Used, Spend

LEMMA AskType ==
    ASSUME Typed, NEW q \in Reqs, Ask(q)
    PROVE  reqs' \subseteq Reqs /\ used' \in Used
BY SpendType DEF Ask, Typed

LEMMA UseType ==
    ASSUME Typed, NEW v, Use(v)
    PROVE  typ' \in [exists : BOOLEAN, cur : {0} \cup Version, fields : {0} \cup Edition]
<1>1. typ \in [exists : BOOLEAN, cur : {0} \cup Version, fields : {0} \cup Edition]
  BY TypedParts
<1>2. CASE typ.exists /\ v \in Versions
  <2>1. PICK f : f = prompts[v].fields
    OBVIOUS
  <2>2. f \in {0} \cup Edition /\ v \in Version
    BY <1>2, <2>1 DEF Typed, TypeOK, Versions
  <2>3. typ' = [typ EXCEPT !.cur = v, !.fields = f]
    BY <1>2, <2>1 DEF Use
  <2> QED
    BY <1>1, <2>2, <2>3
<1>3. CASE ~(typ.exists /\ v \in Versions)
  BY <1>1, <1>3 DEF Use
<1> QED
  BY <1>2, <1>3

LEMMA PromptType ==
    ASSUME Typed, NEW v \in Version, NEW t \in {0} \cup Edition, NEW f \in {0} \cup Edition,
           prompts' = [prompts EXCEPT ![v] = [text |-> t, fields |-> f]]
    PROVE  prompts' \in [Version -> [text : {0} \cup Edition, fields : {0} \cup Edition]]
BY DEF Typed, TypeOK

LEMMA SetReadType ==
    ASSUME Typed, NEW s \in Sample, NEW st \in {"ready", "failed"}, SetRead(s, st)
    PROVE  samples' \in [Sample -> [status : {"none", "processing", "ready", "failed", "deleted"}, pages : BOOLEAN, truth : BOOLEAN]]
<1>1. samples \in [Sample -> [status : {"none", "processing", "ready", "failed", "deleted"}, pages : BOOLEAN, truth : BOOLEAN]]
  BY TypedParts
<1>2. PICK b \in BOOLEAN : b = (st = "ready")
  OBVIOUS
<1>3. samples' = samples \/ samples' = [samples EXCEPT ![s].status = st, ![s].pages = b]
  BY <1>2 DEF SetRead
<1> QED
  BY <1>1, <1>3

LEMMA TaskType ==
    ASSUME Typed, NEW s \in Sample, NEW pc \in {"none", "queued", "draw", "read"}, NEW try \in 0..MaxTry,
           tasks' = [tasks EXCEPT ![s] = [pc |-> pc, try |-> try]]
    PROVE  tasks' \in [Sample -> [pc : {"none", "queued", "draw", "read"}, try : 0..MaxTry]]
BY DEF Typed, TypeOK

LEMMA ServeType ==
    ASSUME Typed, NEW r \in reqs, Serve(r)
    PROVE  Typed'
<1>1. /\ typ \in [exists : BOOLEAN, cur : {0} \cup Version, fields : {0} \cup Edition]
      /\ prompts \in [Version -> [text : {0} \cup Edition, fields : {0} \cup Edition]]
      /\ samples \in [Sample -> [status : {"none", "processing", "ready", "failed", "deleted"}, pages : BOOLEAN, truth : BOOLEAN]]
      /\ runs \in [Sample -> [Version -> {0} \cup Edition]]
      /\ files \subseteq Sample \X {"source", "images"}
      /\ tasks \in [Sample -> [pc : {"none", "queued", "draw", "read"}, try : 0..MaxTry]]
      /\ Len(jobs) <= MaxJob /\ jobs \in Seq(Job) /\ reqs \subseteq Reqs /\ used \in Used
  BY TypedParts
<1>2. 1 \in Version /\ 0 \in 0..MaxTry
  BY DocTypesAssumption DEF Version
<1>3. ASSUME NEW pc \in {"fields", "runs", "task", "files"}, Goto(r, pc) PROVE reqs' \subseteq Reqs
  <2>1. PICK q : q = [r EXCEPT !.pc = pc]
    OBVIOUS
  <2>2. q \in Reqs /\ reqs' = (reqs \ {r}) \cup {q}
    BY <1>1, <1>3, <2>1, GotoType DEF Goto
  <2> QED
    BY <1>1, <2>2
<1>4. Answer(r) => reqs' \subseteq Reqs
  BY <1>1 DEF Answer
<1>5. CASE SaveFirst(r)
  <2>1. reqs' \subseteq Reqs
    BY <1>3, <1>4, <1>5 DEF SaveFirst
  <2>2. prompts' \in [Version -> [text : {0} \cup Edition, fields : {0} \cup Edition]] /\ used' \in Used
    <3>1. CASE typ.exists /\ prompts[1] = NoPrompt
      <4>1. NextText \in Edition /\ Spend("text")
        BY <1>5, <3>1 DEF SaveFirst
      <4>2. prompts' = [prompts EXCEPT ![1] = [text |-> NextText, fields |-> typ.fields]]
        BY <1>5, <3>1 DEF SaveFirst
      <4>3. typ.fields \in {0} \cup Edition
        BY <1>1
      <4> QED
        BY <1>2, <4>1, <4>2, <4>3, PromptType, SpendType
    <3>2. CASE ~(typ.exists /\ prompts[1] = NoPrompt)
      BY <1>1, <1>5, <3>2 DEF SaveFirst
    <3> QED
      BY <3>1, <3>2
  <2> QED
    BY <1>1, <1>5, <2>1, <2>2 DEF SaveFirst, Typed, TypeOK
<1>6. CASE SaveFields(r)
  <2>1. prompts' \in [Version -> [text : {0} \cup Edition, fields : {0} \cup Edition]]
    <3>1. prompts' = prompts \/ (typ.cur \in Version /\ prompts' = [prompts EXCEPT ![typ.cur].fields = typ.fields])
      BY <1>6 DEF SaveFields, Versions
    <3>2. typ.fields \in {0} \cup Edition
      BY <1>1
    <3>3. CASE typ.cur \in Version /\ prompts' = [prompts EXCEPT ![typ.cur].fields = typ.fields]
      <4>1. PICK q : q = [prompts[typ.cur] EXCEPT !.fields = typ.fields]
        OBVIOUS
      <4>2. q \in [text : {0} \cup Edition, fields : {0} \cup Edition]
        <5>1. prompts[typ.cur] \in [text : {0} \cup Edition, fields : {0} \cup Edition]
          BY <1>1, <3>3
        <5> QED
          BY <3>2, <4>1, <5>1
      <4>3. prompts' = [prompts EXCEPT ![typ.cur] = q]
        BY <3>3, <4>1
      <4> QED
        BY <1>1, <4>2, <4>3
    <3> QED
      BY <1>1, <3>1, <3>3
  <2> QED
    BY <1>1, <1>4, <1>6, <2>1 DEF SaveFields, Typed, TypeOK
<1>7. CASE UseAdded(r)
  <2>1. typ' \in [exists : BOOLEAN, cur : {0} \cup Version, fields : {0} \cup Edition]
    BY <1>7, UseType DEF UseAdded
  <2> QED
    BY <1>1, <1>4, <1>7, <2>1 DEF UseAdded, Typed, TypeOK
<1>8. CASE DropVersion(r)
  <2>1. reqs' \subseteq Reqs
    BY <1>3, <1>4, <1>8 DEF DropVersion
  <2>2. prompts' \in [Version -> [text : {0} \cup Edition, fields : {0} \cup Edition]]
    <3>1. prompts' = prompts \/ (r.v \in Version /\ prompts' = [prompts EXCEPT ![r.v] = NoPrompt])
      BY <1>8 DEF DropVersion, Versions
    <3> QED
      BY <1>1, <3>1, PromptType DEF NoPrompt
  <2> QED
    BY <1>1, <1>8, <2>1, <2>2 DEF DropVersion, Typed, TypeOK
<1>9. CASE DropRuns(r)
  <2>1. runs' = [s \in Sample |-> [runs[s] EXCEPT ![r.v] = 0]]
    BY <1>9 DEF DropRuns
  <2>2. \A s \in Sample : [runs[s] EXCEPT ![r.v] = 0] \in [Version -> {0} \cup Edition]
    BY <1>1
  <2>3. runs' \in [Sample -> [Version -> {0} \cup Edition]]
    BY <2>1, <2>2
  <2> QED
    BY <1>1, <1>4, <1>9, <2>3 DEF DropRuns, Typed, TypeOK
<1>10. CASE DeleteRows(r)
  <2>1. typ' \in [exists : BOOLEAN, cur : {0} \cup Version, fields : {0} \cup Edition]
    BY <1>10 DEF DeleteRows, NoType
  <2>2. prompts' \in [Version -> [text : {0} \cup Edition, fields : {0} \cup Edition]]
    BY <1>10 DEF DeleteRows, NoPrompt
  <2>3. samples' \in [Sample -> [status : {"none", "processing", "ready", "failed", "deleted"}, pages : BOOLEAN, truth : BOOLEAN]]
    BY <1>10 DEF DeleteRows, NoSample
  <2>4. runs' \in [Sample -> [Version -> {0} \cup Edition]]
    BY <1>10 DEF DeleteRows, NoRuns
  <2>5. \A j \in DOMAIN jobs : [jobs[j] EXCEPT !.status = "gone"] \in Job
    BY JobType DEF Job
  <2>6. jobs' \in Seq(Job) /\ Len(jobs') = Len(jobs)
    <3>1. jobs' = [j \in DOMAIN jobs |-> [jobs[j] EXCEPT !.status = "gone"]] /\ DOMAIN jobs = 1..Len(jobs) /\ Len(jobs) \in Nat
      BY <1>1, <1>10 DEF DeleteRows
    <3>2. jobs' \in [1..Len(jobs) -> Job]
      BY <2>5, <3>1
    <3> QED
      BY <3>1, <3>2
  <2> QED
    BY <1>1, <1>4, <1>10, <2>1, <2>2, <2>3, <2>4, <2>6 DEF DeleteRows, Typed, TypeOK
<1>11. CASE UploadRow(r)
  <2>1. samples' \in [Sample -> [status : {"none", "processing", "ready", "failed", "deleted"}, pages : BOOLEAN, truth : BOOLEAN]]
    <3>1. PICK q : q = [NoSample EXCEPT !.status = "processing"]
      OBVIOUS
    <3>2. q \in [status : {"none", "processing", "ready", "failed", "deleted"}, pages : BOOLEAN, truth : BOOLEAN]
      BY <3>1 DEF NoSample
    <3>3. samples' = samples \/ samples' = [s \in Sample |-> IF s \in r.s THEN q ELSE samples[s]]
      BY <1>11, <3>1 DEF UploadRow
    <3> QED
      BY <1>1, <3>2, <3>3
  <2>2. reqs' \subseteq Reqs
    BY <1>3, <1>4, <1>11 DEF UploadRow
  <2> QED
    BY <1>1, <1>11, <2>1, <2>2 DEF UploadRow, Typed, TypeOK
<1>12. ASSUME NEW ok \in BOOLEAN, UploadTask(r, ok) PROVE Typed'
  <2>1. samples' \in [Sample -> [status : {"none", "processing", "ready", "failed", "deleted"}, pages : BOOLEAN, truth : BOOLEAN]]
    <3>1. r.s \subseteq Sample
      BY <1>1 DEF Reqs
    <3>2. samples' = samples \/ \E s \in r.s : SetRead(s, "failed")
      BY <1>12 DEF UploadTask
    <3> QED
      BY <1>1, <3>1, <3>2, SetReadType
  <2>2. tasks' \in [Sample -> [pc : {"none", "queued", "draw", "read"}, try : 0..MaxTry]]
    <3>1. CASE ok
      BY <1>1, <1>2, <1>12, <3>1 DEF UploadTask, NoTask
    <3>2. CASE ~ok
      BY <1>1, <1>12, <3>2 DEF UploadTask
    <3> QED
      BY <3>1, <3>2
  <2> QED
    BY <1>1, <1>4, <1>12, <2>1, <2>2 DEF UploadTask, Typed, TypeOK
<1>13. CASE DropSampleRow(r)
  <2>1. CASE \E x \in r.s : Exists(x)
    <3>1. samples' \in [Sample -> [status : {"none", "processing", "ready", "failed", "deleted"}, pages : BOOLEAN, truth : BOOLEAN]]
      <4>1. PICK q : q = [NoSample EXCEPT !.status = "deleted"]
        OBVIOUS
      <4>2. q \in [status : {"none", "processing", "ready", "failed", "deleted"}, pages : BOOLEAN, truth : BOOLEAN]
        BY <4>1 DEF NoSample
      <4>3. samples' = [s \in Sample |-> IF s \in r.s THEN q ELSE samples[s]]
        BY <1>13, <2>1, <4>1 DEF DropSampleRow
      <4> QED
        BY <1>1, <4>2, <4>3
    <3>2. NoRuns \in [Version -> {0} \cup Edition]
      BY DEF NoRuns
    <3>3. runs' \in [Sample -> [Version -> {0} \cup Edition]]
      BY <1>1, <1>13, <2>1, <3>2 DEF DropSampleRow
    <3> QED
      BY <1>1, <1>3, <1>13, <2>1, <3>1, <3>3 DEF DropSampleRow, Typed, TypeOK
  <2>2. CASE ~(\E x \in r.s : Exists(x))
    BY <1>1, <1>4, <1>13, <2>2 DEF DropSampleRow, Typed, TypeOK
  <2> QED
    BY <2>1, <2>2
<1>14. CASE DropSampleFiles(r)
  <2>1. files' \subseteq files /\ UNCHANGED <<typ, prompts, samples, runs, tasks, jobs, used>>
    BY <1>14 DEF DropSampleFiles
  <2> QED
    BY <1>1, <1>4, <1>14, <2>1 DEF DropSampleFiles, Typed, TypeOK
<1> QED
  BY <1>5, <1>6, <1>7, <1>8, <1>9, <1>10, <1>11, <1>12, <1>13, <1>14 DEF Serve

LEMMA JobsTyped ==
    ASSUME Typed, NEW j \in DOMAIN jobs, JobStep(j) \/ JobDies(j) \/ JobClose(j) \/ DropProposal(j)
    PROVE  Typed'
<1>1. PICK q \in Job : jobs' = [jobs EXCEPT ![j] = q]
  BY JobSteps
<1>2. jobs' \in Seq(Job) /\ Len(jobs') = Len(jobs)
  BY <1>1, JobsChange
<1>3. UNCHANGED <<typ, prompts, samples, files, tasks, reqs>>
  BY DEF JobStep, JobRead, JobRun, JobFinish, JobDies, JobClose, DropProposal, JobDo
<1>4. used' \in Used
  BY SpendType, TypedParts DEF JobStep, JobRead, JobRun, JobFinish, JobDies, JobClose, DropProposal
<1>5. runs' \in [Sample -> [Version -> {0} \cup Edition]]
  <2>1. CASE runs' = runs
    BY <2>1, TypedParts
  <2>2. CASE runs' # runs
    <3>1. PICK x \in Sample, ok \in BOOLEAN : JobRun(j, x, ok) /\ ok /\ Exists(x)
      BY <2>2 DEF JobStep, JobRead, JobRun, JobFinish, JobDies, JobClose, DropProposal
    <3>2. runs' = [runs EXCEPT ![x][jobs[j].v] = jobs[j].text]
      BY <3>1 DEF JobRun
    <3>3. jobs[j].v \in Version /\ jobs[j].text \in {0} \cup Edition
      BY JobType DEF Job
    <3>4. PICK f : f = [runs[x] EXCEPT ![jobs[j].v] = jobs[j].text]
      OBVIOUS
    <3>5. f \in [Version -> {0} \cup Edition]
      BY <3>3, <3>4, TypedParts
    <3>6. runs' = [runs EXCEPT ![x] = f]
      BY <3>2, <3>4
    <3> QED
      BY <3>5, <3>6, TypedParts
  <2> QED
    BY <2>1, <2>2
<1> QED
  BY <1>2, <1>3, <1>4, <1>5, TypedParts DEF Typed, TypeOK

LEMMA SampleTyped ==
    ASSUME Typed, NEW s \in Sample, UploadFile(s) \/ SetTruth(s) \/ DropSample(s) \/ ReadStep(s) \/ ReaderDies(s)
    PROVE  Typed'
<1>1. /\ typ \in [exists : BOOLEAN, cur : {0} \cup Version, fields : {0} \cup Edition]
      /\ prompts \in [Version -> [text : {0} \cup Edition, fields : {0} \cup Edition]]
      /\ samples \in [Sample -> [status : {"none", "processing", "ready", "failed", "deleted"}, pages : BOOLEAN, truth : BOOLEAN]]
      /\ runs \in [Sample -> [Version -> {0} \cup Edition]]
      /\ files \subseteq Sample \X {"source", "images"}
      /\ tasks \in [Sample -> [pc : {"none", "queued", "draw", "read"}, try : 0..MaxTry]]
      /\ Len(jobs) <= MaxJob /\ jobs \in Seq(Job) /\ reqs \subseteq Reqs /\ used \in Used
  BY TypedParts
<1>2. MaxTry \in Nat /\ 0 \in 0..MaxTry /\ NoTask = [pc |-> "none", try |-> 0]
  BY DocTypesAssumption DEF NoTask
<1>3. ASSUME NEW q \in {NoTask, [NoTask EXCEPT !.pc = "queued", !.try = tasks[s].try + 1], [tasks[s] EXCEPT !.pc = "draw"], [tasks[s] EXCEPT !.pc = "read"]},
             q.try <= MaxTry, tasks' = [tasks EXCEPT ![s] = q]
      PROVE  tasks' \in [Sample -> [pc : {"none", "queued", "draw", "read"}, try : 0..MaxTry]]
  <2>1. tasks[s] \in [pc : {"none", "queued", "draw", "read"}, try : 0..MaxTry]
    BY <1>1
  <2>2. q \in [pc : {"none", "queued", "draw", "read"}, try : 0..MaxTry]
    <3>1. CASE q = NoTask
      BY <1>2, <3>1
    <3>2. CASE q = [NoTask EXCEPT !.pc = "queued", !.try = tasks[s].try + 1]
      <4>1. PICK n : n = tasks[s].try + 1
        OBVIOUS
      <4>2. q = [pc |-> "queued", try |-> n]
        BY <1>2, <3>2, <4>1
      <4>3. n \in 0..MaxTry
        BY <1>2, <1>3, <2>1, <4>1, <4>2
      <4> QED
        BY <4>2, <4>3
    <3>3. CASE q = [tasks[s] EXCEPT !.pc = "draw"]
      BY <2>1, <3>3
    <3>4. CASE q = [tasks[s] EXCEPT !.pc = "read"]
      BY <2>1, <3>4
    <3> QED
      BY <1>3, <3>1, <3>2, <3>3, <3>4
  <2> QED
    BY <1>1, <1>3, <2>2
<1>4. CASE UploadFile(s)
  <2>1. PICK q : q = [Request("upload", "row", 0) EXCEPT !.s = {s}]
    OBVIOUS
  <2>2. TRUE \in BOOLEAN
    OBVIOUS
  <2>3. q \in Reqs /\ Ask(q)
    BY <1>4, <2>1, <2>2, SampleRequest DEF UploadFile
  <2>4. Source(s) \in Sample \X {"source", "images"}
    BY DEF Source
  <2> QED
    BY <1>1, <1>4, <2>3, <2>4, AskType DEF UploadFile, Typed, TypeOK
<1>5. CASE SetTruth(s)
  <2>1. samples' = [samples EXCEPT ![s].truth = TRUE] /\ Spend("req")
    BY <1>5 DEF SetTruth
  <2>2. samples' \in [Sample -> [status : {"none", "processing", "ready", "failed", "deleted"}, pages : BOOLEAN, truth : BOOLEAN]]
    BY <1>1, <2>1
  <2> QED
    BY <1>1, <1>5, <2>1, <2>2, SpendType DEF SetTruth, Typed, TypeOK
<1>6. CASE DropSample(s)
  <2>1. PICK p \in BOOLEAN : p = samples[s].pages
    BY <1>1
  <2>2. PICK q : q = [Request("forget", "row", 0) EXCEPT !.s = {s}, !.pages = p]
    OBVIOUS
  <2>3. q \in Reqs /\ Ask(q)
    BY <1>6, <2>1, <2>2, SampleRequest DEF DropSample
  <2> QED
    BY <1>1, <1>6, <2>3, AskType DEF DropSample, Typed, TypeOK
<1>7. CASE ReadStart(s)
  <2>1. tasks' \in [Sample -> [pc : {"none", "queued", "draw", "read"}, try : 0..MaxTry]]
    <3>1. PICK q \in {NoTask, [tasks[s] EXCEPT !.pc = "draw"]} : tasks' = [tasks EXCEPT ![s] = q]
      BY <1>7 DEF ReadStart
    <3>2. q.try <= MaxTry
      BY <1>1, <1>2, <3>1
    <3> QED
      BY <1>3, <3>1, <3>2
  <2> QED
    BY <1>1, <1>7, <2>1 DEF ReadStart, Typed, TypeOK
<1>8. CASE ReadDraw(s)
  <2>1. tasks' \in [Sample -> [pc : {"none", "queued", "draw", "read"}, try : 0..MaxTry]]
    <3>1. PICK q : q = [tasks[s] EXCEPT !.pc = "read"]
      OBVIOUS
    <3>2. q.try <= MaxTry
      BY <1>1, <1>2, <3>1
    <3>3. tasks' = [tasks EXCEPT ![s] = q]
      BY <1>8, <3>1 DEF ReadDraw
    <3> QED
      BY <1>3, <3>1, <3>2, <3>3
  <2>2. Images(s) \in Sample \X {"source", "images"}
    BY DEF Images
  <2> QED
    BY <1>1, <1>8, <2>1, <2>2 DEF ReadDraw, Typed, TypeOK
<1>9. CASE ReadDone(s)
  <2>1. tasks' \in [Sample -> [pc : {"none", "queued", "draw", "read"}, try : 0..MaxTry]]
    BY <1>2, <1>3, <1>9 DEF ReadDone
  <2>2. samples' \in [Sample -> [status : {"none", "processing", "ready", "failed", "deleted"}, pages : BOOLEAN, truth : BOOLEAN]]
    BY <1>9, SetReadType DEF ReadDone
  <2> QED
    BY <1>1, <1>9, <2>1, <2>2 DEF ReadDone, Typed, TypeOK
<1>10. ASSUME tasks' = [tasks EXCEPT ![s] = [NoTask EXCEPT !.pc = "queued", !.try = tasks[s].try + 1]], tasks[s].try # MaxTry
       PROVE  tasks' \in [Sample -> [pc : {"none", "queued", "draw", "read"}, try : 0..MaxTry]]
  <2>1. PICK q : q = [NoTask EXCEPT !.pc = "queued", !.try = tasks[s].try + 1]
    OBVIOUS
  <2>2. q.try <= MaxTry
    BY <1>1, <1>2, <1>10, <2>1
  <2> QED
    BY <1>3, <1>10, <2>1, <2>2
<1>11. ASSUME NEW final \in BOOLEAN, ReadFails(s, final) PROVE Typed'
  <2>1. CASE final
    <3>1. tasks' \in [Sample -> [pc : {"none", "queued", "draw", "read"}, try : 0..MaxTry]]
      BY <1>2, <1>3, <1>11, <2>1 DEF ReadFails
    <3>2. samples' \in [Sample -> [status : {"none", "processing", "ready", "failed", "deleted"}, pages : BOOLEAN, truth : BOOLEAN]]
      BY <1>11, <2>1, SetReadType DEF ReadFails
    <3> QED
      BY <1>1, <1>11, <3>1, <3>2 DEF ReadFails, Typed, TypeOK
  <2>2. CASE ~final
    <3>1. tasks' \in [Sample -> [pc : {"none", "queued", "draw", "read"}, try : 0..MaxTry]] /\ samples' = samples
      BY <1>10, <1>11, <2>2 DEF ReadFails
    <3> QED
      BY <1>1, <1>11, <3>1 DEF ReadFails, Typed, TypeOK
  <2> QED
    BY <2>1, <2>2
<1>12. CASE ReaderDies(s)
  <2>1. tasks' \in [Sample -> [pc : {"none", "queued", "draw", "read"}, try : 0..MaxTry]]
    <3>1. CASE tasks[s].try = MaxTry
      <4>1. tasks' = [tasks EXCEPT ![s] = NoTask]
        BY <1>12, <3>1 DEF ReaderDies
      <4> QED
        BY <1>2, <1>3, <4>1
    <3>2. CASE tasks[s].try # MaxTry
      <4>1. tasks' = [tasks EXCEPT ![s] = [NoTask EXCEPT !.pc = "queued", !.try = tasks[s].try + 1]]
        BY <1>12, <3>2 DEF ReaderDies
      <4> QED
        BY <1>10, <3>2, <4>1
    <3> QED
      BY <3>1, <3>2
  <2>2. used' \in Used
    BY <1>12, SpendType DEF ReaderDies
  <2> QED
    BY <1>1, <1>12, <2>1, <2>2 DEF ReaderDies, Typed, TypeOK
<1> QED
  BY <1>4, <1>5, <1>6, <1>7, <1>8, <1>9, <1>11, <1>12 DEF ReadStep

LEMMA TypedStep ==
    ASSUME Typed, Next
    PROVE  Typed'
<1>1. /\ typ \in [exists : BOOLEAN, cur : {0} \cup Version, fields : {0} \cup Edition]
      /\ prompts \in [Version -> [text : {0} \cup Edition, fields : {0} \cup Edition]]
      /\ samples \in [Sample -> [status : {"none", "processing", "ready", "failed", "deleted"}, pages : BOOLEAN, truth : BOOLEAN]]
      /\ runs \in [Sample -> [Version -> {0} \cup Edition]]
      /\ files \subseteq Sample \X {"source", "images"}
      /\ tasks \in [Sample -> [pc : {"none", "queued", "draw", "read"}, try : 0..MaxTry]]
      /\ Len(jobs) <= MaxJob /\ jobs \in Seq(Job) /\ reqs \subseteq Reqs /\ used \in Used
  BY TypedParts
<1>2. 1 \in Version /\ MaxJob \in Nat /\ \A v \in Version : v \in Nat
  BY DocTypesAssumption DEF Version
<1>3. ASSUME NEW fields \in {0} \cup Edition, SaveType(fields) PROVE Typed'
  <2>1. typ' \in [exists : BOOLEAN, cur : {0} \cup Version, fields : {0} \cup Edition]
    <3>1. CASE typ.exists
      <4>1. PICK f \in {0} \cup Edition : f = IF fields = 0 THEN typ.fields ELSE fields
        BY <1>1
      <4>2. typ' = [typ EXCEPT !.fields = f]
        BY <1>3, <3>1, <4>1 DEF SaveType
      <4> QED
        BY <1>1, <4>2
    <3>2. CASE ~typ.exists
      BY <1>2, <1>3, <3>2 DEF SaveType
    <3> QED
      BY <3>1, <3>2
  <2>2. reqs' \subseteq Reqs
    <3>1. fields \in Nat
      BY DEF Edition
    <3>2. Request("save", "first", fields) \in Reqs
      BY <3>1, RequestType
    <3> QED
      BY <1>1, <1>3, <3>2 DEF SaveType
  <2>3. used' \in Used
    <3>1. PICK f : f = IF fields > used.fields THEN fields ELSE used.fields
      OBVIOUS
    <3>2. used' = [used EXCEPT !.req = @ + 1, !.fields = f]
      BY <1>3, <3>1 DEF SaveType
    <3>3. used.fields \in Edition /\ \A e \in Edition : e \in Nat \ {0}
      BY <1>1 DEF Used, Edition
    <3>4. f \in Edition
      BY <3>1, <3>3
    <3> QED
      <4>1. PICK n \in Nat : n = used.req + 1
        BY <1>1 DEF Used
      <4>2. used' = [used EXCEPT !.req = n, !.fields = f]
        BY <3>2, <4>1
      <4> QED
        BY <1>1, <3>4, <4>2 DEF Used
  <2> QED
    BY <1>1, <1>3, <2>1, <2>2, <2>3 DEF SaveType, Typed, TypeOK
<1>4. ASSUME NEW fields \in 1..used.fields, NEW use \in BOOLEAN, AddPrompt(fields, use) PROVE Typed'
  <2>1. PICK v : v = 1 + CHOOSE n \in Versions : \A m \in Versions : m <= n
    OBVIOUS
  <2>2. v \in Version /\ NextText \in Edition /\ prompts' = [prompts EXCEPT ![v] = [text |-> NextText, fields |-> fields]]
    BY <1>4, <2>1 DEF AddPrompt
  <2>3. fields \in Edition
    <3>1. used.fields \in Edition
      BY <1>1 DEF Used
    <3> QED
      BY <3>1, DocTypesAssumption DEF Edition
  <2>4. prompts' \in [Version -> [text : {0} \cup Edition, fields : {0} \cup Edition]]
    BY <2>2, <2>3, PromptType
  <2>5. reqs' \subseteq Reqs
    <3>1. Request("use", "use", v) \in Reqs
      BY <1>2, <2>2, RequestType
    <3>2. reqs' \subseteq reqs \cup {Request("use", "use", v)}
      BY <1>4, <2>1 DEF AddPrompt
    <3> QED
      BY <1>1, <3>1, <3>2
  <2>6. used' \in Used
    <3>1. used' = [used EXCEPT !.req = @ + 1, !.text = @ + 1]
      BY <1>4 DEF AddPrompt
    <3>2. PICK n \in Nat, m \in Nat : n = used.req + 1 /\ m = used.text + 1
      BY <1>1 DEF Used
    <3>3. used' = [used EXCEPT !.req = n, !.text = m]
      BY <3>1, <3>2
    <3> QED
      BY <1>1, <3>3 DEF Used
  <2> QED
    BY <1>1, <1>4, <2>4, <2>5, <2>6 DEF AddPrompt, Typed, TypeOK
<1>5. ASSUME NEW v \in Version, SetCurrent(v) PROVE Typed'
  <2>1. typ' \in [exists : BOOLEAN, cur : {0} \cup Version, fields : {0} \cup Edition] /\ used' \in Used
    BY <1>5, UseType, SpendType DEF SetCurrent
  <2> QED
    BY <1>1, <1>5, <2>1 DEF SetCurrent, Typed, TypeOK
<1>6. ASSUME NEW v \in Version, DropCheck(v) PROVE Typed'
  <2>1. Request("drop", "version", v) \in Reqs
    BY <1>2, RequestType
  <2>2. reqs' \subseteq Reqs /\ used' \in Used
    BY <1>6, <2>1, AskType DEF DropCheck
  <2> QED
    BY <1>1, <1>6, <2>2 DEF DropCheck, Typed, TypeOK
<1>7. ASSUME NEW v \in Version, NEW kind \in {"run", "optimize"}, JobCreate(kind, v) PROVE Typed'
  <2>1. PICK q : q = [kind |-> kind, v |-> v, text |-> 0, left |-> Ready(kind), status |-> "running", failed |-> FALSE, pc |-> "read"]
    OBVIOUS
  <2>2. q \in Job
    BY <2>1 DEF Job, Ready
  <2>3. jobs' = Append(jobs, q) /\ Len(jobs) < MaxJob
    BY <1>7, <2>1 DEF JobCreate
  <2>4. jobs' \in Seq(Job) /\ Len(jobs') <= MaxJob
    BY <1>1, <1>2, <2>2, <2>3
  <2> QED
    BY <1>1, <1>7, <2>4 DEF JobCreate, Typed, TypeOK
<1>8. CASE DeleteType
  <2>1. Request("delete", "rows", 0) \in Reqs
    BY RequestType
  <2>2. reqs' \subseteq Reqs /\ used' \in Used
    BY <1>8, <2>1, AskType DEF DeleteType
  <2> QED
    BY <1>1, <1>8, <2>2 DEF DeleteType, Typed, TypeOK
<1>9. ASSUME NEW r \in reqs, RequestDies(r) PROVE Typed'
  <2>1. reqs' \subseteq Reqs /\ used' \in Used
    BY <1>1, <1>9, SpendType DEF RequestDies, Answer
  <2> QED
    BY <1>1, <1>9, <2>1 DEF RequestDies, Typed, TypeOK
<1> QED
  BY <1>3, <1>4, <1>5, <1>6, <1>7, <1>8, <1>9, ServeType, SampleTyped, JobsTyped DEF Next

-----------------------------------------------------------------------------
(* The theorems.                                                           *)

Kept == VersionInv /\ UploadsOnce /\ FilesKept /\ RunInv

LEMMA InitTyped == Init => Typed
<1> SUFFICES ASSUME Init PROVE Typed
  OBVIOUS
<1>1. 1 \in Version /\ 1 \in Edition /\ 0 \in 0..MaxTry /\ 0 <= MaxJob
  BY DocTypesAssumption DEF Version, Edition
<1>2. jobs \in Seq(Job) /\ Len(jobs) = 0
  BY DEF Init
<1>3. used \in Used
  BY <1>1 DEF Init, Used
<1>4. runs \in [Sample -> [Version -> {0} \cup Edition]]
  BY DEF Init, NoRuns
<1> QED
  BY <1>1, <1>2, <1>3, <1>4 DEF Init, Typed, TypeOK, NoSample, NoTask, NoPrompt

LEMMA InitKept == Init => Kept
<1> SUFFICES ASSUME Init PROVE Kept
  OBVIOUS
<1>1. 1 \in Version
  BY DocTypesAssumption DEF Version
<1>2. VersionInv
  BY <1>1 DEF Init, VersionInv, Versions, NoPrompt
<1>3. UploadsOnce /\ FilesKept
  BY DEF Init, UploadsOnce, FilesKept, NoTask, NoSample
<1>4. RunInv
  BY DEF Init, RunInv, NoRuns
<1> QED
  BY <1>2, <1>3, <1>4 DEF Kept

LEMMA Stutter == ASSUME Typed, Kept, UNCHANGED vars PROVE Typed' /\ Kept'
<1>1. Typed'
  BY DEF vars, Typed, TypeOK
<1>2. VersionInv'
  BY VersionFrame DEF vars, Kept
<1>3. UploadsOnce' /\ FilesKept'
  BY DEF vars, Kept, UploadsOnce, FilesKept, Between, Exists
<1>4. RunInv'
  BY DEF vars, Kept, RunInv, Versions, Exists
<1> QED
  BY <1>1, <1>2, <1>3, <1>4 DEF Kept

LEMMA TypedAlways == Spec => []Typed
<1>1. Typed /\ [Next]_vars => Typed'
  <2>1. CASE Next
    BY <2>1, TypedStep
  <2>2. CASE UNCHANGED vars
    BY <2>2 DEF vars, Typed, TypeOK
  <2> QED
    BY <2>1, <2>2
<1> QED
  BY InitTyped, <1>1, PTL DEF Spec

LEMMA KeptAlways == ASSUME Orderly PROVE Spec => [](Typed /\ Kept)
<1>1. Typed /\ Kept /\ [Next]_vars => Kept'
  <2> SUFFICES ASSUME Typed, Kept, [Next]_vars PROVE Kept'
    OBVIOUS
  <2>1. CASE Next
    BY <2>1, VersionStep, UploadsStep, FilesStep, RunStep DEF Kept
  <2>2. CASE UNCHANGED vars
    BY <2>2, Stutter
  <2> QED
    BY <2>1, <2>2
<1> QED
  BY InitKept, TypedAlways, <1>1, PTL DEF Spec

(* A type asks for what its version in use reads, and there is one in use, *)
(* outside of a save; and a sample that can be looked at has its file and  *)
(* its images, outside of the deletion of the type: whatever requests,     *)
(* readers and jobs overlap and die, when no reader dies on its last       *)
(* attempt and no save, upload or deletion is cut short (doctypes.go Save, *)
(* AddPrompt, SetCurrent, DeletePrompt; doctypes handleSample,             *)
(* DeleteSample).                                                          *)
THEOREM RowsDoAgree == ASSUME Orderly PROVE Spec => []RowsAgree
<1>1. Typed /\ Kept => RowsAgree
  <2> SUFFICES ASSUME Typed, Kept PROVE RowsAgree
    OBVIOUS
  <2>1. InUseAgrees
    BY DEF Kept, VersionInv, InUseAgrees, Between
  <2>2. ReadyHasFiles
    BY DEF Kept, FilesKept, ReadyHasFiles
  <2> QED
    BY <2>1, <2>2 DEF RowsAgree, Typed
<1> QED
  BY KeptAlways, <1>1, PTL

(* A version is scored by what its own instructions read, though its       *)
(* number may be another version's that was deleted, and though a job      *)
(* reads the instructions once and writes with them later (RunSamples,     *)
(* DeletePrompt), when nobody deletes a version that is being run.         *)
THEOREM RunsAreTrue == ASSUME Orderly PROVE Spec => []RunTrue
<1>1. Typed /\ Kept => RunTrue
  <2> SUFFICES ASSUME Typed, Kept PROVE RunTrue
    OBVIOUS
  <2>1. \A v \in Versions : v \in Version
    BY DEF Versions
  <2> QED
    BY <2>1 DEF Kept, RunInv, RunTrue
<1> QED
  BY KeptAlways, <1>1, PTL
================================================================================
