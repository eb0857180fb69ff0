-------------------------------- MODULE Checks ---------------------------------
(***************************************************************************)
(* Cross-check runs of a case: a run waits for its sheet, is evaluated by  *)
(* the task that built the sheet, and again when the user asks or chooses  *)
(* the contract of a document; each evaluation gathers the documents       *)
(* around the contracts (service/sheets/checks.go, sheets.go,              *)
(* repository/postgres/checks.go).                                         *)
(*                                                                         *)
(* The task is case:sheet of module Sheets with its steps before the end   *)
(* taken as one.  What a formula says of a document and a contract is      *)
(* given by the values of the case (module CheckExpr evaluates formulas);  *)
(* the outcome of the rules on each group is left out.                     *)
(***************************************************************************)
EXTENDS Integers, FiniteSets, Sequences, SequencesExt

CONSTANTS
    Run,           \* cross-checks of the case; each has a sheet and its task
    Req,           \* requests at the same time
    Contract,      \* documents of the anchor type
    Doc,           \* the other documents
    Steps,         \* how a document finds its contract: "formula" or "ai"
    Worlds,        \* what the formulas may say, for each value the fields may have
    Ordered,       \* assumption: see TaskStart
    Calm,          \* assumption: see Dies and Breaks
    Overlap,       \* FALSE: a run is evaluated by one at a time; see Free
    MaxTry,        \* queue.Policy.MaxRetry of case:sheet
    MaxReq         \* bound: requests in a behaviour

Verdict == {"pass", "fail", "unknown"}
World == [Doc -> [DOMAIN Steps -> [Contract -> Verdict]]]
Actor == Run \cup Req
BySteps == "auto"                \* the steps decide
None == "none"                   \* the user or the AI says: none of them
Unsure == ""                     \* the AI is not sure, or was not reached
Absent == "absent"               \* the sheet does not have the document

ASSUME ChecksAssumption ==
    /\ Steps \in Seq({"formula", "ai"}) /\ Worlds \subseteq World /\ Worlds # {}
    /\ Run \cap Req = {} /\ {Ordered, Calm, Overlap} \subseteq BOOLEAN /\ {MaxTry, MaxReq} \subseteq Nat

VARIABLES
    run,           \* case_checks, with what each was asked for
    sheet,         \* the status of the sheet of each run
    world,         \* the values of the fields, as the formulas see them
    links,         \* case_check_links
    ruleset,       \* whether the rule set is there
    at,            \* what each task and request is doing
    used           \* requests spent, and changes made to what runs read

vars == <<run, sheet, world, links, ruleset, at, used>>

NoResult == [seen |-> 0, links |-> [d \in Doc |-> BySteps], world |-> {}, place |-> [d \in Doc |-> Absent]]
NoRun == [status |-> "none", asked |-> 0, result |-> NoResult]
Idle == [pc |-> "none", run |-> CHOOSE r \in Run : TRUE, try |-> 0, asked |-> 0, seen |-> 0,
         world |-> {}, links |-> [d \in Doc |-> BySteps]]

-----------------------------------------------------------------------------
(* The contract of a document.                                             *)

(* One step: the contracts that remain, whether the last step to say       *)
(* something held, and whether the search is over.                         *)
Narrow(found, says) ==
    LET pass == {c \in found.cands : says[c] = "pass"}
        unknown == {c \in found.cands : says[c] = "unknown"}
        left == IF pass # {} THEN pass ELSE unknown
        sure == pass # {} \/ (found.sure /\ unknown # found.cands)
    IN  [cands |-> left, sure |-> sure, over |-> left = {} \/ (Cardinality(left) = 1 /\ sure)]

(* The AI picks among two or more; an answer that names none of them       *)
(* changes nothing.                                                        *)
Pick(found, answer) ==
    IF Cardinality(found.cands) < 2 THEN found
    ELSE CASE answer = None -> [found EXCEPT !.cands = {}, !.over = TRUE]
           [] answer \in found.cands -> [found EXCEPT !.cands = {answer}, !.sure = FALSE]
           [] OTHER -> [found EXCEPT !.sure = @ /\ answer # Unsure]

Candidates(says, answers) ==
    LET found[i \in 0..Len(Steps)] ==
          IF i = 0 THEN [cands |-> Contract, sure |-> FALSE, over |-> Contract = {}]
          ELSE IF found[i - 1].over THEN found[i - 1]
          ELSE IF Steps[i] = "ai" THEN Pick(found[i - 1], answers[i]) ELSE Narrow(found[i - 1], says[i])
    IN  found[Len(Steps)].cands

Link(says, answers) ==
    LET cands == Candidates(says, answers)
    IN  IF Cardinality(cands) = 1 THEN CHOOSE c \in cands : TRUE ELSE None

(* Mutant: the steps win over the user's choice.                           *)
Place_Steps(choice, says, answers) == IF choice = BySteps \/ Link(says, answers) # None THEN Link(says, answers) ELSE choice

(* The user's choice wins over the steps.                                  *)
Place(choice, says, answers) == IF choice = BySteps THEN Link(says, answers) ELSE choice

-----------------------------------------------------------------------------
(* Evaluation of a run, by its task or by a request.                       *)

Exists(r) == run[r].status \notin {"none", "deleted"}
Goto(a, pc) == at' = [at EXCEPT ![a].pc = pc]
Stop(a) == at' = [at EXCEPT ![a] = Idle]

(* SetResult: no row, no change.  The result stays when none is given.     *)
SetStatus(r, to) == run' = IF Exists(r) THEN [run EXCEPT ![r].status = to] ELSE run

(* An evaluation that fails: the task records it, a request reports it.    *)
GiveUp(a) == (IF a \in Run THEN SetStatus(a, "failed") ELSE UNCHANGED run) /\ Stop(a)

(* The sheet, the case and the rule set are read, and the run is running.  *)
Load(a) ==
    LET r == at[a].run
    IN  /\ at[a].pc = "load"
        /\ IF ruleset /\ sheet[r] # "deleted" THEN SetStatus(r, "running") /\ Goto(a, "view") ELSE GiveUp(a)
        /\ UNCHANGED <<sheet, world, links, ruleset, used>>

(* view: the current values; a sheet that is not built has no documents.   *)
View(a) ==
    LET r == at[a].run
    IN  /\ at[a].pc = "view"
        /\ at' = [at EXCEPT ![a].pc = "links", ![a].seen = used.change, ![a].world = IF sheet[r] = "done" THEN {world} ELSE {}]
        /\ UNCHANGED <<run, sheet, world, links, ruleset, used>>

ReadLinks(a) ==
    /\ at[a].pc = "links"
    /\ at' = [at EXCEPT ![a].pc = "store", ![a].links = links]
    /\ UNCHANGED <<run, sheet, world, links, ruleset, used>>

Larger(m, n) == IF m > n THEN m ELSE n

(* The answers of the AI come before the result is stored.                 *)
Store(a, answers) ==
    LET r == at[a].run
        place(d) == IF at[a].world = {} THEN Absent
                    ELSE LET w == CHOOSE w \in at[a].world : TRUE IN Place(at[a].links[d], w[d], answers[d])
    IN  /\ at[a].pc = "store"
        /\ run' = IF ~Exists(r) THEN run
                  ELSE [run EXCEPT ![r] = [status |-> "done", asked |-> Larger(@.asked, at[a].asked),
                           result |-> [seen |-> at[a].seen, links |-> at[a].links, world |-> at[a].world,
                                       place |-> [d \in Doc |-> place(d)]]]]
        /\ Stop(a)
        /\ UNCHANGED <<sheet, world, links, ruleset, used>>

(* A statement fails after the run was marked running.  Calm: only in the  *)
(* task, which records it.                                                 *)
Breaks(a) ==
    /\ at[a].pc \in {"view", "links", "store"} /\ (Calm => a \in Run)
    /\ GiveUp(a)
    /\ UNCHANGED <<sheet, world, links, ruleset, used>>

-----------------------------------------------------------------------------
(* case:sheet.                                                             *)

Retry(r) == at' = [at EXCEPT ![r] = IF at[r].try < MaxTry THEN [Idle EXCEPT !.pc = "queued", !.run = r, !.try = at[r].try + 1] ELSE Idle]

(* Ordered: not before the run is there.                                   *)
TaskStart(r) ==
    /\ at[r].pc = "queued"
    /\ Ordered => ~\E q \in Req : at[q].pc = "insert" /\ at[q].run = r
    /\ IF sheet[r] \in {"done", "deleted"} THEN Stop(r) ELSE Goto(r, "build")
    /\ UNCHANGED <<run, sheet, world, links, ruleset, used>>

Changed == used' = [used EXCEPT !.change = @ + 1]

Built(r) ==
    /\ at[r].pc = "build" /\ Goto(r, "built")
    /\ sheet' = IF sheet[r] = "deleted" THEN sheet ELSE [sheet EXCEPT ![r] = "done"]
    /\ Changed
    /\ UNCHANGED <<run, world, links, ruleset>>

(* A build that fails is tried again, and its last attempt records it; a   *)
(* case without documents of these types fails at once.                    *)
NotBuilt(r, last) ==
    /\ at[r].pc = "build"
    /\ last \/ at[r].try = MaxTry
    /\ sheet' = IF sheet[r] = "deleted" THEN sheet ELSE [sheet EXCEPT ![r] = "failed"]
    /\ Goto(r, "not built")
    /\ UNCHANGED <<run, world, links, ruleset, used>>

TryAgain(r) ==
    /\ at[r].pc = "build" /\ at[r].try < MaxTry
    /\ Retry(r)
    /\ UNCHANGED <<run, sheet, world, links, ruleset, used>>

(* afterBuild.  Mutant: a sheet that failed leaves its runs waiting.       *)
AfterBuild_DoneOnly(r) ==
    /\ at[r].pc \in {"built", "not built"}
    /\ IF Exists(r) /\ at[r].pc = "built" THEN at' = [at EXCEPT ![r].pc = "load", ![r].asked = used.change] ELSE Stop(r)
    /\ UNCHANGED <<run, sheet, world, links, ruleset, used>>

AfterBuild(r) ==
    /\ at[r].pc \in {"built", "not built"}
    /\ IF Exists(r) /\ at[r].pc = "built"
       THEN at' = [at EXCEPT ![r].pc = "load", ![r].asked = used.change] /\ UNCHANGED run
       ELSE SetStatus(r, "failed") /\ Stop(r)
    /\ UNCHANGED <<sheet, world, links, ruleset, used>>

(* The process dies; the task is tried again, a request is not.  Calm: no  *)
(* request, and no task on its last attempt or past its sheet.             *)
Dies(a) ==
    /\ at[a].pc # "none"
    /\ Calm => a \in Run /\ at[a].pc = "build" /\ at[a].try < MaxTry
    /\ IF a \in Run THEN Retry(a) ELSE Stop(a)
    /\ UNCHANGED <<run, sheet, world, links, ruleset, used>>

-----------------------------------------------------------------------------
(* Requests.                                                               *)

Spend(change) == used.req < MaxReq /\ used' = [req |-> used.req + 1, change |-> used.change + change]
Free(r) == Overlap \/ (run[r].status \in {"done", "failed"} /\ ~\E a \in Actor : at[a].pc # "none" /\ at[a].run = r)

(* CreateCheck: the sheet with its task, then the run.                     *)
Create(q, r) ==
    /\ at[q].pc = "none" /\ sheet[r] = "none" /\ ruleset
    /\ sheet' = [sheet EXCEPT ![r] = "pending"]
    /\ at' = [at EXCEPT ![r] = [Idle EXCEPT !.pc = "queued", !.run = r], ![q] = [Idle EXCEPT !.pc = "insert", !.run = r]]
    /\ UNCHANGED <<run, world, links, ruleset, used>>

Insert(q) ==
    LET r == at[q].run
    IN  /\ at[q].pc = "insert" /\ Stop(q)
        /\ run' = IF sheet[r] = "deleted" THEN run ELSE [run EXCEPT ![r].status = "pending"]
        /\ UNCHANGED <<sheet, world, links, ruleset, used>>

Rerun(q, r) ==
    /\ at[q].pc = "none" /\ run[r].status \in {"done", "failed"} /\ Free(r) /\ Spend(0)
    /\ at' = [at EXCEPT ![q] = [Idle EXCEPT !.pc = "load", !.run = r, !.asked = used.change]]
    /\ UNCHANGED <<run, sheet, world, links, ruleset>>

(* Mutant: the links are kept with those of the earlier evaluation.        *)
SetLink_After(q, r, d, choice) ==
    /\ at[q].pc = "none" /\ Exists(r) /\ Free(r) /\ Spend(1)
    /\ at' = [at EXCEPT ![q] = [Idle EXCEPT !.pc = "store", !.run = r, !.asked = used.change + 1, !.seen = run[r].result.seen,
                                            !.links = run[r].result.links, !.world = run[r].result.world]]
    /\ links' = [links EXCEPT ![d] = choice]
    /\ UNCHANGED <<run, sheet, world, ruleset>>

SetLink(q, r, d, choice) ==
    /\ at[q].pc = "none" /\ Exists(r) /\ Free(r) /\ Spend(1)
    /\ links' = [links EXCEPT ![d] = choice]
    /\ at' = [at EXCEPT ![q] = [Idle EXCEPT !.pc = "load", !.run = r, !.asked = used.change + 1]]
    /\ UNCHANGED <<run, sheet, world, ruleset>>

(* A field of the case is corrected.                                       *)
Correct(w) ==
    /\ w # world /\ "done" \in {sheet[r] : r \in Run} /\ Spend(1)
    /\ world' = w
    /\ UNCHANGED <<run, sheet, links, ruleset, at>>

(* DeleteCheck leaves the sheet; a sheet takes its run with it.            *)
DeleteCheck(r) ==
    /\ Exists(r) /\ Spend(0)
    /\ run' = [run EXCEPT ![r] = [NoRun EXCEPT !.status = "deleted"]]
    /\ UNCHANGED <<sheet, world, links, ruleset, at>>

DeleteSheet(r) ==
    /\ sheet[r] \notin {"none", "deleted"} /\ Spend(0)
    /\ sheet' = [sheet EXCEPT ![r] = "deleted"]
    /\ run' = IF Exists(r) THEN [run EXCEPT ![r] = [NoRun EXCEPT !.status = "deleted"]] ELSE run
    /\ UNCHANGED <<world, links, ruleset, at>>

DeleteRuleset == ruleset /\ Spend(0) /\ ruleset' = FALSE /\ UNCHANGED <<run, sheet, world, links, at>>

-----------------------------------------------------------------------------

Init ==
    /\ run = [r \in Run |-> NoRun] /\ sheet = [r \in Run |-> "none"]
    /\ world \in Worlds /\ links = [d \in Doc |-> BySteps] /\ ruleset = TRUE
    /\ at = [a \in Actor |-> Idle]
    /\ used = [req |-> 0, change |-> 0]

Answer == [Doc -> [DOMAIN Steps -> IF "ai" \in ToSet(Steps) THEN Contract \cup {None, Unsure} ELSE {Unsure}]]
Evaluate(a) == Load(a) \/ View(a) \/ ReadLinks(a) \/ \E answers \in Answer : Store(a, answers)
Task(r) == TaskStart(r) \/ Built(r) \/ (\E last \in BOOLEAN : NotBuilt(r, last)) \/ AfterBuild(r)

Next ==
    \/ \E a \in Actor : Evaluate(a) \/ Breaks(a) \/ Dies(a)
    \/ \E r \in Run : Task(r) \/ TryAgain(r) \/ DeleteCheck(r) \/ DeleteSheet(r)
    \/ \E q \in Req : Insert(q)
    \/ \E q \in Req, r \in Run : Create(q, r) \/ Rerun(q, r) \/ \E d \in Doc, choice \in Contract \cup {BySteps, None} : SetLink(q, r, d, choice)
    \/ \E w \in Worlds : Correct(w)
    \/ DeleteRuleset

Spec == Init /\ [][Next]_vars

(* Handlers and requests go on while the process lives.                    *)
Fairness == /\ \A a \in Actor : WF_vars(Evaluate(a))
            /\ \A r \in Run : WF_vars(Task(r))
            /\ \A q \in Req : WF_vars(Insert(q))
FairSpec == Spec /\ Fairness

-----------------------------------------------------------------------------
(* Properties.                                                             *)

TypeOK ==
    /\ \A r \in Run : /\ run[r].status \in {"none", "pending", "running", "done", "failed", "deleted"}
                      /\ run[r].result.seen \in Nat /\ run[r].asked \in Nat
                      /\ \A d \in Doc : run[r].result.place[d] \in Contract \cup {None, Absent}
                      /\ sheet[r] \in {"none", "pending", "done", "failed", "deleted"}
    /\ \A a \in Actor : at[a].try \in 0..MaxTry /\ at[a].run \in Run
    /\ world \in Worlds /\ \A d \in Doc : links[d] \in Contract \cup {BySteps, None}

(* Steps of formulas alone, from the first on: c is better than b where    *)
(* they first differ.                                                      *)
Rank(v) == CASE v = "pass" -> 2 [] v = "unknown" -> 1 [] OTHER -> 0
Better(says, c, b) ==
    \E i \in DOMAIN Steps : /\ Rank(says[i][c]) > Rank(says[i][b])
                            /\ \A j \in 1..i - 1 : says[j][c] = says[j][b]
Beats(says, c) == \A b \in Contract \ {c} : Better(says, c, b)

(* A document is under the contract the user chose; else, where no AI      *)
(* decides, only under one that beats every other, the steps read in       *)
(* order, and always under it when it fails none of them (link).           *)
LinkSound ==
    /\ TypeOK
    /\ \A r \in Run : \A w \in run[r].result.world : \A d \in Doc :
          LET choice == run[r].result.links[d]
              place == run[r].result.place[d]
          IN  IF choice # BySteps THEN place = choice
              ELSE "ai" \notin ToSet(Steps) /\ Steps # <<>> =>
                   /\ place # None => Beats(w[d], place)
                   /\ \A c \in Contract : Beats(w[d], c) /\ (\A i \in DOMAIN Steps : w[d][i][c] # "fail") => place = c

(* Once a request or the task has evaluated a run, the run never shows a   *)
(* result older than what that evaluation was asked for: the values and    *)
(* links there were when it was asked (runCheck stores over any result).   *)
Fresh == \A r \in Run : run[r].status = "done" => run[r].result.seen >= run[r].asked

(* When nobody is at work on a run, its result has the contracts the user  *)
(* chose: SetCheckLink records the choice "and evaluates the run again".   *)
ChoiceShown ==
    \A r \in Run : run[r].status = "done" /\ ruleset /\ (\A a \in Actor : at[a].run = r => at[a].pc = "none")
        => run[r].result.links = links

(* A run that was started is evaluated, fails, or is deleted.              *)
RunSettles == \A r \in Run : run[r].status \in {"pending", "running"} ~> run[r].status \in {"done", "failed", "deleted"}

(* The specification of link: where a step can tell, and holds for no      *)
(* contract that remains, the document is under none.                      *)
NoMatchNoLink ==
    \A r \in Run : \A w \in run[r].result.world : \A d \in Doc :
        LET says == w[d][1]
        IN  (\A c \in Contract : says[c] # "pass") /\ (\E c \in Contract : says[c] = "fail") /\ run[r].result.links[d] = BySteps
            => run[r].result.place[d] = None
==============================================================================
