------------------------------ MODULE DocLifecycle -----------------------------
(***************************************************************************)
(* What the pipeline promises of one document, with no task, counter or    *)
(* window in sight: the lifecycle of its status (the constants of          *)
(* internal/types/knowledge.go), and what a status says of the pages of    *)
(* the current generation.  DocPipeline implements it.                     *)
(***************************************************************************)
EXTENDS Integers

CONSTANT Pages

VARIABLES status, gen, read, lost, skipped   \* lost: pages given up; skipped: not picked

vars == <<status, gen, read, lost, skipped>>
pages == <<read, lost, skipped>>

Working == {"queued", "splitting", "parsing", "assembling", "indexing"}
Finished == {"completed", "partial", "failed", "not_started"}
Stopped == {"cancelled", "deleting"}

Init ==
    /\ status = "queued" /\ gen = 1
    /\ read = {} /\ lost = {} /\ skipped = {}

Move(from, to) == status = from /\ status' = to /\ UNCHANGED <<gen, pages>>

Split == Move("queued", "splitting")
Held == Move("splitting", "not_started") /\ skipped = Pages
Parse == Move("splitting", "parsing")

(* What was on its way to a document when it was stopped still arrives:    *)
(* its pages become known, they are read, or given up.                     *)
Probe ==
    /\ status \in {"splitting"} \cup Stopped
    /\ read = {} /\ lost = {} /\ skipped' \in {{}, Pages}
    /\ UNCHANGED <<status, gen, read, lost>>

FinishPage(p) ==
    /\ status \in {"parsing"} \cup Stopped
    /\ p \notin read \cup lost \cup skipped
    /\ \/ read' = read \cup {p} /\ UNCHANGED lost
       \/ lost' = lost \cup {p} /\ UNCHANGED read
    /\ UNCHANGED <<status, gen, skipped>>

Whole == read \cup lost \cup skipped = Pages

Assemble == Whole /\ Move("parsing", "assembling")
Index == Whole /\ read # {} /\ Move("assembling", "indexing")
Complete == Whole /\ lost = {} /\ Move("indexing", "completed")
Partial == Whole /\ lost # {} /\ read # {} /\ Move("indexing", "partial")

Fail ==
    /\ status \in {"splitting", "indexing"} \/ (status = "assembling" /\ read = {})
    /\ status' = "failed" /\ UNCHANGED <<gen, pages>>

Cancel == status # "deleting" /\ status' = "cancelled" /\ UNCHANGED <<gen, pages>>
Delete == status' = "deleting" /\ UNCHANGED <<gen, pages>>
Purge == status = "deleting" /\ read' = {} /\ lost' = {} /\ skipped' = {} /\ UNCHANGED <<status, gen>>

Reparse ==
    /\ status # "deleting" /\ status' = "queued" /\ gen' = gen + 1
    /\ read' = {} /\ lost' = {} /\ skipped' = {}

(* A page reparse takes pages back, and then resumes the parse.            *)
PutBack(P) ==
    /\ status \in Finished \cup Stopped
    /\ read' = read \ P /\ lost' = lost \ P /\ skipped' = skipped \ P
    /\ UNCHANGED <<status, gen>>
Resume == status \in Finished /\ status' = "parsing" /\ UNCHANGED <<gen, pages>>

Next ==
    \/ Split \/ Probe \/ Held \/ Parse
    \/ \E p \in Pages : FinishPage(p)
    \/ Assemble \/ Index \/ Complete \/ Partial \/ Fail
    \/ Cancel \/ Delete \/ Purge \/ Reparse
    \/ \E P \in SUBSET Pages : PutBack(P)
    \/ Resume

Spec == Init /\ [][Next]_vars
=============================================================================
