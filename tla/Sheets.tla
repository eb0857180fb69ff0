-------------------------------- MODULE Sheets ---------------------------------
(***************************************************************************)
(* The summary sheets of a case: case:sheet asks the agent for the fields  *)
(* its documents still need, one file at a time and one sheet per file at  *)
(* a time, and lays out the cells; users confirm values in the field       *)
(* column and on the sheet page, and the chat agent proposes others        *)
(* (service/sheets/sheets.go, casefields.go, service/docmodel/extract.go,  *)
(* docmodel.go, repository/postgres/fields.go, sheets.go).                 *)
(*                                                                         *)
(* The documents (segments) of the case do not change here; see Split.     *)
(* saveField is one step: it locks the rows of its slot, and a unique      *)
(* index refuses the second of two first writers.                          *)
(***************************************************************************)
EXTENDS Integers, FiniteSets, Sequences

CONSTANTS
    Sheet,         \* summary sheets of the case
    FileOf,        \* the file of each document of the case, in page order
    Key,           \* fields of the type of the documents
    Value,         \* values of a field
    Conns,         \* db.max_conns
    Calm,          \* assumption: see Dies
    MaxTry,        \* queue.Policy.MaxRetry of case:sheet
    MaxReq,        \* bound: user and agent requests in a behaviour
    MaxCrash       \* bound: process deaths

None == ""                       \* value_text of a field that was not found
Seg == DOMAIN FileOf
File == {FileOf[g] : g \in Seg}
Slot == Seg \X Key
SlotsOf(f) == {x \in Slot : FileOf[x[1]] = f}

ASSUME SheetsAssumption ==
    /\ Seg = 1..Len(FileOf) /\ File \subseteq Nat /\ IsFiniteSet(Sheet) /\ None \notin Value
    /\ Cardinality(Sheet) < Conns      \* workers of the index pool, 6, under db.max_conns, 10
    /\ Calm \in BOOLEAN /\ {MaxTry, MaxReq, MaxCrash} \subseteq Nat

VARIABLES
    fields,     \* extracted_fields of each slot, oldest first
    sheet,      \* case_sheets
    fixes,      \* field_corrections
    work,       \* the case:sheet task of each sheet and what its handler does
    reqs,       \* edits of a sheet that were checked and not stored yet
    used        \* how much of each bound has been spent

vars == <<fields, sheet, fixes, work, reqs, used>>

NoCell == [field |-> 0, ai |-> 0, aiText |-> None]
NoCells == [x \in Slot |-> NoCell]
NoWork == [pc |-> "none", try |-> 0, files |-> {}, file |-> 0, need |-> {}, reply |-> {}, cells |-> NoCells]

-----------------------------------------------------------------------------
(* Fields.  The field a slot shows is the confirmed one, else the newest   *)
(* proposal.                                                               *)

Rows(x, status) == {i \in DOMAIN fields[x] : fields[x][i].status = status}
Newest(S) == CHOOSE i \in S : \A j \in S : j <= i
Best(x) == LET first == IF Rows(x, "confirmed") # {} THEN Rows(x, "confirmed") ELSE Rows(x, "proposed")
           IN  IF first = {} THEN 0 ELSE Newest(first)
NotFound(w) == w.src # "user" /\ w.value = None
ValueAt(x, i) == IF i = 0 THEN None ELSE fields[x][i].value

(* Extract: what is not there yet, or was not found the first time.        *)
Missing(f) == {x \in SlotsOf(f) : Best(x) = 0 \/ (NotFound(fields[x][Best(x)]) /\ ~fields[x][Best(x)].again)}

(* saveField: a user's value replaces all, an agent's the proposals.       *)
Written(x, value, src, replaced) ==
    LET gone == UNION {Rows(x, status) : status \in replaced}
    IN  Append([i \in DOMAIN fields[x] |-> IF i \in gone THEN [fields[x][i] EXCEPT !.status = "superseded"] ELSE fields[x][i]],
               [value |-> value, src |-> src, status |-> IF src = "user" THEN "confirmed" ELSE "proposed", again |-> gone # {}])

SaveField(x, value, src) ==
    fields' = [fields EXCEPT ![x] = Written(x, value, src, IF src = "user" THEN {"proposed", "confirmed"} ELSE {"proposed"})]

-----------------------------------------------------------------------------
(* case:sheet.                                                             *)

Set(s, w) == work' = [work EXCEPT ![s] = w]
Goto(s, pc) == Set(s, [work[s] EXCEPT !.pc = pc])
Status(s, to) == sheet' = IF sheet[s].status = "deleted" THEN sheet ELSE [sheet EXCEPT ![s].status = to]

(* Extract keeps a connection from before the lock of the file until it    *)
(* returns; every statement takes another one for a moment.                *)
Holding == {s \in Sheet : work[s].pc \in {"lock", "have", "ask", "save"}}
FreeConn == Cardinality(Holding) < Conns

(* Mutant: a sheet that is done is built again.                            *)
Start_Again(s) ==
    /\ work[s].pc = "queued"
    /\ IF sheet[s].status = "deleted" THEN Set(s, NoWork) ELSE Goto(s, "run")
    /\ UNCHANGED <<fields, sheet, fixes, reqs, used>>

Start(s) ==
    /\ work[s].pc = "queued" /\ FreeConn
    /\ IF sheet[s].status \in {"deleted", "done"} THEN Set(s, NoWork) ELSE Goto(s, "run")
    /\ UNCHANGED <<fields, sheet, fixes, reqs, used>>

Run(s) ==
    /\ work[s].pc = "run" /\ FreeConn
    /\ Status(s, "running")
    /\ Set(s, [work[s] EXCEPT !.pc = "next", !.files = File])
    /\ UNCHANGED <<fields, fixes, reqs, used>>

NextFile(s) ==
    /\ work[s].pc = "next" /\ work[s].files # {} /\ FreeConn
    /\ \E f \in work[s].files :
          /\ \A e \in work[s].files : f <= e
          /\ Set(s, [work[s] EXCEPT !.pc = "lock", !.file = f, !.files = @ \ {f}])
    /\ UNCHANGED <<fields, sheet, fixes, reqs, used>>

(* Mutant: pg_advisory_lock is not taken.                                  *)
Lock_Free(s) ==
    /\ work[s].pc = "lock"
    /\ Goto(s, "have")
    /\ UNCHANGED <<fields, sheet, fixes, reqs, used>>

Lock(s) ==
    /\ work[s].pc = "lock"
    /\ ~\E t \in Sheet : work[t].pc \in {"have", "ask", "save"} /\ work[t].file = work[s].file
    /\ Goto(s, "have")
    /\ UNCHANGED <<fields, sheet, fixes, reqs, used>>

Have(s) ==
    /\ work[s].pc = "have" /\ FreeConn
    /\ Set(s, [work[s] EXCEPT !.pc = "ask", !.need = Missing(work[s].file)])
    /\ UNCHANGED <<fields, sheet, fixes, reqs, used>>

(* The agent is asked for all the missing fields of one document; a reply  *)
(* without JSON stores nothing.                                            *)
AskAgent(s, json) ==
    /\ work[s].pc = "ask" /\ work[s].need # {} /\ FreeConn
    /\ \E x \in work[s].need :
          LET asked == {y \in work[s].need : y[1] = x[1]}
          IN  /\ \A y \in work[s].need : x[1] <= y[1]
              /\ Set(s, [work[s] EXCEPT !.pc = IF json THEN "save" ELSE @, !.need = @ \ asked, !.reply = IF json THEN asked ELSE {}])
    /\ UNCHANGED <<fields, sheet, fixes, reqs, used>>

(* A field that cannot be saved is skipped.                                *)
SaveReply(s, x, value, ok) ==
    /\ work[s].pc = "save" /\ x \in work[s].reply /\ FreeConn
    /\ IF ok THEN SaveField(x, value, "extract") ELSE UNCHANGED fields
    /\ Set(s, [work[s] EXCEPT !.reply = @ \ {x}, !.pc = IF work[s].reply = {x} THEN "ask" ELSE @])
    /\ UNCHANGED <<sheet, fixes, reqs, used>>

Unlock(s) ==
    /\ work[s].pc = "ask" /\ work[s].need = {}
    /\ Goto(s, "next")
    /\ UNCHANGED <<fields, sheet, fixes, reqs, used>>

(* bestFields, and the cells of the field each slot shows.                 *)
Close(s) ==
    /\ work[s].pc = "next" /\ work[s].files = {} /\ FreeConn
    /\ Set(s, [work[s] EXCEPT !.pc = "close",
               !.cells = [x \in Slot |-> IF Best(x) = 0 \/ NotFound(fields[x][Best(x)]) THEN NoCell
                                         ELSE [field |-> Best(x), ai |-> Best(x), aiText |-> ValueAt(x, Best(x))]]])
    /\ UNCHANGED <<fields, sheet, fixes, reqs, used>>

Done(s) ==
    /\ work[s].pc = "close" /\ FreeConn
    /\ sheet' = IF sheet[s].status = "deleted" THEN sheet
                ELSE [sheet EXCEPT ![s] = [status |-> "done", cells |-> work[s].cells]]
    /\ Goto(s, "ack")
    /\ UNCHANGED <<fields, fixes, reqs, used>>

Ack(s) == work[s].pc = "ack" /\ Set(s, NoWork) /\ UNCHANGED <<fields, sheet, fixes, reqs, used>>

(* A step fails: the task is tried again, and its last attempt records it. *)
Retry(s) == Set(s, IF work[s].try < MaxTry THEN [NoWork EXCEPT !.pc = "queued", !.try = work[s].try + 1] ELSE NoWork)

(* Mutant: the last failure is not recorded.                               *)
Fails_Silent(s) ==
    /\ work[s].pc \in {"next", "lock", "have", "ask"}
    /\ Retry(s)
    /\ UNCHANGED <<fields, sheet, fixes, reqs, used>>

Fails(s) ==
    /\ work[s].pc \in {"next", "lock", "have", "ask"}
    /\ IF work[s].try < MaxTry THEN UNCHANGED sheet ELSE Status(s, "failed")
    /\ Retry(s)
    /\ UNCHANGED <<fields, fixes, reqs, used>>

(* The process dies, or the sheet cannot be read or its status stored:     *)
(* nothing is recorded.  Calm: never on the last attempt.                  *)
Dies(s) ==
    /\ work[s].pc \notin {"none", "create"}
    /\ Calm => work[s].try < MaxTry
    /\ used.crash < MaxCrash /\ used' = [used EXCEPT !.crash = @ + 1]
    /\ Retry(s)
    /\ UNCHANGED <<fields, sheet, fixes, reqs>>

-----------------------------------------------------------------------------
(* Requests.                                                               *)

Ask == used.req < MaxReq /\ used' = [used EXCEPT !.req = @ + 1]

(* Create: the sheet, then its task.                                       *)
Create(s) ==
    /\ sheet[s].status = "none"
    /\ sheet' = [sheet EXCEPT ![s].status = "pending"]
    /\ Goto(s, "create")
    /\ UNCHANGED <<fields, fixes, reqs, used>>

CreateTask(s, ok) ==
    /\ work[s].pc = "create"
    /\ IF ok THEN Goto(s, "queued") /\ UNCHANGED sheet
             ELSE Set(s, NoWork) /\ Status(s, "failed")
    /\ UNCHANGED <<fields, fixes, reqs, used>>

(* DELETE sheet, at any time; its corrections go with it.                  *)
Delete(s) ==
    /\ sheet[s].status \notin {"none", "deleted"} /\ Ask
    /\ sheet' = [sheet EXCEPT ![s] = [status |-> "deleted", cells |-> NoCells]]
    /\ fixes' = {c \in fixes : c.sheet # s}
    /\ UNCHANGED <<fields, work, reqs>>

(* SaveCaseField, and saveOne of the chat agent.                           *)
UserField(x, value) ==
    /\ Ask /\ SaveField(x, value, "user")
    /\ UNCHANGED <<sheet, fixes, work, reqs>>

ChatField(x, value) ==
    /\ Ask /\ SaveField(x, value, "chat")
    /\ UNCHANGED <<sheet, fixes, work, reqs>>

(* SaveEdits of the service: the sheet is read, an edit that changes       *)
(* nothing is left out, and what differs from the AI's value is a          *)
(* correction.                                                             *)
EditAsked(s, x, value) ==
    LET cell == sheet[s].cells[x]
    IN  /\ sheet[s].status = "done" /\ Ask
        /\ ~(cell.field # 0 /\ fields[x][cell.field].status = "confirmed" /\ fields[x][cell.field].value = value)
        /\ reqs' = reqs \cup {[sheet |-> s, slot |-> x, value |-> value, corrects |-> value # cell.aiText, id |-> used.req]}
        /\ UNCHANGED <<fields, sheet, fixes, work>>

(* SaveEdits of the repository, one transaction: the sheet is gone, or the *)
(* field is saved, its cell points at it, and the last correction of the   *)
(* cell is replaced.                                                       *)
EditStored(r, kept) ==
    /\ reqs' = reqs \ {r}
    /\ IF sheet[r.sheet].status = "deleted" THEN UNCHANGED <<fields, sheet, fixes>>
       ELSE /\ SaveField(r.slot, r.value, "user")
            /\ sheet' = [sheet EXCEPT ![r.sheet].cells[r.slot].field = Len(fields[r.slot]) + 1]
            /\ fixes' = kept \cup (IF r.corrects THEN {[sheet |-> r.sheet, slot |-> r.slot, value |-> r.value]} ELSE {})
    /\ UNCHANGED <<work, used>>

(* Mutant: the correction before is not reverted.                          *)
EditSave_Beside(r) == EditStored(r, fixes)
EditSave(r) == EditStored(r, {c \in fixes : ~(c.sheet = r.sheet /\ c.slot = r.slot)})

EditFails(r) == reqs' = reqs \ {r} /\ UNCHANGED <<fields, sheet, fixes, work, used>>

-----------------------------------------------------------------------------

Init ==
    /\ fields = [x \in Slot |-> <<>>]
    /\ sheet = [s \in Sheet |-> [status |-> "none", cells |-> NoCells]]
    /\ fixes = {} /\ work = [s \in Sheet |-> NoWork] /\ reqs = {}
    /\ used = [req |-> 0, crash |-> 0]

Build(s) ==
    \/ \E ok \in BOOLEAN : CreateTask(s, ok)
    \/ Start(s) \/ Run(s) \/ NextFile(s) \/ Lock(s) \/ Have(s) \/ Unlock(s) \/ Close(s) \/ Done(s) \/ Ack(s)
    \/ \E json \in BOOLEAN : AskAgent(s, json)
    \/ \E x \in Slot, value \in Value \cup {None}, ok \in BOOLEAN : SaveReply(s, x, value, ok)

Next ==
    \/ \E s \in Sheet : Create(s) \/ Build(s) \/ Fails(s) \/ Dies(s) \/ Delete(s)
    \/ \E x \in Slot, value \in Value \cup {None} :
          UserField(x, value) \/ ChatField(x, value) \/ \E s \in Sheet : EditAsked(s, x, value)
    \/ \E r \in reqs : EditSave(r) \/ EditFails(r)

Spec == Init /\ [][Next]_vars

(* A request that creates a sheet and a handler that runs go on; a sheet   *)
(* that waits for the lock of a file gets it once it is free again and     *)
(* again (the database serves the waiters in order).                       *)
Fairness == \A s \in Sheet : WF_vars(Build(s)) /\ SF_vars(Lock(s))
FairSpec == Spec /\ Fairness

-----------------------------------------------------------------------------
(* Properties.                                                             *)

TypeOK ==
    /\ \A x \in Slot : \A i \in DOMAIN fields[x] :
          fields[x][i] \in [value : Value \cup {None}, src : {"user", "extract", "chat"},
                            status : {"proposed", "confirmed", "superseded"}, again : BOOLEAN]
    /\ \A s \in Sheet : /\ sheet[s].status \in {"none", "pending", "running", "done", "failed", "deleted"}
                        /\ \A x \in Slot : {sheet[s].cells[x].field, sheet[s].cells[x].ai} \subseteq {0} \cup DOMAIN fields[x]
                        /\ work[s].try \in 0..MaxTry /\ work[s].reply \cup work[s].need \subseteq SlotsOf(work[s].file)

(* A value the user gave is what its slot shows until the user gives       *)
(* another, however late an answer of an agent arrives.                    *)
UserWins ==
    \A x \in Slot : LET mine == {i \in DOMAIN fields[x] : fields[x][i].src = "user"}
                    IN  mine # {} => Best(x) = Newest(mine)

(* A field is not asked for again once the extraction found a value, and   *)
(* not more than twice when it did not, whatever sheets are built at the   *)
(* same time, retried or deleted meanwhile (Extract).                      *)
AskedAtMostTwice ==
    \A x \in Slot : LET answers == {i \in DOMAIN fields[x] : fields[x][i].src = "extract"}
                    IN  Cardinality(answers) <= 2 /\ \A i, j \in answers : i < j => fields[x][i].value = None

(* The values kept for a field: the user's stands, and the agent was not   *)
(* asked for it over and over.                                             *)
FieldsSound == UserWins /\ AskedAtMostTwice

(* The corrections on record are what the sheets show: one, with the value *)
(* shown, for a cell that differs from what the AI gave, and none for any  *)
(* other, whatever edits of one cell overlap.                              *)
CorrectionsAgree ==
    \A s \in Sheet : sheet[s].status = "done" => \A x \in Slot :
        LET cell == sheet[s].cells[x]
            shown == ValueAt(x, cell.field)
        IN  {c.value : c \in {c \in fixes : c.sheet = s /\ c.slot = x}} = IF shown = cell.aiText THEN {} ELSE {shown}

(* Cells point at fields of their slot, and corrections tell what changed. *)
CellsSound == TypeOK /\ CorrectionsAgree

(* A sheet that is done stays done, and its cells change by edits alone: a *)
(* task that is tried again finds it finished.                             *)
DoneStays ==
    [][\A s \in Sheet : sheet[s].status = "done" =>
          \/ sheet'[s].status = "deleted"
          \/ sheet'[s].status = "done" /\ \A x \in Slot : \/ sheet'[s].cells[x] = sheet[s].cells[x]
                                                          \/ \E r \in reqs : r.sheet = s /\ r.slot = x]_vars

(* A sheet that was asked for is built, fails, or is deleted.              *)
SheetSettles == \A s \in Sheet : sheet[s].status \in {"pending", "running"} ~> sheet[s].status \in {"done", "failed", "deleted"}

(* "Get returns a sheet with the current value of each cell" (sheets.go).  *)
ShowsCurrent ==
    \A s \in Sheet, x \in Slot : sheet[s].status = "done" /\ sheet[s].cells[x].field # 0 =>
        ValueAt(x, sheet[s].cells[x].field) = ValueAt(x, Best(x))
==============================================================================
