----------------------------- MODULE SheetsProofs ------------------------------
(***************************************************************************)
(* For any documents, fields, sheets and requests: a value the user gave   *)
(* is the one its slot shows, no field is asked for over and over, a sheet *)
(* that is done stays done, and the corrections on record are those its    *)
(* cells show.                                                             *)
(***************************************************************************)
EXTENDS Sheets, FiniteSetTheorems, TLAPS

Text == Value \cup {None}
Source == {"user", "extract", "chat"}
FieldRow == [value : Text, src : Source, status : {"proposed", "confirmed", "superseded"}, again : BOOLEAN]
Cell == [field : Nat, ai : Nat, aiText : Text]
SheetStatus == {"none", "pending", "running", "done", "failed", "deleted"}
SheetRow == [status : SheetStatus, cells : [Slot -> Cell]]
Busy == {"create", "run", "next", "lock", "have", "ask", "save", "close"}
Place == Busy \cup {"none", "queued", "ack"}
Task == [pc : Place, try : 0..MaxTry, files : SUBSET File, file : Nat,
         need : SUBSET Slot, reply : SUBSET Slot, cells : [Slot -> Cell]]

(* The rows of a slot: what the user gave is confirmed until the user      *)
(* gives another value, and nothing else is.                               *)
Sorted(q) ==
    /\ \A i \in DOMAIN q : q[i].status = "confirmed" => q[i].src = "user"
    /\ \A i \in DOMAIN q : q[i].src = "user" => q[i].status # "proposed"
    /\ \A i, j \in DOMAIN q : q[i].status = "confirmed" /\ q[j].src = "user" => j <= i
    /\ \A i, j \in DOMAIN q : q[i].status = "proposed" /\ q[j].status = "proposed" => i = j
    /\ (\E i \in DOMAIN q : q[i].src = "user") => \E i \in DOMAIN q : q[i].status = "confirmed"

FieldsOK == fields \in [Slot -> Seq(FieldRow)] /\ \A x \in Slot : Sorted(fields[x])

(* Cells that point at rows of F, and the text of such a row.              *)
PointsIn(F, cells) == \A x \in Slot : {cells[x].field, cells[x].ai} \subseteq {0} \cup DOMAIN F[x]
TextIn(F, x, i) == IF i = 0 THEN None ELSE F[x][i].value

SheetsOK == sheet \in [Sheet -> SheetRow] /\ \A s \in Sheet : PointsIn(fields, sheet[s].cells)

(* A task at w, of a sheet of some status: it asks for fields of the file  *)
(* it has locked, its sheet is not done while it works on it, and the      *)
(* cells it is about to store are those of the fields they point at.       *)
Fits(F, status, w) ==
    /\ w \in Task /\ PointsIn(F, w.cells)
    /\ w.need \cup w.reply \subseteq SlotsOf(w.file)
    /\ w.pc # "save" => w.reply = {}
    /\ w.pc \notin {"ask", "save"} => w.need = {}
    /\ w.pc \in Busy => status # "done"
    /\ status = "none" => w.pc = "none"
    /\ w.pc = "close" => \A x \in Slot : w.cells[x].aiText = TextIn(F, x, w.cells[x].field)

WorkOK == work \in [Sheet -> Task] /\ \A s \in Sheet : Fits(fields, sheet[s].status, work[s])

(* An edit that was checked is of a sheet that was done then: its cells    *)
(* keep what the AI gave.                                                  *)
Checked(r, sh) ==
    /\ r.sheet \in Sheet /\ r.slot \in Slot /\ r.value \in Text /\ r.corrects \in BOOLEAN
    /\ sh[r.sheet].status \in {"done", "deleted"}
    /\ sh[r.sheet].status = "done" => (r.corrects <=> r.value # sh[r.sheet].cells[r.slot].aiText)

ReqsOK == \A r \in reqs : Checked(r, sheet)

Fixed(fx, s, x) == {c.value : c \in {c \in fx : c.sheet = s /\ c.slot = x}}
Agrees(F, fx, cell, s, x) ==
    Fixed(fx, s, x) = IF TextIn(F, x, cell.field) = cell.aiText THEN {} ELSE {TextIn(F, x, cell.field)}

FixesOK ==
    /\ \A c \in fixes : c.sheet \in Sheet /\ sheet[c.sheet].status = "done"
    /\ \A s \in Sheet : sheet[s].status = "done" => \A x \in Slot : Agrees(fields, fixes, sheet[s].cells[x], s, x)

IInv == FieldsOK /\ SheetsOK /\ WorkOK /\ ReqsOK /\ FixesOK

-----------------------------------------------------------------------------
(* Fields.                                                                 *)

(* Rows are added and superseded, and never change their values.           *)
Grows == \A x \in Slot : /\ DOMAIN fields[x] \subseteq DOMAIN fields'[x]
                         /\ \A i \in DOMAIN fields[x] : fields'[x][i].value = fields[x][i].value

(* What saveField leaves of the rows q of its slot.                        *)
Replaced(src) == IF src = "user" THEN {"proposed", "confirmed"} ELSE {"proposed"}
WrittenOver(q, to, value, src) ==
    /\ q \in Seq(FieldRow) /\ Len(q) \in Nat /\ DOMAIN q = 1..Len(q)
    /\ to \in Seq(FieldRow) /\ Len(to) = Len(q) + 1 /\ DOMAIN to = 1..(Len(q) + 1)
    /\ to[Len(q) + 1] = [value |-> value, src |-> src, status |-> IF src = "user" THEN "confirmed" ELSE "proposed",
                         again |-> \E i \in DOMAIN q : q[i].status \in Replaced(src)]
    /\ \A i \in 1..Len(q) : /\ to[i].value = q[i].value /\ to[i].src = q[i].src /\ to[i].again = q[i].again
                            /\ to[i].status = IF q[i].status \in Replaced(src) THEN "superseded" ELSE q[i].status

LEMMA FieldWritten ==
    ASSUME FieldsOK, NEW x \in Slot, NEW value \in Text, NEW src \in Source, SaveField(x, value, src)
    PROVE  /\ fields' \in [Slot -> Seq(FieldRow)] /\ \A y \in Slot \ {x} : fields'[y] = fields[y]
           /\ WrittenOver(fields[x], fields'[x], value, src)
<1> DEFINE q == fields[x]
           gone == UNION {Rows(x, status) : status \in Replaced(src)}
           new == [value |-> value, src |-> src, status |-> IF src = "user" THEN "confirmed" ELSE "proposed", again |-> gone # {}]
           old == [i \in DOMAIN q |-> IF i \in gone THEN [q[i] EXCEPT !.status = "superseded"] ELSE q[i]]
<1>1. q \in Seq(FieldRow) /\ Len(q) \in Nat /\ DOMAIN q = 1..Len(q)
  BY DEF FieldsOK
<1>2. /\ \A i \in DOMAIN q : i \in gone <=> q[i].status \in Replaced(src)
      /\ gone \subseteq DOMAIN q
  BY DEF Rows
<1>3. new \in FieldRow
  BY DEF FieldRow, Source, Text
<1>6. fields' = [fields EXCEPT ![x] = Append(old, new)]
  BY DEF SaveField, Written, Replaced
<1> HIDE DEF gone
<1>4. old \in Seq(FieldRow) /\ Len(old) = Len(q)
  <2>1. ASSUME NEW i \in 1..Len(q) PROVE q[i] \in FieldRow
    BY <1>1
  <2>2. \A w \in FieldRow : [w EXCEPT !.status = "superseded"] \in FieldRow
    BY DEF FieldRow
  <2>3. old = [i \in 1..Len(q) |-> IF i \in gone THEN [q[i] EXCEPT !.status = "superseded"] ELSE q[i]]
    BY <1>1
  <2>4. \A i \in 1..Len(q) : old[i] \in FieldRow
    BY <2>1, <2>2, <2>3
  <2> HIDE DEF old
  <2>5. old \in [1..Len(q) -> FieldRow]
    BY <2>3, <2>4
  <2> QED
    BY <1>1, <2>5
<1>8. \A i \in 1..Len(q) : /\ old[i].value = q[i].value /\ old[i].src = q[i].src /\ old[i].again = q[i].again
                           /\ old[i].status = IF q[i].status \in Replaced(src) THEN "superseded" ELSE q[i].status
  BY <1>1, <1>2 DEF old, FieldRow
<1>9. new = [value |-> value, src |-> src, status |-> IF src = "user" THEN "confirmed" ELSE "proposed",
             again |-> \E i \in DOMAIN q : q[i].status \in Replaced(src)]
  BY <1>2
<1> HIDE DEF new, old
<1> DEFINE app == Append(old, new)
<1>5. /\ app \in Seq(FieldRow) /\ Len(app) = Len(q) + 1 /\ DOMAIN app = 1..(Len(q) + 1)
      /\ app[Len(q) + 1] = new /\ \A i \in 1..Len(q) : app[i] = old[i]
  BY <1>1, <1>3, <1>4
<1> HIDE DEF app
<1>7. /\ fields' \in [Slot -> Seq(FieldRow)] /\ fields'[x] = app
      /\ \A y \in Slot \ {x} : fields'[y] = fields[y]
  BY <1>5, <1>6 DEF FieldsOK, app
<1> QED
  BY <1>1, <1>5, <1>7, <1>8, <1>9 DEF WrittenOver

LEMMA SortedStays ==
    ASSUME NEW q, NEW to, NEW value, NEW src \in Source, WrittenOver(q, to, value, src), Sorted(q)
    PROVE  Sorted(to)
<1> DEFINE n == Len(q) + 1
<1>1. /\ Len(q) \in Nat /\ n \in Nat /\ n = Len(q) + 1 /\ DOMAIN q = 1..Len(q) /\ DOMAIN to = 1..n
      /\ to[n].src = src /\ to[n].status = IF src = "user" THEN "confirmed" ELSE "proposed"
      /\ \A i \in 1..Len(q) : /\ to[i].src = q[i].src
                              /\ to[i].status = IF q[i].status \in Replaced(src) THEN "superseded" ELSE q[i].status
  BY DEF WrittenOver
<1> HIDE DEF n
<1>2. CASE src = "user"
  <2>1. ASSUME NEW i \in 1..Len(q) PROVE to[i].status = "superseded"
    <3>1. q[i] \in FieldRow
      BY <2>1 DEF WrittenOver
    <3> QED
      BY <1>1, <1>2, <2>1, <3>1 DEF Replaced, FieldRow
  <2> QED
    BY <1>1, <1>2, <2>1 DEF Sorted
<1>3. CASE src # "user"
  <2>1. \A i \in 1..Len(q) : /\ to[i].src = q[i].src /\ to[i].status # "proposed"
                             /\ to[i].status = "confirmed" <=> q[i].status = "confirmed"
    BY <1>1, <1>3 DEF Replaced
  <2>2. to[n].src # "user" /\ to[n].status = "proposed"
    BY <1>1, <1>3
  <2> QED
    BY <1>1, <2>1, <2>2 DEF Sorted
<1> QED
  BY <1>2, <1>3

LEMMA SaveFieldKeeps ==
    ASSUME FieldsOK, NEW x \in Slot, NEW value \in Text, NEW src \in Source, SaveField(x, value, src)
    PROVE  /\ FieldsOK' /\ Grows
           /\ Len(fields[x]) + 1 \in DOMAIN fields'[x] /\ fields'[x][Len(fields[x]) + 1].value = value
<1>1. /\ fields' \in [Slot -> Seq(FieldRow)] /\ \A y \in Slot \ {x} : fields'[y] = fields[y]
      /\ WrittenOver(fields[x], fields'[x], value, src)
  BY FieldWritten
<1>2. \A y \in Slot : Sorted(fields[y])
  BY DEF FieldsOK
<1>3. Sorted(fields'[x])
  BY <1>1, <1>2, SortedStays
<1>4. FieldsOK'
  BY <1>1, <1>2, <1>3 DEF FieldsOK
<1>5. /\ Len(fields[x]) \in Nat /\ DOMAIN fields[x] = 1..Len(fields[x]) /\ DOMAIN fields'[x] = 1..(Len(fields[x]) + 1)
      /\ \A i \in 1..Len(fields[x]) : fields'[x][i].value = fields[x][i].value
      /\ fields'[x][Len(fields[x]) + 1].value = value
  BY <1>1 DEF WrittenOver
<1>6. Grows
  BY <1>1, <1>5 DEF Grows
<1> QED
  BY <1>4, <1>5, <1>6

(* The confirmed row of a slot is the newest of the user's.                *)
LEMMA ConfirmedIsNewest == FieldsOK => UserWins
<1> SUFFICES ASSUME FieldsOK, NEW x \in Slot,
                    NEW k \in DOMAIN fields[x], fields[x][k].src = "user"
             PROVE  Best(x) = Newest({i \in DOMAIN fields[x] : fields[x][i].src = "user"})
  BY DEF UserWins
<1> DEFINE mine == {i \in DOMAIN fields[x] : fields[x][i].src = "user"}
<1>1. /\ Sorted(fields[x]) /\ DOMAIN fields[x] \subseteq Nat
      /\ mine \subseteq Nat /\ Rows(x, "confirmed") \subseteq mine
  BY DEF FieldsOK, Sorted, Rows
<1>2. PICK m \in Rows(x, "confirmed") : TRUE
  BY <1>1 DEF Sorted, Rows
<1>3. m \in mine /\ \A j \in mine : j <= m
  BY <1>1 DEF Sorted, Rows
<1>4. \A S \in SUBSET Nat : m \in S /\ (\A j \in S : j <= m) => Newest(S) = m
  <2> SUFFICES ASSUME NEW S \in SUBSET Nat, m \in S, \A j \in S : j <= m
               PROVE  Newest(S) = m
    OBVIOUS
  <2>1. \E i \in S : \A j \in S : j <= i
    OBVIOUS
  <2>2. Newest(S) \in S /\ \A j \in S : j <= Newest(S)
    BY <2>1 DEF Newest
  <2> DEFINE top == Newest(S)
  <2> HIDE DEF top
  <2>3. top \in S /\ m <= top /\ top <= m
    BY <2>2 DEF top
  <2>4. top \in Nat /\ m \in Nat
    BY <2>3
  <2>5. top = m
    BY <2>3, <2>4
  <2> QED
    BY <2>5 DEF top
<1>5. Newest(Rows(x, "confirmed")) = m /\ Newest(mine) = m
  BY <1>1, <1>3, <1>4
<1> QED
  BY <1>2, <1>5 DEF Best

(* What points at a row of a slot points at it for ever, and at the same   *)
(* text.                                                                   *)
LEMMA PointersStay ==
    ASSUME FieldsOK, FieldsOK', Grows, NEW cells \in [Slot -> Cell], PointsIn(fields, cells)
    PROVE  /\ PointsIn(fields', cells)
           /\ \A x \in Slot : TextIn(fields', x, cells[x].field) = TextIn(fields, x, cells[x].field)
<1>1. ASSUME NEW x \in Slot
      PROVE  /\ {cells[x].field, cells[x].ai} \subseteq {0} \cup DOMAIN fields'[x]
             /\ TextIn(fields', x, cells[x].field) = TextIn(fields, x, cells[x].field)
  BY <1>1 DEF Grows, PointsIn, TextIn
<1> QED
  BY <1>1 DEF PointsIn

LEMMA FitsStays ==
    ASSUME FieldsOK, FieldsOK', Grows, NEW status, NEW w, Fits(fields, status, w)
    PROVE  Fits(fields', status, w)
<1>1. w.cells \in [Slot -> Cell] /\ PointsIn(fields, w.cells)
  BY DEF Fits, Task
<1>2. PointsIn(fields', w.cells) /\ \A x \in Slot : TextIn(fields', x, w.cells[x].field) = TextIn(fields, x, w.cells[x].field)
  BY <1>1, PointersStay
<1> QED
  BY <1>2 DEF Fits

LEMMA SameFields == ASSUME FieldsOK, UNCHANGED fields PROVE FieldsOK' /\ Grows
BY DEF FieldsOK, Grows

LEMMA EmptyCells ==
    /\ NoCells \in [Slot -> Cell]
    /\ \A F : PointsIn(F, NoCells)
BY DEF NoCells, NoCell, Cell, Text, PointsIn

LEMMA QueuedFits ==
    ASSUME NEW F, NEW status, NEW try \in 0..MaxTry, NEW pc \in {"none", "queued"}
    PROVE  /\ NoWork \in Task /\ [NoWork EXCEPT !.pc = pc, !.try = try] \in Task
           /\ Fits(F, status, NoWork)
           /\ status # "none" => Fits(F, status, [NoWork EXCEPT !.pc = pc, !.try = try])
<1>1. 0 \in 0..MaxTry /\ MaxTry \in Nat
  BY SheetsAssumption
<1>2. NoWork \in Task /\ [NoWork EXCEPT !.pc = pc, !.try = try] \in Task
  BY <1>1, EmptyCells DEF NoWork, Task, Place, Busy
<1> QED
  BY <1>2, EmptyCells DEF Fits, NoWork, Busy

LEMMA IdleFits == ASSUME NEW F, NEW status PROVE Fits(F, status, NoWork)
<1>1. 0 \in 0..MaxTry
  BY SheetsAssumption
<1> QED
  BY <1>1, QueuedFits

-----------------------------------------------------------------------------
(* A step of a task, with the field it stores and the status it sets.      *)

LEMMA TaskStep ==
    ASSUME IInv, FieldsOK', Grows,
           NEW s \in Sheet, NEW w, NEW to \in SheetStatus,
           work' = [work EXCEPT ![s] = w], sheet' = [sheet EXCEPT ![s].status = to],
           to = sheet[s].status \/ (sheet[s].status \notin {"done", "deleted"} /\ to # "done"),
           Fits(fields, to, w), UNCHANGED <<fixes, reqs>>
    PROVE  IInv'
<1>1. /\ sheet \in [Sheet -> SheetRow] /\ work \in [Sheet -> Task]
      /\ \A t \in Sheet : PointsIn(fields, sheet[t].cells) /\ sheet[t].cells \in [Slot -> Cell]
  BY DEF IInv, SheetsOK, WorkOK, SheetRow
<1>2. /\ sheet' \in [Sheet -> SheetRow] /\ sheet'[s].status = to
      /\ \A t \in Sheet : sheet'[t].cells = sheet[t].cells
      /\ \A t \in Sheet \ {s} : sheet'[t] = sheet[t]
  BY <1>1 DEF SheetRow
<1>4. \A t \in Sheet : sheet'[t].status = "done" <=> sheet[t].status = "done"
  BY <1>2
<1>5. SheetsOK'
  BY <1>1, <1>2, PointersStay DEF IInv, SheetsOK
<1>6. WorkOK'
  <2>1. \A t \in Sheet : Fits(fields', sheet[t].status, work[t]) /\ Fits(fields', to, w)
    BY FitsStays DEF IInv, WorkOK
  <2>2. w \in Task
    BY DEF Fits
  <2> QED
    BY <1>1, <1>2, <2>1, <2>2 DEF WorkOK
<1>7. ReqsOK'
  <2>1. ASSUME NEW r \in reqs PROVE Checked(r, sheet')
    <3>1. Checked(r, sheet)
      BY DEF IInv, ReqsOK
    <3> QED
      BY <1>2, <1>4, <3>1 DEF Checked
  <2> QED
    BY <2>1 DEF ReqsOK
<1>8. FixesOK'
  <2>1. ASSUME NEW t \in Sheet, sheet'[t].status = "done", NEW x \in Slot
        PROVE  Agrees(fields', fixes, sheet'[t].cells[x], t, x)
    <3>1. Agrees(fields, fixes, sheet[t].cells[x], t, x)
      BY <1>4, <2>1 DEF IInv, FixesOK
    <3>2. TextIn(fields', x, sheet[t].cells[x].field) = TextIn(fields, x, sheet[t].cells[x].field)
      BY <1>1, PointersStay DEF IInv
    <3> QED
      BY <1>2, <3>1, <3>2 DEF Agrees
  <2>2. \A c \in fixes : c.sheet \in Sheet /\ sheet'[c.sheet].status = "done"
    BY <1>4 DEF IInv, FixesOK
  <2> QED
    BY <2>1, <2>2 DEF FixesOK
<1> QED
  BY <1>5, <1>6, <1>7, <1>8 DEF IInv

(* A step of a task alone.                                                 *)
LEMMA WorkStep ==
    ASSUME IInv, NEW s \in Sheet, NEW w, work' = [work EXCEPT ![s] = w],
           Fits(fields, sheet[s].status, w), UNCHANGED <<fields, sheet, fixes, reqs>>
    PROVE  IInv'
<1>1. sheet \in [Sheet -> SheetRow] /\ sheet[s].status \in SheetStatus
  BY DEF IInv, SheetsOK, SheetRow
<1>2. sheet' = [sheet EXCEPT ![s].status = sheet[s].status]
  BY <1>1 DEF SheetRow
<1> QED
  BY <1>1, <1>2, SameFields, TaskStep DEF IInv

(* Status of a sheet that is not done, with a step of its task.            *)
LEMMA StatusStep ==
    ASSUME IInv, NEW s \in Sheet, NEW w, NEW to \in SheetStatus \ {"none", "done"}, work' = [work EXCEPT ![s] = w],
           sheet[s].status \notin {"none", "done"}, Status(s, to), UNCHANGED <<fields, fixes, reqs>>,
           \A st \in SheetStatus \ {"none", "done"} : Fits(fields, st, w)
    PROVE  IInv'
<1>1. sheet \in [Sheet -> SheetRow] /\ sheet[s].status \in SheetStatus
  BY DEF IInv, SheetsOK, SheetRow
<1>2. CASE sheet[s].status = "deleted"
  BY <1>1, <1>2, WorkStep DEF Status
<1>3. CASE sheet[s].status # "deleted"
  BY <1>1, <1>3, SameFields, TaskStep DEF Status, IInv
<1> QED
  BY <1>2, <1>3

(* The field a slot shows is one of its rows.                              *)
LEMMA BestIsRow ==
    ASSUME FieldsOK, NEW x \in Slot
    PROVE  /\ Best(x) \in {0} \cup DOMAIN fields[x] /\ Best(x) \in Nat
           /\ TextIn(fields, x, Best(x)) \in Text
<1> DEFINE first == IF Rows(x, "confirmed") # {} THEN Rows(x, "confirmed") ELSE Rows(x, "proposed")
<1>1. /\ fields[x] \in Seq(FieldRow) /\ Sorted(fields[x])
      /\ DOMAIN fields[x] = 1..Len(fields[x]) /\ Len(fields[x]) \in Nat
  BY DEF FieldsOK
<1>2. first \subseteq DOMAIN fields[x] /\ \A i, j \in first : i <= j
  BY <1>1 DEF Rows, Sorted
<1>3. first # {} => Newest(first) \in first
  <2> HIDE DEF first
  <2>1. first # {} => \E i \in first : \A j \in first : j <= i
    BY <1>2
  <2> QED
    BY <2>1 DEF Newest
<1>4. Best(x) = IF first = {} THEN 0 ELSE Newest(first)
  BY DEF Best
<1> HIDE DEF first
<1>5. Best(x) \in {0} \cup DOMAIN fields[x]
  BY <1>2, <1>3, <1>4
<1>6. \A i \in 1..Len(fields[x]) : fields[x][i].value \in Text
  <2>1. \A i \in 1..Len(fields[x]) : fields[x][i] \in FieldRow
    BY <1>1
  <2> QED
    BY <2>1 DEF FieldRow
<1> QED
  BY <1>1, <1>5, <1>6 DEF TextIn, Text

-----------------------------------------------------------------------------
(* The steps of a task.                                                    *)

LEMMA RetryStep ==
    ASSUME IInv, NEW s \in Sheet, work[s].pc # "none", Retry(s), UNCHANGED <<fields, sheet, fixes, reqs>>
    PROVE  IInv'
<1> DEFINE w == IF work[s].try < MaxTry THEN [NoWork EXCEPT !.pc = "queued", !.try = work[s].try + 1] ELSE NoWork
<1>1. work' = [work EXCEPT ![s] = w]
  BY DEF Retry, Set
<1>2. sheet[s].status # "none" /\ work[s].try \in 0..MaxTry /\ MaxTry \in Nat
  BY SheetsAssumption DEF IInv, WorkOK, Fits, Task
<1>3. Fits(fields, sheet[s].status, w)
  <2>1. CASE work[s].try < MaxTry
    <3>1. work[s].try + 1 \in 0..MaxTry
      BY <1>2, <2>1
    <3> QED
      BY <1>2, <2>1, <3>1, QueuedFits
  <2>2. CASE ~(work[s].try < MaxTry)
    BY <2>2, IdleFits
  <2> QED
    BY <2>1, <2>2
<1> QED
  BY <1>1, <1>3, WorkStep

LEMMA FailsStep == ASSUME IInv, NEW s \in Sheet, Fails(s) PROVE IInv'
<1>1. work[s].pc \in Busy /\ work[s].pc # "none"
  BY DEF Fails, Busy
<1>2. CASE work[s].try < MaxTry
  BY <1>1, <1>2, RetryStep DEF Fails
<1>3. CASE ~(work[s].try < MaxTry)
  <2>1. sheet[s].status \notin {"none", "done"}
    BY <1>1 DEF IInv, WorkOK, Fits
  <2>2. Status(s, "failed") /\ work' = [work EXCEPT ![s] = NoWork]
    BY <1>3 DEF Fails, Retry, Set
  <2>3. \A st \in SheetStatus : Fits(fields, st, NoWork)
    BY IdleFits
  <2> QED
    BY <2>1, <2>2, <2>3, StatusStep DEF Fails, SheetStatus
<1> QED
  BY <1>2, <1>3

LEMMA CreateStep == ASSUME IInv, NEW s \in Sheet, Create(s) PROVE IInv'
<1> DEFINE w == [work[s] EXCEPT !.pc = "create"]
<1>1. work[s] \in Task /\ Fits(fields, "none", work[s])
  BY DEF IInv, WorkOK, Create
<1>2. Fits(fields, "pending", w)
  BY <1>1 DEF Fits, Task, Place, Busy
<1>3. /\ work' = [work EXCEPT ![s] = w] /\ sheet' = [sheet EXCEPT ![s].status = "pending"]
      /\ sheet[s].status = "none" /\ UNCHANGED <<fields, fixes, reqs>>
  BY DEF Create, Goto, Set
<1> QED
  BY <1>2, <1>3, SameFields, TaskStep DEF IInv, SheetStatus

LEMMA CreateTaskStep == ASSUME IInv, NEW s \in Sheet, NEW ok \in BOOLEAN, CreateTask(s, ok) PROVE IInv'
<1>1. /\ work[s] \in Task /\ Fits(fields, sheet[s].status, work[s]) /\ work[s].pc = "create"
      /\ sheet[s].status \notin {"none", "done"}
  BY DEF IInv, WorkOK, CreateTask, Fits, Busy
<1>2. CASE ok
  <2> DEFINE w == [work[s] EXCEPT !.pc = "queued"]
  <2>1. Fits(fields, sheet[s].status, w)
    BY <1>1 DEF Fits, Task, Place, Busy
  <2> QED
    BY <1>2, <2>1, WorkStep DEF CreateTask, Goto, Set
<1>3. CASE ~ok
  <2>1. \A st \in SheetStatus : Fits(fields, st, NoWork)
    BY IdleFits
  <2> QED
    BY <1>1, <1>3, <2>1, StatusStep DEF CreateTask, Set, SheetStatus
<1> QED
  BY <1>2, <1>3

LEMMA RunStep == ASSUME IInv, NEW s \in Sheet, Run(s) PROVE IInv'
<1> DEFINE w == [work[s] EXCEPT !.pc = "next", !.files = File]
<1>1. /\ work[s] \in Task /\ Fits(fields, sheet[s].status, work[s]) /\ work[s].pc = "run"
      /\ sheet[s].status \notin {"none", "done"}
  BY DEF IInv, WorkOK, Run, Fits, Busy
<1>2. \A st \in SheetStatus \ {"none", "done"} : Fits(fields, st, w)
  BY <1>1 DEF Fits, Task, Place, Busy
<1> QED
  BY <1>1, <1>2, StatusStep DEF Run, Set, SheetStatus

(* The steps that move the task alone.                                     *)
LEMMA MoveStep ==
    ASSUME IInv, NEW s \in Sheet,
           Start(s) \/ NextFile(s) \/ Lock(s) \/ Have(s) \/ Unlock(s) \/ Ack(s) \/ \E json \in BOOLEAN : AskAgent(s, json)
    PROVE  IInv'
<1>1. work[s] \in Task /\ Fits(fields, sheet[s].status, work[s])
  BY DEF IInv, WorkOK
<1>2. Fits(fields, sheet[s].status, NoWork)
  BY IdleFits
<1>3. CASE Start(s)
  <2>1. sheet[s].status # "done" => Fits(fields, sheet[s].status, [work[s] EXCEPT !.pc = "run"])
    BY <1>1, <1>3 DEF Start, Fits, Task, Place, Busy
  <2> QED
    BY <1>2, <1>3, <2>1, WorkStep DEF Start, Goto, Set
<1>4. CASE NextFile(s)
  <2>1. PICK f \in work[s].files : work' = [work EXCEPT ![s] = [work[s] EXCEPT !.pc = "lock", !.file = f, !.files = @ \ {f}]]
    BY <1>4 DEF NextFile, Set
  <2>2. f \in Nat
    BY <1>1, SheetsAssumption DEF Task
  <2>3. Fits(fields, sheet[s].status, [work[s] EXCEPT !.pc = "lock", !.file = f, !.files = @ \ {f}])
    BY <1>1, <1>4, <2>2 DEF NextFile, Fits, Task, Place, Busy
  <2> QED
    BY <1>4, <2>1, <2>3, WorkStep DEF NextFile
<1>5. CASE Lock(s)
  <2>1. Fits(fields, sheet[s].status, [work[s] EXCEPT !.pc = "have"])
    BY <1>1, <1>5 DEF Lock, Fits, Task, Place, Busy
  <2> QED
    BY <1>5, <2>1, WorkStep DEF Lock, Goto, Set
<1>6. CASE Have(s)
  <2>1. Missing(work[s].file) \subseteq SlotsOf(work[s].file) /\ Missing(work[s].file) \in SUBSET Slot
    BY DEF Missing, SlotsOf
  <2>2. Fits(fields, sheet[s].status, [work[s] EXCEPT !.pc = "ask", !.need = Missing(work[s].file)])
    BY <1>1, <1>6, <2>1 DEF Have, Fits, Task, Place, Busy
  <2> QED
    BY <1>6, <2>2, WorkStep DEF Have, Set
<1>7. CASE Unlock(s)
  <2>1. Fits(fields, sheet[s].status, [work[s] EXCEPT !.pc = "next"])
    BY <1>1, <1>7 DEF Unlock, Fits, Task, Place, Busy
  <2> QED
    BY <1>7, <2>1, WorkStep DEF Unlock, Goto, Set
<1>8. CASE Ack(s)
  BY <1>2, <1>8, WorkStep DEF Ack, Set
<1>9. ASSUME NEW json \in BOOLEAN, AskAgent(s, json) PROVE IInv'
  <2> DEFINE w(x) == [work[s] EXCEPT !.pc = IF json THEN "save" ELSE @,
                                     !.need = @ \ {y \in work[s].need : y[1] = x[1]},
                                     !.reply = IF json THEN {y \in work[s].need : y[1] = x[1]} ELSE {}]
  <2>1. PICK x \in work[s].need : work' = [work EXCEPT ![s] = w(x)]
    BY <1>9 DEF AskAgent, Set
  <2>2. Fits(fields, sheet[s].status, w(x))
    BY <1>1, <1>9 DEF AskAgent, Fits, Task, Place, Busy
  <2> QED
    BY <1>9, <2>1, <2>2, WorkStep DEF AskAgent
<1> QED
  BY <1>3, <1>4, <1>5, <1>6, <1>7, <1>8, <1>9

LEMMA SaveReplyStep ==
    ASSUME IInv, NEW s \in Sheet, NEW x \in Slot, NEW value \in Text, NEW ok \in BOOLEAN, SaveReply(s, x, value, ok)
    PROVE  IInv'
<1> DEFINE w == [work[s] EXCEPT !.reply = @ \ {x}, !.pc = IF work[s].reply = {x} THEN "ask" ELSE @]
<1>1. /\ work[s] \in Task /\ Fits(fields, sheet[s].status, work[s]) /\ work[s].pc = "save"
      /\ sheet \in [Sheet -> SheetRow] /\ sheet[s].status \in SheetStatus
  BY DEF IInv, WorkOK, SheetsOK, SheetRow, SaveReply
<1>2. Fits(fields, sheet[s].status, w)
  BY <1>1 DEF SaveReply, Fits, Task, Place, Busy
<1>3. FieldsOK' /\ Grows
  BY SaveFieldKeeps, SameFields DEF SaveReply, Source, IInv
<1>4. sheet' = [sheet EXCEPT ![s].status = sheet[s].status]
  BY <1>1 DEF SaveReply, SheetRow
<1> QED
  BY <1>1, <1>2, <1>3, <1>4, TaskStep DEF SaveReply, Set

LEMMA CloseStep == ASSUME IInv, NEW s \in Sheet, Close(s) PROVE IInv'
<1> DEFINE cell(x) == IF Best(x) = 0 \/ NotFound(fields[x][Best(x)]) THEN NoCell
                      ELSE [field |-> Best(x), ai |-> Best(x), aiText |-> ValueAt(x, Best(x))]
           cells == [x \in Slot |-> cell(x)]
           w == [work[s] EXCEPT !.pc = "close", !.cells = cells]
<1>1. work[s] \in Task /\ Fits(fields, sheet[s].status, work[s]) /\ work[s].pc = "next"
  BY DEF IInv, WorkOK, Close
<1>2. ASSUME NEW x \in Slot
      PROVE  /\ cell(x) \in Cell /\ {cell(x).field, cell(x).ai} \subseteq {0} \cup DOMAIN fields[x]
             /\ cell(x).aiText = TextIn(fields, x, cell(x).field)
  <2>1. CASE Best(x) = 0 \/ NotFound(fields[x][Best(x)])
    BY <2>1 DEF NoCell, Cell, Text, TextIn
  <2>2. CASE ~(Best(x) = 0 \/ NotFound(fields[x][Best(x)]))
    <3>1. cell(x) = [field |-> Best(x), ai |-> Best(x), aiText |-> ValueAt(x, Best(x))]
      BY <2>2
    <3>2. ValueAt(x, Best(x)) = TextIn(fields, x, Best(x))
      BY DEF ValueAt, TextIn
    <3> QED
      BY <3>1, <3>2, BestIsRow DEF IInv, Cell
  <2> QED
    BY <2>1, <2>2
<1> HIDE DEF cell
<1>3. cells \in [Slot -> Cell] /\ PointsIn(fields, cells) /\ \A x \in Slot : cells[x].aiText = TextIn(fields, x, cells[x].field)
  BY <1>2 DEF PointsIn
<1>4. work' = [work EXCEPT ![s] = w]
  BY DEF Close, Set, cell
<1> HIDE DEF cells
<1>5. Fits(fields, sheet[s].status, w)
  BY <1>1, <1>3 DEF Fits, Task, Place, Busy
<1> QED
  BY <1>4, <1>5, WorkStep DEF Close

(* The cells of a sheet are stored: no correction is on record for it yet. *)
LEMMA DoneStep == ASSUME IInv, NEW s \in Sheet, Done(s) PROVE IInv'
<1> DEFINE w == [work[s] EXCEPT !.pc = "ack"]
<1>1. /\ work[s] \in Task /\ Fits(fields, sheet[s].status, work[s]) /\ work[s].pc = "close"
      /\ sheet \in [Sheet -> SheetRow] /\ work \in [Sheet -> Task]
  BY DEF IInv, WorkOK, SheetsOK, Done
<1>2. work' = [work EXCEPT ![s] = w] /\ UNCHANGED <<fields, fixes, reqs>>
  BY DEF Done, Goto, Set
<1>3. w \in Task /\ \A status : status # "none" => Fits(fields, status, w)
  BY <1>1 DEF Fits, Task, Place, Busy
<1>4. sheet[s].status \notin {"none", "done"}
  BY <1>1 DEF Fits, Busy
<1>5. CASE sheet[s].status = "deleted"
  BY <1>2, <1>3, <1>4, <1>5, WorkStep DEF Done
<1>6. CASE sheet[s].status # "deleted"
  <2> DEFINE cells == work[s].cells
  <2>1. /\ cells \in [Slot -> Cell] /\ PointsIn(fields, cells)
        /\ \A x \in Slot : cells[x].aiText = TextIn(fields, x, cells[x].field)
    BY <1>1 DEF Fits, Task
  <2>2. sheet' = [sheet EXCEPT ![s] = [status |-> "done", cells |-> cells]]
    BY <1>6 DEF Done
  <2>3. /\ sheet' \in [Sheet -> SheetRow] /\ sheet'[s].status = "done" /\ sheet'[s].cells = cells
        /\ \A t \in Sheet \ {s} : sheet'[t] = sheet[t]
    BY <1>1, <2>1, <2>2 DEF SheetRow, SheetStatus
  <2> HIDE DEF cells
  <2>4. FieldsOK'
    BY <1>2 DEF FieldsOK, IInv
  <2>5. SheetsOK'
    BY <1>2, <2>1, <2>3 DEF SheetsOK, IInv
  <2>6. WorkOK'
    BY <1>1, <1>2, <1>3, <2>3 DEF WorkOK, IInv
  <2>7. ReqsOK'
    BY <1>2, <1>4, <1>6, <2>3 DEF ReqsOK, IInv, Checked
  <2>8. \A c \in fixes : c.sheet \in Sheet \ {s} /\ sheet[c.sheet].status = "done"
    BY <1>4 DEF IInv, FixesOK
  <2>9. ASSUME NEW t \in Sheet, sheet'[t].status = "done", NEW x \in Slot
        PROVE  Agrees(fields, fixes, sheet'[t].cells[x], t, x)
    <3>1. CASE t = s
      <4>1. Fixed(fixes, t, x) = {}
        BY <2>8, <3>1 DEF Fixed
      <4> QED
        BY <2>1, <2>3, <3>1, <4>1 DEF Agrees
    <3>2. CASE t # s
      BY <2>3, <2>9, <3>2 DEF IInv, FixesOK
    <3> QED
      BY <3>1, <3>2
  <2>10. FixesOK'
    BY <1>2, <2>3, <2>8, <2>9 DEF FixesOK
  <2> QED
    BY <2>4, <2>5, <2>6, <2>7, <2>10 DEF IInv
<1> QED
  BY <1>5, <1>6

-----------------------------------------------------------------------------
(* The steps of requests.                                                  *)

LEMMA DeleteStep == ASSUME IInv, NEW s \in Sheet, Delete(s) PROVE IInv'
<1>1. /\ sheet \in [Sheet -> SheetRow] /\ sheet[s].status # "none"
      /\ sheet' = [sheet EXCEPT ![s] = [status |-> "deleted", cells |-> NoCells]]
      /\ fixes' = {c \in fixes : c.sheet # s} /\ UNCHANGED <<fields, work, reqs>>
  BY DEF IInv, SheetsOK, Delete
<1>2. /\ sheet' \in [Sheet -> SheetRow] /\ sheet'[s].status = "deleted" /\ sheet'[s].cells = NoCells
      /\ \A t \in Sheet \ {s} : sheet'[t] = sheet[t]
  BY <1>1, EmptyCells DEF SheetRow, SheetStatus
<1>3. FieldsOK' /\ SheetsOK'
  BY <1>1, <1>2, EmptyCells DEF FieldsOK, SheetsOK, IInv
<1>4. WorkOK'
  BY <1>1, <1>2 DEF WorkOK, IInv, Fits
<1>5. ReqsOK'
  BY <1>1, <1>2 DEF ReqsOK, IInv, Checked
<1>6. \A t \in Sheet \ {s}, x \in Slot : Fixed(fixes', t, x) = Fixed(fixes, t, x)
  BY <1>1 DEF Fixed
<1>7. FixesOK'
  <2>1. ASSUME NEW t \in Sheet, sheet'[t].status = "done", NEW x \in Slot
        PROVE  Agrees(fields', fixes', sheet'[t].cells[x], t, x)
    <3>1. t \in Sheet \ {s} /\ sheet'[t] = sheet[t]
      BY <1>2, <2>1
    <3>2. Agrees(fields, fixes, sheet[t].cells[x], t, x)
      BY <2>1, <3>1 DEF IInv, FixesOK
    <3> QED
      BY <1>1, <1>6, <3>1, <3>2 DEF Agrees
  <2>2. \A c \in fixes' : c.sheet \in Sheet \ {s} /\ sheet[c.sheet].status = "done"
    BY <1>1 DEF IInv, FixesOK
  <2>3. \A c \in fixes' : c.sheet \in Sheet /\ sheet'[c.sheet].status = "done"
    BY <1>2, <2>2
  <2> QED
    BY <2>1, <2>3 DEF FixesOK
<1> QED
  BY <1>3, <1>4, <1>5, <1>7 DEF IInv

LEMMA FieldStep ==
    ASSUME IInv, NEW x \in Slot, NEW value \in Text, UserField(x, value) \/ ChatField(x, value)
    PROVE  IInv'
<1>1. FieldsOK' /\ Grows /\ UNCHANGED <<sheet, fixes, work, reqs>>
  BY SaveFieldKeeps DEF UserField, ChatField, Source, IInv
<1>2. SheetsOK'
  BY <1>1, PointersStay DEF SheetsOK, SheetRow, IInv
<1>3. WorkOK'
  BY <1>1, FitsStays DEF WorkOK, IInv
<1>4. ReqsOK'
  BY <1>1 DEF ReqsOK, IInv
<1>5. FixesOK'
  <2>1. ASSUME NEW s \in Sheet, sheet[s].status = "done", NEW y \in Slot
        PROVE  Agrees(fields', fixes, sheet[s].cells[y], s, y)
    <3>1. Agrees(fields, fixes, sheet[s].cells[y], s, y)
      BY <2>1 DEF IInv, FixesOK
    <3>2. TextIn(fields', y, sheet[s].cells[y].field) = TextIn(fields, y, sheet[s].cells[y].field)
      BY <1>1, PointersStay DEF IInv, SheetsOK, SheetRow
    <3> QED
      BY <3>1, <3>2 DEF Agrees
  <2> QED
    BY <1>1, <2>1 DEF FixesOK, IInv
<1> QED
  BY <1>1, <1>2, <1>3, <1>4, <1>5 DEF IInv

LEMMA EditAskedStep ==
    ASSUME IInv, NEW s \in Sheet, NEW x \in Slot, NEW value \in Text, EditAsked(s, x, value)
    PROVE  IInv'
<1> DEFINE r == [sheet |-> s, slot |-> x, value |-> value, corrects |-> value # sheet[s].cells[x].aiText, id |-> used.req]
<1>1. reqs' = reqs \cup {r} /\ sheet[s].status = "done" /\ UNCHANGED <<fields, sheet, fixes, work>>
  BY DEF EditAsked
<1>2. Checked(r, sheet)
  BY <1>1 DEF Checked
<1> HIDE DEF r
<1>3. ReqsOK'
  BY <1>1, <1>2 DEF ReqsOK, IInv
<1> QED
  BY <1>1, <1>3 DEF IInv, FieldsOK, SheetsOK, WorkOK, FixesOK

LEMMA EditFailsStep == ASSUME IInv, NEW r \in reqs, EditFails(r) PROVE IInv'
BY DEF EditFails, IInv, FieldsOK, SheetsOK, WorkOK, FixesOK, ReqsOK

(* An edit is stored: the field of the cell becomes the new row, and its   *)
(* correction is the one on record.                                        *)
LEMMA EditSaveStep == ASSUME IInv, NEW r \in reqs, EditSave(r) PROVE IInv'
<1>1. /\ Checked(r, sheet) /\ \A q \in reqs : Checked(q, sheet)
      /\ sheet \in [Sheet -> SheetRow] /\ reqs' = reqs \ {r} /\ UNCHANGED work
  BY DEF IInv, ReqsOK, SheetsOK, EditSave, EditStored
<1>2. CASE sheet[r.sheet].status = "deleted"
  BY <1>1, <1>2 DEF EditSave, EditStored, IInv, FieldsOK, SheetsOK, WorkOK, FixesOK, ReqsOK
<1>3. CASE sheet[r.sheet].status # "deleted"
  <2> DEFINE s == r.sheet
             x == r.slot
             n == Len(fields[x]) + 1
             kept == {c \in fixes : ~(c.sheet = s /\ c.slot = x)}
             fix == [sheet |-> s, slot |-> x, value |-> r.value]
  <2>1. /\ s \in Sheet /\ x \in Slot /\ r.value \in Text /\ sheet[s].status = "done"
        /\ r.corrects <=> r.value # sheet[s].cells[x].aiText
    BY <1>1, <1>3 DEF Checked
  <2>2. SaveField(x, r.value, "user") /\ sheet' = [sheet EXCEPT ![s].cells[x].field = n]
    BY <1>3 DEF EditSave, EditStored
  <2>3. fixes' = kept \cup (IF r.corrects THEN {fix} ELSE {})
    BY <1>3 DEF EditSave, EditStored
  <2>4. /\ FieldsOK' /\ Grows /\ FieldsOK
        /\ n \in DOMAIN fields'[x] /\ fields'[x][n].value = r.value
    BY <2>1, <2>2, SaveFieldKeeps DEF Source, IInv
  <2>5. n \in Nat \ {0}
    BY <2>1, <2>4 DEF FieldsOK
  <2> HIDE DEF s, x, n, kept, fix
  <2>6. /\ \A t \in Sheet : sheet[t].cells \in [Slot -> Cell] /\ PointsIn(fields, sheet[t].cells)
        /\ sheet' \in [Sheet -> SheetRow]
        /\ \A t \in Sheet : sheet'[t].status = sheet[t].status
        /\ \A t \in Sheet \ {s} : sheet'[t] = sheet[t]
        /\ \A y \in Slot \ {x} : sheet'[s].cells[y] = sheet[s].cells[y]
        /\ \A y \in Slot : sheet'[s].cells[y].aiText = sheet[s].cells[y].aiText /\ sheet'[s].cells[y].ai = sheet[s].cells[y].ai
        /\ sheet'[s].cells[x].field = n
    <3>1. \A t \in Sheet : sheet[t].cells \in [Slot -> Cell] /\ PointsIn(fields, sheet[t].cells)
      BY DEF IInv, SheetsOK, SheetRow
    <3> DEFINE cell == [sheet[s].cells[x] EXCEPT !.field = n]
               cells == [sheet[s].cells EXCEPT ![x] = cell]
               new == [sheet[s] EXCEPT !.cells = cells]
    <3>2. sheet[s] \in SheetRow /\ sheet[s].cells[x] \in Cell
      BY <1>1, <2>1, <3>1
    <3>3. /\ cell \in Cell /\ cell.field = n
          /\ cell.ai = sheet[s].cells[x].ai /\ cell.aiText = sheet[s].cells[x].aiText
      BY <2>5, <3>2 DEF Cell
    <3>4. sheet' = [sheet EXCEPT ![s] = new]
      BY <2>2
    <3> HIDE DEF cell
    <3>5. cells \in [Slot -> Cell] /\ cells[x] = cell /\ \A y \in Slot \ {x} : cells[y] = sheet[s].cells[y]
      BY <2>1, <3>1, <3>3
    <3> HIDE DEF cells
    <3>6. new \in SheetRow /\ new.cells = cells /\ new.status = sheet[s].status
      BY <3>2, <3>5 DEF SheetRow
    <3> HIDE DEF new
    <3>7. sheet' \in [Sheet -> SheetRow] /\ sheet'[s] = new /\ \A t \in Sheet \ {s} : sheet'[t] = sheet[t]
      BY <1>1, <2>1, <3>4, <3>6
    <3>8. \A y \in Slot : cells[y].aiText = sheet[s].cells[y].aiText /\ cells[y].ai = sheet[s].cells[y].ai
      BY <3>3, <3>5
    <3> QED
      BY <2>1, <3>1, <3>3, <3>5, <3>6, <3>7, <3>8
  <2>7. SheetsOK'
    <3>1. ASSUME NEW t \in Sheet, NEW y \in Slot
          PROVE  {sheet'[t].cells[y].field, sheet'[t].cells[y].ai} \subseteq {0} \cup DOMAIN fields'[y]
      <4>1. PointsIn(fields', sheet[t].cells)
        BY <2>4, <2>6, PointersStay
      <4> QED
        BY <2>4, <2>6, <4>1 DEF PointsIn
    <3> QED
      BY <2>6, <3>1 DEF SheetsOK, PointsIn
  <2>8. WorkOK'
    <3>1. \A t \in Sheet : Fits(fields', sheet[t].status, work[t])
      BY <2>4, FitsStays DEF IInv, WorkOK
    <3> QED
      BY <1>1, <2>6, <3>1 DEF IInv, WorkOK
  <2>9. ReqsOK'
    <3>1. ASSUME NEW q \in reqs PROVE Checked(q, sheet')
      <4>1. Checked(q, sheet)
        BY <1>1
      <4>2. sheet'[q.sheet].cells[q.slot].aiText = sheet[q.sheet].cells[q.slot].aiText
        BY <2>6, <4>1 DEF Checked
      <4> QED
        BY <2>6, <4>1, <4>2 DEF Checked
    <3> QED
      BY <1>1, <3>1 DEF ReqsOK
  <2>10. \A c \in fixes' : c.sheet \in Sheet /\ sheet'[c.sheet].status = "done"
    <3>1. \A c \in fixes : c.sheet \in Sheet /\ sheet[c.sheet].status = "done"
      BY DEF IInv, FixesOK
    <3>2. fix.sheet = s
      BY DEF fix
    <3> QED
      BY <2>1, <2>3, <2>6, <3>1, <3>2 DEF kept
  <2>11. ASSUME NEW t \in Sheet, sheet'[t].status = "done", NEW y \in Slot
         PROVE  Agrees(fields', fixes', sheet'[t].cells[y], t, y)
    <3>1. fix.sheet = s /\ fix.slot = x /\ fix.value = r.value
      BY DEF fix
    <3>2. CASE t = s /\ y = x
      <4>1. Fixed(fixes', t, y) = IF r.corrects THEN {r.value} ELSE {}
        BY <2>3, <3>1, <3>2 DEF Fixed, kept
      <4>2. TextIn(fields', y, sheet'[t].cells[y].field) = r.value
        BY <2>4, <2>5, <2>6, <3>2 DEF TextIn
      <4>3. r.corrects <=> r.value # sheet'[t].cells[y].aiText
        BY <2>1, <2>6, <3>2 DEF s, x
      <4> QED
        BY <4>1, <4>2, <4>3 DEF Agrees
    <3>3. CASE ~(t = s /\ y = x)
      <4>1. Fixed(fixes', t, y) = Fixed(fixes, t, y)
        BY <2>3, <3>1, <3>3 DEF Fixed, kept
      <4>2. sheet'[t].cells[y] = sheet[t].cells[y]
        BY <2>6, <3>3
      <4>3. Agrees(fields, fixes, sheet[t].cells[y], t, y)
        BY <2>6, <2>11 DEF IInv, FixesOK
      <4>4. TextIn(fields', y, sheet[t].cells[y].field) = TextIn(fields, y, sheet[t].cells[y].field)
        BY <2>4, <2>6, PointersStay
      <4> QED
        BY <4>1, <4>2, <4>3, <4>4 DEF Agrees
    <3> QED
      BY <3>2, <3>3
  <2>12. FixesOK'
    BY <2>10, <2>11 DEF FixesOK
  <2> QED
    BY <2>4, <2>7, <2>8, <2>9, <2>12 DEF IInv
<1> QED
  BY <1>2, <1>3

-----------------------------------------------------------------------------
(* The invariant.                                                          *)

LEMMA InitInv == Init => IInv
<1> SUFFICES ASSUME Init PROVE IInv
  OBVIOUS
<1>1. FieldsOK
  BY DEF Init, FieldsOK, Sorted
<1>2. SheetsOK
  BY EmptyCells DEF Init, SheetsOK, SheetRow, SheetStatus
<1>3. WorkOK
  BY IdleFits, EmptyCells DEF Init, WorkOK, Fits
<1>4. ReqsOK /\ FixesOK
  BY DEF Init, ReqsOK, FixesOK
<1> QED
  BY <1>1, <1>2, <1>3, <1>4 DEF IInv

LEMMA BuildStep == ASSUME IInv, NEW s \in Sheet, Build(s) PROVE IInv'
<1>1. ASSUME NEW ok \in BOOLEAN, CreateTask(s, ok) PROVE IInv'
  BY <1>1, CreateTaskStep
<1>2. ASSUME NEW json \in BOOLEAN, AskAgent(s, json) PROVE IInv'
  BY <1>2, MoveStep
<1>3. ASSUME NEW x \in Slot, NEW value \in Text, NEW ok \in BOOLEAN, SaveReply(s, x, value, ok) PROVE IInv'
  BY <1>3, SaveReplyStep
<1>4. CASE Run(s)
  BY <1>4, RunStep
<1>5. CASE Close(s)
  BY <1>5, CloseStep
<1>6. CASE Done(s)
  BY <1>6, DoneStep
<1>7. CASE Start(s) \/ NextFile(s) \/ Lock(s) \/ Have(s) \/ Unlock(s) \/ Ack(s)
  BY <1>7, MoveStep
<1> QED
  BY <1>1, <1>2, <1>3, <1>4, <1>5, <1>6, <1>7 DEF Build, Text

LEMMA NextInv == IInv /\ [Next]_vars => IInv'
<1> SUFFICES ASSUME IInv, [Next]_vars PROVE IInv'
  OBVIOUS
<1>1. ASSUME NEW s \in Sheet, Dies(s) PROVE IInv'
  BY <1>1, RetryStep DEF Dies
<1>2. ASSUME NEW s \in Sheet, Create(s) \/ Build(s) \/ Fails(s) \/ Dies(s) \/ Delete(s) PROVE IInv'
  BY <1>1, <1>2, CreateStep, BuildStep, FailsStep, DeleteStep
<1>3. ASSUME NEW x \in Slot, NEW value \in Text, NEW s \in Sheet, EditAsked(s, x, value) PROVE IInv'
  BY <1>3, EditAskedStep
<1>4. ASSUME NEW x \in Slot, NEW value \in Text, UserField(x, value) \/ ChatField(x, value) PROVE IInv'
  BY <1>4, FieldStep
<1>5. ASSUME NEW r \in reqs, EditSave(r) \/ EditFails(r) PROVE IInv'
  BY <1>5, EditSaveStep, EditFailsStep
<1>6. CASE UNCHANGED vars
  BY <1>6 DEF vars, IInv, FieldsOK, SheetsOK, WorkOK, ReqsOK, FixesOK
<1> QED
  BY <1>2, <1>3, <1>4, <1>5, <1>6 DEF Next, Text

(* The inductive invariant of the sheets: the rows of every slot, what the *)
(* cells and the tasks point at, what an edit that was checked may rely    *)
(* on, and the corrections on record.                                      *)
THEOREM SheetsInvariant == Spec => []IInv
BY InitInv, NextInv, PTL DEF Spec

-----------------------------------------------------------------------------
(* Its consequences.                                                       *)

(* However late an answer of an agent arrives, the slot of a field shows   *)
(* the last value the user gave for it (saveField, BestFields).            *)
THEOREM UserAlwaysWins == Spec => []UserWins
BY SheetsInvariant, ConfirmedIsNewest, PTL DEF IInv

LEMMA SoundCells == IInv => CellsSound
<1> SUFFICES ASSUME IInv PROVE CellsSound
  OBVIOUS
<1>1. ASSUME NEW x \in Slot, NEW i \in DOMAIN fields[x] PROVE fields[x][i] \in FieldRow
  <2>1. fields[x] \in Seq(FieldRow)
    BY DEF IInv, FieldsOK
  <2> QED
    BY <1>1, <2>1
<1>2. ASSUME NEW s \in Sheet
      PROVE  /\ sheet[s].status \in SheetStatus
             /\ \A x \in Slot : {sheet[s].cells[x].field, sheet[s].cells[x].ai} \subseteq {0} \cup DOMAIN fields[x]
             /\ work[s].try \in 0..MaxTry /\ work[s].reply \cup work[s].need \subseteq SlotsOf(work[s].file)
  BY DEF IInv, SheetsOK, SheetRow, PointsIn, WorkOK, Fits, Task
<1>3. TypeOK
  BY <1>1, <1>2 DEF TypeOK, FieldRow, Text, Source, SheetStatus
<1>4. CorrectionsAgree
  BY DEF CorrectionsAgree, IInv, FixesOK, Agrees, Fixed, ValueAt, TextIn
<1> QED
  BY <1>3, <1>4 DEF CellsSound

(* The cells of a sheet point at fields of their slots, and the            *)
(* corrections on record are exactly the cells that show something else    *)
(* than the AI gave, whatever edits overlap (SaveEdits).                   *)
THEOREM CellsAreSound == Spec => []CellsSound
BY SheetsInvariant, SoundCells, PTL

LEMMA DoneStepKeeps ==
    ASSUME IInv, [Next]_vars, NEW s \in Sheet, sheet[s].status = "done"
    PROVE  \/ sheet'[s].status = "deleted"
           \/ sheet'[s].status = "done" /\ \A x \in Slot : \/ sheet'[s].cells[x] = sheet[s].cells[x]
                                                           \/ \E r \in reqs : r.sheet = s /\ r.slot = x
<1> DEFINE P == \/ sheet'[s].status = "deleted"
                \/ sheet'[s].status = "done" /\ \A x \in Slot : \/ sheet'[s].cells[x] = sheet[s].cells[x]
                                                                \/ \E r \in reqs : r.sheet = s /\ r.slot = x
<1>1. sheet \in [Sheet -> SheetRow] /\ sheet[s].cells \in [Slot -> Cell] /\ work[s].pc \notin Busy
  BY DEF IInv, SheetsOK, SheetRow, WorkOK, Fits
<1>2. sheet'[s] = sheet[s] => P
  OBVIOUS
<1>3. ASSUME NEW t \in Sheet, Create(t) \/ Build(t) \/ Fails(t) \/ Dies(t) PROVE sheet'[s] = sheet[s]
  <2>1. t # s => sheet'[s] = sheet[s]
    BY <1>1, <1>3 DEF Create, Build, CreateTask, Start, Run, NextFile, Lock, Have, AskAgent, SaveReply, Unlock,
                      Close, Done, Ack, Fails, Dies, Status
  <2>2. t = s => sheet'[s] = sheet[s]
    BY <1>1, <1>3 DEF Create, Build, CreateTask, Start, Run, NextFile, Lock, Have, AskAgent, SaveReply, Unlock,
                      Close, Done, Ack, Fails, Dies, Busy
  <2> QED
    BY <2>1, <2>2
<1>4. ASSUME NEW t \in Sheet, Delete(t) PROVE P
  <2>1. t = s => sheet'[s].status = "deleted"
    BY <1>1, <1>4 DEF Delete
  <2>2. t # s => sheet'[s] = sheet[s]
    BY <1>1, <1>4 DEF Delete
  <2> QED
    BY <1>2, <2>1, <2>2
<1>5. ASSUME NEW x \in Slot, NEW value \in Text,
             UserField(x, value) \/ ChatField(x, value) \/ \E t \in Sheet : EditAsked(t, x, value)
      PROVE  sheet'[s] = sheet[s]
  BY <1>5 DEF UserField, ChatField, EditAsked
<1>6. ASSUME NEW r \in reqs, EditSave(r) PROVE P
  <2>1. CASE UNCHANGED sheet
    BY <1>2, <2>1
  <2>2. CASE sheet' = [sheet EXCEPT ![r.sheet].cells[r.slot].field = Len(fields[r.slot]) + 1]
    <3>1. r.sheet # s => sheet'[s] = sheet[s]
      BY <1>1, <2>2
    <3>2. ASSUME r.sheet = s, NEW x \in Slot
          PROVE  /\ sheet'[s].status = sheet[s].status
                 /\ r.slot # x => sheet'[s].cells[x] = sheet[s].cells[x]
      <4> DEFINE cells == [sheet[s].cells EXCEPT ![r.slot].field = Len(fields[r.slot]) + 1]
      <4>1. r.slot # x => cells[x] = sheet[s].cells[x]
        BY <1>1
      <4>2. sheet' = [sheet EXCEPT ![s].cells = cells]
        BY <2>2, <3>2
      <4> HIDE DEF cells
      <4>3. sheet'[s].cells = cells /\ sheet'[s].status = sheet[s].status
        BY <1>1, <4>2 DEF SheetRow
      <4> QED
        BY <4>1, <4>3
    <3>3. r.sheet = s => sheet'[s].status = sheet[s].status
      <4>1. r.slot \in Slot
        BY DEF IInv, ReqsOK, Checked
      <4> QED
        BY <3>2, <4>1
    <3>4. r.sheet = s => P
      BY <3>2, <3>3
    <3> QED
      BY <1>2, <3>1, <3>4
  <2> QED
    BY <1>6, <2>1, <2>2 DEF EditSave, EditStored
<1>7. ASSUME NEW r \in reqs, EditFails(r) PROVE sheet'[s] = sheet[s]
  BY <1>7 DEF EditFails
<1>8. ASSUME UNCHANGED vars PROVE P
  BY <1>2, <1>8 DEF vars
<1> HIDE DEF P
<1>9. P
  <2>1. ASSUME NEW t \in Sheet, Create(t) \/ Build(t) \/ Fails(t) \/ Dies(t) \/ Delete(t) PROVE P
    BY <1>2, <1>3, <1>4, <2>1
  <2>2. ASSUME NEW x \in Slot, NEW value \in Text,
               UserField(x, value) \/ ChatField(x, value) \/ \E t \in Sheet : EditAsked(t, x, value)
        PROVE  P
    BY <1>2, <1>5, <2>2
  <2>3. ASSUME NEW r \in reqs, EditSave(r) \/ EditFails(r) PROVE P
    BY <1>2, <1>6, <1>7, <2>3
  <2>4. CASE Next
    BY <2>1, <2>2, <2>3, <2>4 DEF Next, Text
  <2> QED
    BY <1>8, <2>4
<1> QED
  BY <1>9 DEF P

(* A sheet that is done stays done until it is deleted, and only an edit   *)
(* that was checked changes a cell of it, however often its task is tried  *)
(* again (Process).                                                        *)
THEOREM DoneForGood == Spec => DoneStays
<1> DEFINE A == \A s \in Sheet : sheet[s].status = "done" =>
                  \/ sheet'[s].status = "deleted"
                  \/ sheet'[s].status = "done" /\ \A x \in Slot : \/ sheet'[s].cells[x] = sheet[s].cells[x]
                                                                  \/ \E r \in reqs : r.sheet = s /\ r.slot = x
<1>1. IInv /\ [Next]_vars => [A]_vars
  BY DoneStepKeeps
<1> QED
  BY <1>1, SheetsInvariant, PTL DEF Spec, DoneStays

-----------------------------------------------------------------------------
(* How often a field is asked for.                                         *)

Asked(q) == {i \in DOMAIN q : q[i].src = "extract"}

(* The last row is never superseded, and while the user gave nothing the   *)
(* first row alone replaces none: "again" tells it from the others.        *)
Rooted(q) ==
    /\ q # <<>> => q[Len(q)].status # "superseded"
    /\ (\A i \in DOMAIN q : q[i].src # "user") => \A i \in DOMAIN q : ~q[i].again => i = 1

(* Asked for once at most, and nothing found.                              *)
Askable(q) == \A i \in Asked(q) : i = 1 /\ q[i].value = None

Twice(q) == \E n \in Nat : /\ Asked(q) \subseteq {1, n}
                           /\ \A i, j \in Asked(q) : i < j => q[i].value = None

(* The sheets that have locked their file, one for each file: the fields   *)
(* one of them asks for stay to be asked for until it saves the answers.   *)
Locked == {"have", "ask", "save"}
AskOK ==
    /\ \A x \in Slot : Rooted(fields[x]) /\ Twice(fields[x])
    /\ \A s, t \in Sheet : s # t /\ work[s].pc \in Locked /\ work[t].pc \in Locked => work[s].file # work[t].file
    /\ \A s \in Sheet : /\ work[s].need \cap work[s].reply = {}
                        /\ \A x \in work[s].need \cup work[s].reply : Askable(fields[x])

LEMMA RootedStays ==
    ASSUME NEW q, NEW to, NEW value, NEW src \in Source, WrittenOver(q, to, value, src), Sorted(q), Rooted(q)
    PROVE  Rooted(to)
<1> DEFINE n == Len(q) + 1
<1>1. /\ Len(q) \in Nat /\ n \in Nat \ {0} /\ n = Len(q) + 1 /\ DOMAIN q = 1..Len(q) /\ DOMAIN to = 1..n /\ Len(to) = n
      /\ to[n].src = src /\ to[n].status # "superseded"
      /\ to[n].again <=> \E i \in DOMAIN q : q[i].status \in Replaced(src)
      /\ \A i \in 1..Len(q) : to[i].src = q[i].src /\ (to[i].again <=> q[i].again)
  BY DEF WrittenOver
<1> HIDE DEF n
<1>2. ASSUME \A i \in DOMAIN to : to[i].src # "user", NEW i \in DOMAIN to, ~to[i].again PROVE i = 1
  <2>1. \A j \in DOMAIN q : q[j].src # "user"
    BY <1>1, <1>2
  <2>2. CASE i # n
    BY <1>1, <1>2, <2>1, <2>2 DEF Rooted
  <2>3. CASE i = n /\ Len(q) # 0
    <3>1. Len(q) \in DOMAIN q /\ q \in Seq(FieldRow)
      BY <1>1, <2>3 DEF WrittenOver
    <3>2. q[Len(q)] \in FieldRow /\ q # <<>>
      BY <3>1, <2>3
    <3>3. q[Len(q)].status = "proposed"
      BY <2>1, <3>1, <3>2 DEF Rooted, Sorted, FieldRow
    <3> QED
      BY <1>1, <1>2, <2>3, <3>1, <3>3 DEF Replaced
  <2> QED
    BY <1>1, <2>2, <2>3
<1> QED
  BY <1>1, <1>2 DEF Rooted

(* What the user or the chat gives is no answer of the extraction.         *)
LEMMA AskedStays ==
    ASSUME NEW q, NEW to, NEW value, NEW src \in Source, WrittenOver(q, to, value, src), src # "extract"
    PROVE  (Twice(q) => Twice(to)) /\ (Askable(q) => Askable(to))
<1>1. Asked(to) = Asked(q) /\ \A i \in Asked(q) : to[i].value = q[i].value
  BY DEF WrittenOver, Asked
<1> QED
  BY <1>1 DEF Twice, Askable

(* One more answer to a field that was asked for once, in vain.            *)
LEMMA AskedAgain ==
    ASSUME NEW q, NEW to, NEW value, WrittenOver(q, to, value, "extract"), Askable(q)
    PROVE  Twice(to)
<1> DEFINE n == Len(q) + 1
<1>1. n \in Nat /\ Asked(to) = Asked(q) \cup {n} /\ \A i \in Asked(q) : to[i].value = q[i].value /\ i = 1 /\ q[i].value = None
  BY DEF WrittenOver, Asked, Askable
<1> HIDE DEF n
<1>2. \A i, j \in Asked(to) : i < j => to[i].value = None
  <2> SUFFICES ASSUME NEW i \in Asked(to), NEW j \in Asked(to), i < j PROVE i \in Asked(q)
    BY <1>1
  <2>1. CASE i = n
    <3>1. j = 1 /\ j \in Asked(q) /\ n < 1
      BY <1>1, <2>1
    <3>2. j \in 1..Len(q) /\ Len(q) \in Nat
      BY <3>1 DEF Asked, WrittenOver
    <3> QED
      BY <3>1, <3>2 DEF n
  <2> QED
    BY <1>1, <2>1
<1> QED
  BY <1>1, <1>2 DEF Twice

(* Extract: what is missing was not asked for, or once and in vain.        *)
LEMMA MissingAskable == ASSUME IInv, AskOK, NEW f, NEW x \in Missing(f) PROVE Askable(fields[x])
<1> DEFINE q == fields[x]
           k == Best(x)
<1>1. x \in Slot /\ (k = 0 \/ (NotFound(q[k]) /\ ~q[k].again))
  BY DEF Missing, SlotsOf
<1>2. /\ q \in Seq(FieldRow) /\ Sorted(q) /\ Rooted(q) /\ Len(q) \in Nat /\ DOMAIN q = 1..Len(q)
      /\ \A i \in DOMAIN q : q[i] \in FieldRow
  BY <1>1 DEF IInv, FieldsOK, AskOK
<1>3. \A st \in {"proposed", "confirmed"} : Rows(x, st) # {} => Newest(Rows(x, st)) \in Rows(x, st)
  <2> SUFFICES ASSUME NEW st \in {"proposed", "confirmed"}, Rows(x, st) # {} PROVE Newest(Rows(x, st)) \in Rows(x, st)
    OBVIOUS
  <2>1. \A i, j \in Rows(x, st) : j <= i
    BY <1>2 DEF Rows, Sorted
  <2> QED
    BY <2>1 DEF Newest
<1> HIDE DEF q, k
<1>4. /\ Rows(x, "confirmed") = {i \in DOMAIN q : q[i].status = "confirmed"}
      /\ Rows(x, "proposed") = {i \in DOMAIN q : q[i].status = "proposed"}
      /\ k = IF Rows(x, "confirmed") # {} THEN Newest(Rows(x, "confirmed"))
             ELSE IF Rows(x, "proposed") # {} THEN Newest(Rows(x, "proposed")) ELSE 0
  BY DEF Rows, Best, q, k
<1>5. \A i \in DOMAIN q : q[i].status # "confirmed"
  <2> SUFFICES ASSUME Rows(x, "confirmed") # {} PROVE FALSE
    BY <1>4
  <2>1. k \in DOMAIN q /\ q[k].status = "confirmed"
    BY <1>3, <1>4
  <2>2. k # 0 /\ q[k].src = "user"
    BY <1>2, <2>1 DEF Sorted
  <2> QED
    BY <1>1, <2>2 DEF NotFound
<1>6. \A i \in DOMAIN q : q[i].src # "user"
  BY <1>2, <1>5 DEF Sorted
<1>7. CASE k = 0
  <2>1. \A i \in DOMAIN q : q[i].status = "superseded"
    <3>1. Rows(x, "proposed") = {}
      BY <1>2, <1>3, <1>4, <1>5, <1>7
    <3> QED
      BY <1>2, <1>4, <1>5, <3>1 DEF FieldRow
  <2>2. Len(q) = 0
    BY <1>2, <2>1 DEF Rooted
  <2> QED
    BY <1>2, <2>2 DEF Askable, Asked, q
<1>8. CASE k # 0
  <2>1. k \in DOMAIN q /\ q[k].status = "proposed" /\ q[k].value = None
    BY <1>1, <1>3, <1>4, <1>5, <1>8 DEF NotFound
  <2>2. k = 1
    BY <1>1, <1>2, <1>6, <1>8, <2>1 DEF Rooted
  <2>3. Len(q) \in DOMAIN q /\ q[Len(q)].status = "proposed"
    <3>1. Len(q) \in DOMAIN q /\ q # <<>>
      BY <1>2, <2>1
    <3> QED
      BY <1>2, <1>5, <3>1 DEF Rooted, FieldRow
  <2>4. Len(q) = 1
    BY <1>2, <2>1, <2>2, <2>3 DEF Sorted
  <2> QED
    BY <1>2, <2>1, <2>2, <2>4 DEF Askable, Asked, q
<1> QED
  BY <1>7, <1>8

LEMMA AskMove ==
    ASSUME IInv, AskOK, NEW s \in Sheet, NEW w, work' = [work EXCEPT ![s] = w], UNCHANGED fields,
           w.pc \in Locked => \A t \in Sheet \ {s} : work[t].pc \in Locked => work[t].file # w.file,
           w.need \cap w.reply = {}, \A x \in w.need \cup w.reply : Askable(fields[x])
    PROVE  AskOK'
<1>1. work'[s] = w /\ \A t \in Sheet \ {s} : work'[t] = work[t]
  BY DEF IInv, WorkOK
<1> QED
  BY <1>1 DEF AskOK

LEMMA AskSaved ==
    ASSUME IInv, AskOK, NEW x \in Slot, NEW value \in Text, NEW src \in Source \ {"extract"},
           SaveField(x, value, src), UNCHANGED work
    PROVE  AskOK'
<1>1. /\ \A y \in Slot \ {x} : fields'[y] = fields[y]
      /\ WrittenOver(fields[x], fields'[x], value, src) /\ Sorted(fields[x])
  BY FieldWritten DEF IInv, FieldsOK
<1>2. \A y \in Slot : Rooted(fields'[y]) /\ Twice(fields'[y]) /\ (Askable(fields[y]) => Askable(fields'[y]))
  BY <1>1, RootedStays, AskedStays DEF AskOK
<1>3. \A s \in Sheet : work[s].need \cup work[s].reply \subseteq Slot
  BY DEF IInv, WorkOK, Task
<1> QED
  BY <1>2, <1>3 DEF AskOK

(* The answer of a sheet to x: the others ask for fields of other files.   *)
LEMMA AskAnswered ==
    ASSUME IInv, AskOK, NEW s \in Sheet, NEW x \in Slot, NEW value \in Text, NEW ok \in BOOLEAN, SaveReply(s, x, value, ok)
    PROVE  AskOK'
<1> DEFINE w == [work[s] EXCEPT !.reply = @ \ {x}, !.pc = IF work[s].reply = {x} THEN "ask" ELSE @]
<1>1. /\ work \in [Sheet -> Task] /\ \A t \in Sheet : Fits(fields, sheet[t].status, work[t]) /\ work[t] \in Task
      /\ work[s].pc = "save" /\ x \in work[s].reply /\ work' = [work EXCEPT ![s] = w]
  BY DEF IInv, WorkOK, SaveReply, Set
<1>2. w.need = work[s].need /\ w.reply = work[s].reply \ {x} /\ w.file = work[s].file /\ w.pc \in Locked
  BY <1>1 DEF Task, Locked
<1> HIDE DEF w
<1>3. \A t \in Sheet \ {s} : work[t].pc \in Locked => work[t].file # w.file
  BY <1>1, <1>2 DEF AskOK, Locked
<1>4. CASE UNCHANGED fields
  <2>1. w.need \cap w.reply = {} /\ \A y \in w.need \cup w.reply : Askable(fields[y])
    BY <1>2 DEF AskOK
  <2> QED
    BY <1>1, <1>3, <1>4, <2>1, AskMove
<1>5. CASE SaveField(x, value, "extract")
  <2>1. /\ \A y \in Slot \ {x} : fields'[y] = fields[y]
        /\ WrittenOver(fields[x], fields'[x], value, "extract") /\ Sorted(fields[x])
    BY <1>5, FieldWritten DEF IInv, FieldsOK, Source
  <2>2. Askable(fields[x])
    BY <1>1 DEF AskOK
  <2>3. \A y \in Slot : Rooted(fields'[y]) /\ Twice(fields'[y])
    BY <2>1, <2>2, RootedStays, AskedAgain DEF AskOK, Source
  <2>4. work'[s] = w /\ \A t \in Sheet \ {s} : work'[t] = work[t]
    BY <1>1
  <2>5. ASSUME NEW t \in Sheet, NEW y \in work'[t].need \cup work'[t].reply PROVE y \in Slot /\ y # x /\ Askable(fields[y])
    <3>1. CASE t = s
      BY <1>1, <1>2, <2>4, <2>5, <3>1 DEF AskOK, Task
    <3>2. CASE t # s
      <4>1. y \in SlotsOf(work[t].file) /\ x \in SlotsOf(work[s].file) /\ work[t].pc \in Locked
        BY <1>1, <2>4, <2>5, <3>2 DEF Fits, Locked
      <4>2. work[t].file # work[s].file
        BY <1>2, <1>3, <3>2, <4>1
      <4> QED
        BY <2>4, <2>5, <3>2, <4>1, <4>2 DEF SlotsOf, AskOK
    <3> QED
      BY <3>1, <3>2
  <2>6. \A t \in Sheet : \A y \in work'[t].need \cup work'[t].reply : Askable(fields'[y])
    BY <2>1, <2>5
  <2>7. \A t \in Sheet : work'[t].need \cap work'[t].reply = {}
    BY <1>2, <2>4 DEF AskOK
  <2>8. \A t, u \in Sheet : t # u /\ work'[t].pc \in Locked /\ work'[u].pc \in Locked => work'[t].file # work'[u].file
    BY <1>3, <2>4 DEF AskOK
  <2> QED
    BY <2>3, <2>6, <2>7, <2>8 DEF AskOK
<1> QED
  BY <1>4, <1>5 DEF SaveReply

(* A sheet that starts, goes on, lets go of its file, or fails.            *)
LEMMA AskIdle ==
    ASSUME IInv, AskOK, NEW s \in Sheet, NEW w, work' = [work EXCEPT ![s] = w], UNCHANGED fields,
           w.pc \notin Locked, w.need = {}, w.reply = {}
    PROVE  AskOK'
BY AskMove

LEMMA AskGoto ==
    ASSUME IInv, AskOK, NEW s \in Sheet, NEW pc, Goto(s, pc), UNCHANGED fields,
           pc \notin Locked, work[s].pc \notin {"ask", "save"} \/ (work[s].pc = "ask" /\ work[s].need = {})
    PROVE  AskOK'
<1> DEFINE w == [work[s] EXCEPT !.pc = pc]
<1>1. work[s] \in Task /\ Fits(fields, sheet[s].status, work[s])
  BY DEF IInv, WorkOK
<1>2. w.pc = pc /\ w.need = {} /\ w.reply = {}
  BY <1>1 DEF Task, Fits
<1>3. work' = [work EXCEPT ![s] = w]
  BY DEF Goto, Set
<1> HIDE DEF w
<1> QED
  BY <1>2, <1>3, AskIdle

LEMMA AskNoWork ==
    ASSUME IInv, AskOK, NEW s \in Sheet, Retry(s) \/ Set(s, NoWork), UNCHANGED fields
    PROVE  AskOK'
<1>1. NoWork.pc \notin Locked /\ NoWork.need = {} /\ NoWork.reply = {}
  BY DEF NoWork, Locked
<1>2. CASE Set(s, NoWork)
  BY <1>1, <1>2, AskIdle DEF Set
<1>3. CASE Retry(s) /\ work[s].try < MaxTry
  <2> DEFINE w == [NoWork EXCEPT !.pc = "queued", !.try = work[s].try + 1]
  <2>1. w.pc \notin Locked /\ w.need = {} /\ w.reply = {}
    BY DEF NoWork, Locked
  <2>2. work' = [work EXCEPT ![s] = w]
    BY <1>3 DEF Retry, Set
  <2> HIDE DEF w
  <2> QED
    BY <2>1, <2>2, AskIdle
<1>4. CASE Retry(s) /\ ~(work[s].try < MaxTry)
  BY <1>2, <1>4 DEF Retry
<1> QED
  BY <1>2, <1>3, <1>4

(* The steps between the lock of a file and its release.                   *)
LEMMA AskLocked ==
    ASSUME IInv, AskOK, NEW s \in Sheet, Lock(s) \/ Have(s) \/ \E json \in BOOLEAN : AskAgent(s, json)
    PROVE  AskOK'
<1>1. /\ work[s] \in Task /\ Fits(fields, sheet[s].status, work[s])
      /\ work[s].need \cap work[s].reply = {} /\ \A x \in work[s].need \cup work[s].reply : Askable(fields[x])
      /\ work[s].pc \in Locked => \A t \in Sheet \ {s} : work[t].pc \in Locked => work[t].file # work[s].file
  BY DEF IInv, WorkOK, AskOK
<1>2. CASE Lock(s)
  <2> DEFINE w == [work[s] EXCEPT !.pc = "have"]
  <2>1. w.pc = "have" /\ w.file = work[s].file /\ w.need = work[s].need /\ w.reply = work[s].reply
    BY <1>1 DEF Task
  <2>2. work' = [work EXCEPT ![s] = w] /\ UNCHANGED fields
    BY <1>2 DEF Lock, Goto, Set
  <2> HIDE DEF w
  <2>3. \A t \in Sheet \ {s} : work[t].pc \in Locked => work[t].file # w.file
    BY <1>2, <2>1 DEF Lock, Locked
  <2> QED
    BY <1>1, <2>1, <2>2, <2>3, AskMove
<1>3. CASE Have(s)
  <2> DEFINE w == [work[s] EXCEPT !.pc = "ask", !.need = Missing(work[s].file)]
  <2>1. w.file = work[s].file /\ w.need = Missing(work[s].file) /\ w.reply = {} /\ work[s].pc \in Locked
    BY <1>1, <1>3 DEF Have, Task, Fits, Locked
  <2>2. work' = [work EXCEPT ![s] = w] /\ UNCHANGED fields
    BY <1>3 DEF Have, Set
  <2> HIDE DEF w
  <2>3. \A x \in w.need : Askable(fields[x])
    BY <2>1, MissingAskable
  <2> QED
    BY <1>1, <2>1, <2>2, <2>3, AskMove
<1>4. ASSUME NEW json \in BOOLEAN, AskAgent(s, json) PROVE AskOK'
  <2> DEFINE w(x) == [work[s] EXCEPT !.pc = IF json THEN "save" ELSE @,
                                     !.need = @ \ {y \in work[s].need : y[1] = x[1]},
                                     !.reply = IF json THEN {y \in work[s].need : y[1] = x[1]} ELSE {}]
  <2>1. PICK x \in work[s].need : work' = [work EXCEPT ![s] = w(x)]
    BY <1>4 DEF AskAgent, Set
  <2>2. /\ w(x).file = work[s].file /\ work[s].pc \in Locked
        /\ w(x).need \cap w(x).reply = {} /\ w(x).need \cup w(x).reply \subseteq work[s].need
    BY <1>1, <1>4 DEF AskAgent, Task, Locked
  <2>3. UNCHANGED fields
    BY <1>4 DEF AskAgent
  <2> HIDE DEF w
  <2> QED
    BY <1>1, <2>1, <2>2, <2>3, AskMove
<1> QED
  BY <1>2, <1>3, <1>4

LEMMA AskBuild == ASSUME IInv, AskOK, NEW s \in Sheet, Build(s) PROVE AskOK'
<1>1. work[s] \in Task /\ Fits(fields, sheet[s].status, work[s])
  BY DEF IInv, WorkOK
<1>2. CASE Start(s) \/ Ack(s) \/ Unlock(s) \/ Done(s) \/ \E ok \in BOOLEAN : CreateTask(s, ok)
  BY <1>2, AskGoto, AskNoWork DEF Start, Ack, Unlock, Done, CreateTask, Locked
<1>3. CASE Run(s)
  <2> DEFINE w == [work[s] EXCEPT !.pc = "next", !.files = File]
  <2>1. w.pc \notin Locked /\ w.need = {} /\ w.reply = {} /\ work' = [work EXCEPT ![s] = w] /\ UNCHANGED fields
    BY <1>1, <1>3 DEF Run, Set, Task, Fits, Locked
  <2> HIDE DEF w
  <2> QED
    BY <2>1, AskIdle
<1>4. CASE NextFile(s)
  <2> DEFINE w(f) == [work[s] EXCEPT !.pc = "lock", !.file = f, !.files = @ \ {f}]
  <2>1. PICK f \in work[s].files : work' = [work EXCEPT ![s] = w(f)]
    BY <1>4 DEF NextFile, Set
  <2>2. w(f).pc \notin Locked /\ w(f).need = {} /\ w(f).reply = {} /\ UNCHANGED fields
    BY <1>1, <1>4 DEF NextFile, Task, Fits, Locked
  <2> HIDE DEF w
  <2> QED
    BY <2>1, <2>2, AskIdle
<1>5. CASE Close(s)
  <2> DEFINE cells == [x \in Slot |-> IF Best(x) = 0 \/ NotFound(fields[x][Best(x)]) THEN NoCell
                                      ELSE [field |-> Best(x), ai |-> Best(x), aiText |-> ValueAt(x, Best(x))]]
             w == [work[s] EXCEPT !.pc = "close", !.cells = cells]
  <2>1. work' = [work EXCEPT ![s] = w] /\ UNCHANGED fields /\ work[s].pc = "next"
    BY <1>5 DEF Close, Set
  <2> HIDE DEF cells
  <2>2. w.pc \notin Locked /\ w.need = {} /\ w.reply = {}
    BY <1>1, <2>1 DEF Task, Fits, Locked
  <2> HIDE DEF w
  <2> QED
    BY <2>1, <2>2, AskIdle
<1>6. CASE Lock(s) \/ Have(s) \/ \E json \in BOOLEAN : AskAgent(s, json)
  BY <1>6, AskLocked
<1>7. CASE \E x \in Slot, value \in Value \cup {None}, ok \in BOOLEAN : SaveReply(s, x, value, ok)
  BY <1>7, AskAnswered DEF Text
<1> QED
  BY <1>2, <1>3, <1>4, <1>5, <1>6, <1>7 DEF Build

LEMMA AskNext == IInv /\ AskOK /\ [Next]_vars => AskOK'
<1> SUFFICES ASSUME IInv, AskOK, [Next]_vars PROVE AskOK'
  OBVIOUS
<1>1. ASSUME UNCHANGED <<fields, work>> PROVE AskOK'
  BY <1>1 DEF AskOK
<1>2. ASSUME NEW s \in Sheet, Create(s) PROVE AskOK'
  <2>1. work[s].pc = "none"
    BY <1>2 DEF IInv, WorkOK, Fits, Create
  <2> QED
    BY <1>2, <2>1, AskGoto DEF Create, Locked
<1>3. ASSUME NEW s \in Sheet, Build(s) \/ Fails(s) \/ Dies(s) PROVE AskOK'
  BY <1>3, AskBuild, AskNoWork DEF Fails, Dies
<1>4. ASSUME NEW s \in Sheet, Delete(s) PROVE AskOK'
  BY <1>1, <1>4 DEF Delete
<1>5. ASSUME NEW x \in Slot, NEW value \in Text, UserField(x, value) \/ ChatField(x, value) PROVE AskOK'
  BY <1>5, AskSaved DEF UserField, ChatField, Source
<1>6. ASSUME NEW x \in Slot, NEW value \in Text, NEW s \in Sheet, EditAsked(s, x, value) PROVE AskOK'
  BY <1>1, <1>6 DEF EditAsked
<1>7. ASSUME NEW r \in reqs, EditSave(r) \/ EditFails(r) PROVE AskOK'
  <2>1. r.slot \in Slot /\ r.value \in Text
    BY DEF IInv, ReqsOK, Checked
  <2> QED
    BY <1>1, <1>7, <2>1, AskSaved DEF EditSave, EditStored, EditFails, Source
<1>8. CASE UNCHANGED vars
  BY <1>1, <1>8 DEF vars
<1> QED
  BY <1>2, <1>3, <1>4, <1>5, <1>6, <1>7, <1>8 DEF Next, Text

LEMMA AskInit == Init => AskOK
<1> SUFFICES ASSUME Init PROVE AskOK
  OBVIOUS
<1>1. \A x \in Slot : fields[x] = <<>>
  BY DEF Init
<1>2. Rooted(<<>>) /\ Twice(<<>>)
  BY DEF Rooted, Twice, Asked
<1>3. \A s \in Sheet : work[s].need = {} /\ work[s].reply = {} /\ work[s].pc \notin Locked
  BY DEF Init, NoWork, Locked
<1> QED
  BY <1>1, <1>2, <1>3 DEF AskOK

LEMMA AskedTwice == AskOK => AskedAtMostTwice
<1> SUFFICES ASSUME AskOK, NEW x \in Slot
             PROVE  /\ Cardinality(Asked(fields[x])) <= 2
                    /\ \A i, j \in Asked(fields[x]) : i < j => fields[x][i].value = None
  BY DEF AskedAtMostTwice, Asked
<1>1. PICK n \in Nat : /\ Asked(fields[x]) \subseteq {1, n}
                       /\ \A i, j \in Asked(fields[x]) : i < j => fields[x][i].value = None
  BY DEF AskOK, Twice
<1>2. IsFiniteSet({1, n}) /\ Cardinality({1, n}) <= 2
  <2>1. IsFiniteSet({1}) /\ Cardinality({1}) = 1
    BY FS_Singleton
  <2>2. {1, n} = {1} \cup {n}
    OBVIOUS
  <2> QED
    BY <2>1, <2>2, FS_AddElement
<1>3. Cardinality(Asked(fields[x])) <= Cardinality({1, n}) /\ Cardinality(Asked(fields[x])) \in Nat /\ Cardinality({1, n}) \in Nat
  BY <1>1, <1>2, FS_Subset, FS_CardinalityType
<1> QED
  BY <1>1, <1>2, <1>3

(* The values kept for a field: the user's stands, and the extraction did  *)
(* not ask for it again once it found one, nor more than twice, whatever   *)
(* sheets are built at once, retried or deleted (Extract, saveField).      *)
THEOREM FieldsAreSound == Spec => []FieldsSound
<1>1. AskOK => AskedAtMostTwice
  BY AskedTwice
<1>2. Init => AskOK
  BY AskInit
<1>3. IInv /\ AskOK /\ [Next]_vars => AskOK'
  BY AskNext
<1>4. IInv /\ AskOK => FieldsSound
  BY <1>1, ConfirmedIsNewest DEF FieldsSound, IInv
<1> QED
  BY <1>2, <1>3, <1>4, SheetsInvariant, PTL DEF Spec

==============================================================================
