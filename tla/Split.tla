--------------------------------- MODULE Split ---------------------------------
(***************************************************************************)
(* How the files of one case are split into documents (segments) and       *)
(* grouped into bundles: proposals of the pages' types (index:tree) and of *)
(* document:classify, the split the user saves, the automatic confirmation *)
(* of a proposed split, and the tree of a file that is built from its      *)
(* segments (docmodel/split.go, index/service.go, index/doctypes.go,       *)
(* repository/postgres/segments.go).                                       *)
(*                                                                         *)
(* A step is one transaction or one read.  SaveProposals and SaveSplit are *)
(* one step each: a segment's foreign key takes the lock of the document   *)
(* that SaveProposals holds, and two SaveSplit exclude each other.         *)
(***************************************************************************)
EXTENDS Integers, FiniteSets

CONSTANTS
    N,             \* pages of a file
    Files,         \* number of files of the case, in case order
    Label,         \* document types of the case
    Opens,         \* bundles.opens_with: labels that open a bundle
    Layout,        \* what the page types or the model may propose
    Review,        \* the splits of a file a user may save
    Calm,          \* assumption: see Quiet
    MaxTry,        \* queue.Policy.MaxRetry of index:tree and document:classify
    MaxGen,        \* bound: parse generations of a file
    MaxReq,        \* bound: user requests in a behaviour
    MaxCrash       \* bound: process deaths

Page == 1..N
File == 1..Files
Unknown == "unknown"
Other == "other"
Spans == [from : Page, to : Page, label : Label \cup {Unknown, Other}]
Covers(S) == UNION {s.from..s.to : s \in S}

ASSUME SplitAssumption ==
    /\ {N, Files} \subseteq Nat \ {0} /\ IsFiniteSet(Label) /\ Opens \subseteq Label
    /\ Layout \subseteq SUBSET Spans /\ {} \in Layout
    /\ Review \subseteq SUBSET Spans /\ \A S \in Review : Covers(S) = Page /\ \A s \in S : s.label # Unknown
    /\ \A S \in Layout \cup Review : \A s, t \in S : s.from <= s.to /\ (s = t \/ s.to < t.from \/ t.to < s.from)
    /\ Calm \in BOOLEAN /\ MaxGen \in Nat \ {0} /\ {MaxTry, MaxReq, MaxCrash} \subseteq Nat

VARIABLES
    doc,        \* the documents rows, with the types the pages of each were given
    segs,       \* the active document_segments of every generation
    tree,       \* the stored tree of each file's current generation
    procs,      \* tasks and requests, between two of their steps
    used        \* how much of each bound has been spent

vars == <<doc, segs, tree, procs, used>>

NoTree == [p \in Page |-> <<>>]

-----------------------------------------------------------------------------
(* Segments.                                                               *)

Current(f) == {g \in segs : g.file = f /\ g.gen = doc[f].gen}
Of(S, src) == {g \in S : g.src = src}
Overlap(g, h) == g.from <= h.to /\ g.to >= h.from

(* spansOf: the pages as the tree shows them; the user's segments win.     *)
Shown(S) ==
    LET keep == {g \in S : g.src = "user" \/ ~\E u \in Of(S, "user") : Overlap(g, u)}
    IN  [p \in Page |-> IF \E g \in keep : p \in g.from..g.to
                        THEN LET g == CHOOSE g \in keep : p \in g.from..g.to IN <<g.from, g.to, g.label>>
                        ELSE <<Unknown>>]

Uncovered(layout, S) == Covers(layout) \ Covers(S) # {}

(* Mutant: the user's segments go too.                                     *)
Proposed_Replace(f, gen, layout, src) ==
    {g \in segs : g.file # f}
        \cup {[file |-> f, gen |-> gen, from |-> s.from, to |-> s.to, label |-> s.label, src |-> src, code |-> 0] : s \in layout}

(* SaveProposals of a generation: what the pipeline had goes, and every    *)
(* segment of another generation; the user's of this one stay.             *)
Proposed(f, gen, layout, src) ==
    LET mine == {g \in segs : g.file = f /\ g.gen = gen /\ g.src = "user"}
    IN  {g \in segs : g.file # f} \cup mine
            \cup {[file |-> f, gen |-> gen, from |-> s.from, to |-> s.to, label |-> s.label, src |-> src, code |-> 0] :
                      s \in {s \in layout : ~\E u \in mine : Overlap(u, s)}}

(* SaveSplit: the files of the plan get its segments and no other, and its *)
(* bundles are numbered in order; the rest of the case keeps its segments, *)
(* and bundles by their code.                                              *)
Planned(plan) == {s.file : s \in plan}
Rank(plan, code) == Cardinality({s.code : s \in {t \in plan : t.code <= code}})

(* Mutant: the bundles of the other files go with those of the case.       *)
Saved_Unbundle(plan) ==
    {[g EXCEPT !.code = 0] : g \in {g \in segs : g.file \notin Planned(plan)}}
        \cup {[file |-> s.file, gen |-> doc[s.file].gen, from |-> s.from, to |-> s.to, label |-> s.label,
               src |-> "user", code |-> Rank(plan, s.code)] : s \in plan}

Saved(plan) ==
    {g \in segs : g.file \notin Planned(plan)}
        \cup {[file |-> s.file, gen |-> doc[s.file].gen, from |-> s.from, to |-> s.to, label |-> s.label,
               src |-> "user", code |-> Rank(plan, s.code)] : s \in plan}

-----------------------------------------------------------------------------
(* The split screen, and what confirming it unchanged would save.          *)

(* View of a file: the user's segments once it is reviewed, else all of    *)
(* them; runs of pages nobody labelled are filled.                         *)
InView(f) == IF doc[f].reviewed THEN Of(Current(f), "user") ELSE Current(f)

Gaps(f) ==
    LET free == Page \ Covers(InView(f))
        Run(a, b) == a..b \subseteq free /\ a - 1 \notin free /\ b + 1 \notin free
    IN  {[file |-> f, from |-> r[1], to |-> r[2], label |-> Unknown, code |-> 0] :
            r \in {r \in Page \X Page : r[1] <= r[2] /\ Run(r[1], r[2])}}

(* What the screen shows of the indexed files, in case order.              *)
Rows == UNION {{[file |-> f, from |-> g.from, to |-> g.to, label |-> g.label, code |-> g.code] : g \in InView(f)} \cup Gaps(f) :
                  f \in {f \in File : doc[f].indexed}}
Before(g, h) == g.file < h.file \/ (g.file = h.file /\ g.from < h.from)

(* proposeBundles: a document of a reviewed file keeps its bundle; a label *)
(* of Opens, or the first document, opens one after the last there was;    *)
(* any other document joins the bundle that is open.                       *)
Keeps(g) == g.code # 0 /\ doc[g.file].reviewed
Starts(g) == ~Keeps(g) /\ (g.label \in Opens \/ \A h \in Rows : ~Before(h, g))

Bundle(g) ==
    LET heads == {h \in Rows : (Keeps(h) \/ Starts(h)) /\ ~Before(g, h)}
        head == CHOOSE h \in heads : \A k \in heads : ~Before(h, k)
        top == CHOOSE n \in {h.code : h \in Rows} : \A h \in Rows : h.code <= n
    IN  IF Keeps(head) THEN head.code ELSE top + Cardinality({h \in heads : Starts(h)})

(* AutoConfirm leaves out the files that nothing was proposed for.         *)
AutoPlan == {[g EXCEPT !.label = IF @ = Unknown THEN Other ELSE @, !.code = Bundle(g)] : g \in {g \in Rows : InView(g.file) # {}}}

-----------------------------------------------------------------------------
(* Tasks and requests.                                                     *)

Proc(kind, id, f, pc) ==
    [kind |-> kind, id |-> id, file |-> f, gen |-> doc[f].gen, read |-> doc[f].gen, pc |-> pc, try |-> 0, plan |-> {}, at |-> NoTree, todo |-> {}]
Spend(bound) == used' = [used EXCEPT ![bound] = @ + 1]
Become(p, q) == procs' = (procs \ {p}) \cup {q}
Goto(p, pc) == Become(p, [p EXCEPT !.pc = pc])
End(p) == procs' = procs \ {p}
Building(f) == \E p \in procs : p.file = f /\ p.pc \in {"propose", "reread", "store"}
Working(f) == \E p \in procs : p.file = f \/ f \in p.todo

(* The quiet case: nobody saves while a split is being confirmed, no file  *)
(* is read again while it is being classified, one tree of a file is built *)
(* at a time, and what has been saved is followed by its rebuild.          *)
Quiet(cond) == Calm => cond

(* handle(tree) and RebuildTree begin by reading the file and its          *)
(* segments.  Without segments, or with classified pages outside them, the *)
(* types of the pages are proposed first.                                  *)
Read(p) ==
    /\ p.pc = "spans" /\ Quiet(~Building(p.file))
    /\ LET f == p.file
           q == [p EXCEPT !.read = doc[f].gen]
       IN  IF p.kind = "tree" /\ doc[f].gen # p.gen THEN End(p)
           ELSE IF p.kind # "tree" /\ tree[f] = NoTree THEN Goto(p, "next")
           ELSE IF doc[f].layout # {} /\ (Current(f) = {} \/ Uncovered(doc[f].layout, Current(f)))
           THEN Become(p, [q EXCEPT !.pc = "propose", !.plan = doc[f].layout])
           ELSE Become(p, [q EXCEPT !.pc = "store", !.at = Shown(Current(f))])
    /\ UNCHANGED <<doc, segs, tree, used>>

Propose(p) ==
    /\ p.pc = "propose"
    /\ segs' = Proposed(p.file, p.read, p.plan, "image")
    /\ doc' = [doc EXCEPT ![p.file].classify = "done"]
    /\ Become(p, [p EXCEPT !.pc = "reread", !.plan = {}])
    /\ UNCHANGED <<tree, used>>

Reread(p) ==
    /\ p.pc = "reread"
    /\ Become(p, [p EXCEPT !.pc = "store", !.at = Shown(Current(p.file))])
    /\ UNCHANGED <<doc, segs, tree, used>>

(* ReplaceTree, for the generation that was read.                          *)
Store(p) ==
    /\ p.pc = "store"
    /\ tree' = IF p.read = doc[p.file].gen THEN [tree EXCEPT ![p.file] = p.at] ELSE tree
    /\ Become(p, [p EXCEPT !.at = NoTree, !.pc = IF p.kind = "tree" THEN "append" ELSE "next"])
    /\ UNCHANGED <<doc, segs, used>>

Append1(p) ==
    /\ p.pc = "append"
    /\ doc' = [doc EXCEPT ![p.file].indexed = TRUE]
    /\ Goto(p, "confirm")
    /\ UNCHANGED <<segs, tree, used>>

(* confirmSplit: when the file has proposals made from its pages, the view *)
(* of the whole case is what is saved.                                     *)
Confirm(p) ==
    /\ p.pc = "confirm" /\ Quiet(~\E q \in procs : q.pc = "save")
    /\ IF Of(Current(p.file), "image") = {} \/ AutoPlan = {} THEN Goto(p, "next")
       ELSE Become(p, [p EXCEPT !.kind = "auto", !.pc = "save", !.plan = AutoPlan])
    /\ UNCHANGED <<doc, segs, tree, used>>

(* Mutant: the trees are left as they are.                                 *)
Save_NoRebuild(p) ==
    /\ p.pc = "save"
    /\ segs' = Saved(p.plan)
    /\ doc' = [f \in File |-> IF f \in Planned(p.plan) THEN [doc[f] EXCEPT !.reviewed = TRUE] ELSE doc[f]]
    /\ Become(p, [p EXCEPT !.pc = "next", !.plan = {}])
    /\ UNCHANGED <<tree, used>>

(* Save: the transaction, then the tree of each of its files.              *)
Save(p) ==
    /\ p.pc = "save"
    /\ segs' = Saved(p.plan)
    /\ doc' = [f \in File |-> IF f \in Planned(p.plan) THEN [doc[f] EXCEPT !.reviewed = TRUE] ELSE doc[f]]
    /\ Become(p, [p EXCEPT !.pc = "next", !.todo = Planned(p.plan), !.plan = {}])
    /\ UNCHANGED <<tree, used>>

NextFile(p, f) ==
    /\ p.pc = "next" /\ f \in p.todo
    /\ Become(p, [p EXCEPT !.file = f, !.todo = @ \ {f}, !.pc = "spans"])
    /\ UNCHANGED <<doc, segs, tree, used>>

(* handleClassify: the model may propose any layout.                       *)
ClassifyStart(p) ==
    /\ p.pc = "start"
    /\ Become(p, [p EXCEPT !.pc = "model", !.read = doc[p.file].gen])
    /\ UNCHANGED <<doc, segs, tree, used>>

ClassifySave(p, layout) ==
    /\ p.pc = "model"
    /\ segs' = Proposed(p.file, p.read, layout, "titles")
    /\ doc' = [doc EXCEPT ![p.file].classify = "done"]
    /\ Become(p, [p EXCEPT !.pc = "next", !.todo = {p.file}])
    /\ UNCHANGED <<tree, used>>

(* The end of a handler.  index:tree records its result for the generation *)
(* it read (SetIndexResult).  document:classify reports its error, nil     *)
(* too, to fail, which on the last attempt records a failure.              *)
Result(p, ok) == [doc EXCEPT ![p.id].unbuilt = IF p.gen = doc[p.id].gen THEN ~ok ELSE @]

Finish(p) ==
    /\ p.pc = "next" /\ p.todo = {}
    /\ doc' = CASE p.kind \in {"tree", "auto"} -> Result(p, TRUE)
                 [] p.kind = "classify" /\ p.try = MaxTry -> [doc EXCEPT ![p.file].classify = "failed"]
                 [] OTHER -> doc
    /\ End(p)
    /\ UNCHANGED <<segs, tree, used>>

(* A step fails: a task is tried again, or on its last attempt records the *)
(* failure; a request answers with the error; of a confirmation it is only *)
(* logged.                                                                 *)
Retry(p) == [Proc(p.kind, p.id, p.file, IF p.kind = "classify" THEN "start" ELSE "spans")
             EXCEPT !.try = p.try + 1, !.gen = p.gen]

Again(p, task) == IF p.try < MaxTry THEN Become(p, Retry(task)) ELSE End(p)
MayFail(p) ==
    /\ p.pc # "queue"
    /\ Quiet(p.kind = "tree" \/ p.pc \in {"start", "model", "save"})

Fails(p) ==
    /\ MayFail(p)
    /\ doc' = CASE p.kind = "tree" /\ p.try = MaxTry -> Result(p, FALSE)
                 [] p.kind = "classify" /\ p.try = MaxTry -> [doc EXCEPT ![p.file].classify = "failed"]
                 [] OTHER -> doc
    /\ CASE p.kind \in {"tree", "classify"} -> Again(p, p)
         [] p.kind = "auto" -> Become(p, [p EXCEPT !.pc = "next", !.todo = {}, !.plan = {}, !.at = NoTree])
         [] OTHER -> End(p)
    /\ UNCHANGED <<segs, tree, used>>

(* A process dies: nothing is recorded, and a task on its last attempt is  *)
(* archived.                                                               *)
Dies(p) ==
    /\ Quiet((p.kind = "tree" /\ p.try < MaxTry) \/ (p.kind = "classify" /\ p.try < MaxTry /\ p.pc \in {"start", "model"}))
    /\ used.crash < MaxCrash /\ Spend("crash")
    /\ CASE p.kind \in {"tree", "classify"} -> Again(p, p)
         [] p.kind = "auto" -> Again(p, [p EXCEPT !.kind = "tree", !.file = p.id])
         [] OTHER -> End(p)
    /\ UNCHANGED <<doc, segs, tree>>

-----------------------------------------------------------------------------
(* Requests.                                                               *)

Ask == used.req < MaxReq /\ Spend("req")

(* PUT split: some indexed files, each with every page in one document,    *)
(* and each document in the first bundle or in one of its own.             *)
SaveAsked(choice, apart) ==
    /\ DOMAIN choice # {} /\ \A f \in DOMAIN choice : doc[f].indexed
    /\ Quiet(~\E p \in procs : p.pc = "save")
    /\ Ask
    /\ LET plan == UNION {{[file |-> f, from |-> s.from, to |-> s.to, label |-> s.label,
                            code |-> IF apart THEN (f - 1) * N + s.from ELSE 1] : s \in choice[f]} : f \in DOMAIN choice}
       IN  procs' = procs \cup {[Proc("save", used.req + 1, CHOOSE f \in DOMAIN choice : TRUE, "save") EXCEPT !.plan = plan]}
    /\ UNCHANGED <<doc, segs, tree>>

(* Classify: the status, then the task.                                    *)
ClassifyAsked(f) ==
    /\ doc[f].indexed /\ Ask
    /\ doc' = [doc EXCEPT ![f].classify = "running"]
    /\ procs' = procs \cup {Proc("ask", used.req + 1, f, "queue")}
    /\ UNCHANGED <<segs, tree>>

ClassifyQueue(p, ok) ==
    /\ p.pc = "queue"
    /\ IF ok THEN Become(p, Proc("classify", p.id, p.file, "start")) /\ UNCHANGED doc
             ELSE End(p) /\ doc' = [doc EXCEPT ![p.file].classify = "failed"]
    /\ UNCHANGED <<segs, tree, used>>

(* Reparse: a new generation, whose pages are read and classified before   *)
(* its index:tree; or pages of a document that is finished are read again  *)
(* or for the first time, in the same generation.                          *)
Settled(f) == ~\E p \in procs : p.kind \in {"tree", "auto"} /\ p.id = f /\ p.gen = doc[f].gen
Tree(f, gen) == [Proc("tree", f, f, "spans") EXCEPT !.gen = gen]

Reparse(f, layout) ==
    /\ doc[f].gen < MaxGen /\ Ask
    /\ Quiet(~Working(f))
    /\ doc' = [doc EXCEPT ![f].gen = @ + 1, ![f].layout = layout, ![f].unbuilt = FALSE]
    /\ tree' = [tree EXCEPT ![f] = NoTree]
    /\ procs' = procs \cup {Tree(f, doc[f].gen + 1)}
    /\ UNCHANGED segs

PickPages(f, layout) ==
    /\ Settled(f) /\ Ask
    /\ Quiet(~Working(f))
    /\ doc[f].layout # layout /\ doc[f].layout \subseteq layout
    /\ doc' = [doc EXCEPT ![f].layout = layout]
    /\ procs' = procs \cup {Tree(f, doc[f].gen)}
    /\ UNCHANGED <<segs, tree>>

-----------------------------------------------------------------------------

Init ==
    /\ doc \in [File -> [gen : {1}, indexed : {FALSE}, reviewed : {FALSE}, classify : {"none"}, layout : Layout,
                       unbuilt : {FALSE}]]
    /\ segs = {} /\ tree = [f \in File |-> NoTree]
    /\ procs = {[kind |-> "tree", id |-> f, file |-> f, gen |-> 1, read |-> 1, pc |-> "spans", try |-> 0,
                 plan |-> {}, at |-> NoTree, todo |-> {}] : f \in File}
    /\ used = [req |-> 0, crash |-> 0]

Step(p) ==
    \/ Read(p) \/ Propose(p) \/ Reread(p) \/ Store(p) \/ Append1(p) \/ Confirm(p) \/ Save(p)
    \/ \E f \in File : NextFile(p, f)
    \/ ClassifyStart(p) \/ \E layout \in Layout : ClassifySave(p, layout)
    \/ Finish(p) \/ \E ok \in BOOLEAN : ClassifyQueue(p, ok)

Next ==
    \/ \E p \in procs : Step(p) \/ Fails(p) \/ Dies(p)
    \/ \E F \in SUBSET File : \E choice \in [F -> Review], apart \in BOOLEAN : SaveAsked(choice, apart)
    \/ \E f \in File : ClassifyAsked(f)
    \/ \E f \in File, layout \in Layout : Reparse(f, layout) \/ PickPages(f, layout)

Spec == Init /\ [][Next]_vars

-----------------------------------------------------------------------------
(* Properties.                                                             *)

TypeOK ==
    /\ doc \in [File -> [gen : 1..MaxGen, indexed : BOOLEAN, reviewed : BOOLEAN,
                         classify : {"none", "running", "done", "failed"}, layout : Layout, unbuilt : BOOLEAN]]
    /\ \A g \in segs : /\ g.file \in File /\ g.gen \in 1..MaxGen
                       /\ [from |-> g.from, to |-> g.to, label |-> g.label] \in Spans
                       /\ g.src \in {"user", "image", "titles"} /\ g.code \in 0..(Files * N)
    /\ \A p \in procs : p.kind \in {"tree", "auto", "save", "ask", "classify"} /\ p.try \in 0..MaxTry

(* A page is in one document: whatever proposals, saves and automatic      *)
(* confirmations of one file follow each other, its segments of one        *)
(* generation never overlap.                                               *)
OneDocumentPerPage ==
    \A g, h \in segs : g.file = h.file /\ g.gen = h.gen /\ g # h => ~Overlap(g, h)

(* A split that was saved stays whole: the user's segments of a file cover *)
(* every page or are gone together, and each is in a bundle.               *)
ReviewWhole ==
    \A f \in File : LET mine == Of(Current(f), "user")
                    IN  mine # {} => Covers(mine) = Page /\ \A g \in mine : g.code # 0

(* The segments of a case are a split of it.                               *)
SplitSound == TypeOK /\ OneDocumentPerPage /\ ReviewWhole

(* What the user's split says changes by a save the user asked for, or     *)
(* with a new generation; not by a proposal, and not by the automatic      *)
(* confirmation of another file.                                           *)
Text(S) == {<<g.from, g.to, g.label>> : g \in S}
ReviewStands ==
    [][\A f \in File : (Of(Current(f), "user") # {} /\ doc'[f].gen = doc[f].gen) =>
          \/ Text(Of(Current(f), "user"))' = Text(Of(Current(f), "user"))
          \/ \E p \in procs : p.kind = "save" /\ p.pc = "save" /\ f \in Planned(p.plan)]_vars

(* The tree of a file nobody is working on shows its segments, unless the  *)
(* file says that its index could not be built.                            *)
TreeShowsSplit ==
    \A f \in File : ~Working(f) /\ tree[f] # NoTree /\ ~doc[f].unbuilt => tree[f] = Shown(Current(f))

(* The screen shows a classification as running only while a request or a  *)
(* task of the file is still there to end it.                              *)
RunningHasTask ==
    \A f \in File : doc[f].classify = "running" => \E p \in procs : p.kind \in {"ask", "classify"} /\ p.file = f

(* What the screens show of a file agrees with its segments and its tasks. *)
ShownTrue == TreeShowsSplit /\ RunningHasTask

(* A file whose split was confirmed once has a confirmed split whenever it *)
(* is indexed with documents proposed from its pages: indexing makes them  *)
(* the split "without anyone reviewing it" (confirmSplit).                 *)
IndexedIsConfirmed ==
    \A f \in File : doc[f].reviewed /\ ~Working(f) /\ tree[f] # NoTree /\ ~doc[f].unbuilt /\ Of(Current(f), "image") # {}
                      => Of(Current(f), "user") # {}
==============================================================================
