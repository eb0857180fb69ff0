------------------------------ MODULE RenderWorker -----------------------------
(***************************************************************************)
(* A worker process's render and split tasks: each holds a local copy of   *)
(* the source file (TempFiles) around one call of the renderer (Renderer), *)
(* both under the context of the task (Service.split and Service.render in *)
(* internal/application/service/document/pipeline.go).                     *)
(***************************************************************************)
EXTENDS TempFiles, Renderer

vars == <<entries, disk, use, native, slots, inst, job, respawns, crashes>>

Files(step) == step /\ UNCHANGED poolVars
Pool(step) == step /\ UNCHANGED filesVars

(* Mutant: the file is released when the renderer is called.               *)
Return_Early(t) == Files(Release(t))

(* The task returns: the deferred release follows the renderer's.          *)
Return(t) == Release(t) /\ Leave(t)

(* The file is opened once the task has it.  An image needs no renderer.   *)
Begin(t, n) == use[t].pc = "using" /\ Pool(Call(t, n))

(* Emit puts the image in the object store and the row in the database,    *)
(* under the context, which RenderBatch looks at before each page as well. *)
EmitUnder(t, ok) == (ok => use[t].live) /\ Pool(Emit(t, ok))

Work(t) ==
    \/ \E ok \in BOOLEAN : Files(Download(t, ok))
    \/ Files(Obtain(t)) \/ Files(AcquireFails(t))
    \/ Pool(AcquireSlot(t))
    \/ ~use[t].live /\ Pool(SlotNotAcquired(t))
    \/ \E out \in Outcome : Pool(Open(t, out)) \/ Pool(Draw(t, out))
    \/ \E ok \in BOOLEAN : EmitUnder(t, ok)
    \/ \E rss \in BOOLEAN : Pool(ReturnSlot(t, rss))
    \/ Pool(Replace(t)) \/ Pool(ReplaceFails(t))

(* A task is retried for as long as the queue pleases: it may come again.  *)
Arrive(t, k) == Files(Join(t, k))

Init ==
    /\ FilesInit
    /\ native \in BOOLEAN
    /\ slots \in {S \in SUBSET Inst : Cardinality(S) = Workers}
    /\ inst = [i \in Inst |-> IF i \in slots THEN [state |-> "live", pages |-> 0] ELSE Gone]
    /\ job = [t \in Task |-> NoJob]
    /\ respawns = 0 /\ crashes = 0

Next ==
    \/ \E t \in Task :
          \/ \E k \in Key : Arrive(t, k)
          \/ \E n \in 0..MaxPages : Begin(t, n)
          \/ Work(t) \/ Return(t) \/ Files(Expire(t))
    \/ Pool(Respawn)
    \/ \E i \in Inst : Pool(StuckEnds(i)) \/ Pool(ChildDies(i))

Spec == Init /\ [][Next]_vars

(* A task that is running goes on, the receivers of a channel are served   *)
(* in the order they came, a replacement succeeds in the end, and so does  *)
(* a WebAssembly call.  No task has to arrive.                             *)
Fairness ==
    /\ \A t \in Task :
          /\ WF_vars(Work(t)) /\ WF_vars(Return(t))
          /\ WF_vars(\E n \in 0..MaxPages : Begin(t, n))
          /\ SF_vars(Pool(AcquireSlot(t)))
    /\ WF_vars(Pool(Respawn))
    /\ \A i \in Inst : WF_vars(Pool(StuckEnds(i)))

FairSpec == Spec /\ Fairness

-----------------------------------------------------------------------------
(* Properties.                                                             *)

(* The renderer reads a file only while its task holds it: no instance has *)
(* a file open that another task may remove.                               *)
ReadsHeldFile == \A t \in Task : job[t].pc # "out" => use[t].pc = "using" /\ use[t].key \in disk

(* The files are there for who uses them and for nobody else, and the      *)
(* renderer is among those who use them.                                   *)
FilesSafe == FilesTypeOK /\ HoldersHaveFile /\ NothingKept /\ OneWriter /\ ReadsHeldFile

(* Every slot is somewhere, and its instance serves one caller, not too    *)
(* long.                                                                   *)
PoolSafe == PoolTypeOK /\ SlotsConserved /\ OneCaller /\ RecycledInTime

(* Every task that came gets its file and its slot, or an error, and gives *)
(* both back: nobody waits for ever for a download that failed, a slot     *)
(* that was lost or a process that could not be started at first.          *)
TasksReturn == \A t \in Task : use[t].pc # "out" ~> use[t].pc = "out"
==============================================================================
