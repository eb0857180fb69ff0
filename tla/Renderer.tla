-------------------------------- MODULE Renderer -------------------------------
(***************************************************************************)
(* The pool of PDFium instances that Probe and RenderBatch take turns on   *)
(* (docpipe/parser/pdf/renderer.go): acquiring a slot, the calls with      *)
(* their page timeout, and what release does with an instance that is due  *)
(* for recycling, was killed, or cannot be replaced at once.               *)
(***************************************************************************)
EXTENDS WorkerTasks

CONSTANTS
    Workers,     \* Config.Workers: the slots
    Recycle,     \* Config.RecycleAfterPages
    Inst,        \* names for PDFium instances, used again when one is gone
    MaxPages,    \* bound: pages of a batch
    MaxCrash     \* bound: child processes that die by themselves

ASSUME RendererAssumption ==
    /\ Workers \in Nat \ {0} /\ Recycle \in Nat \ {0}
    /\ IsFiniteSet(Inst) /\ Cardinality(Inst) >= 2 * Workers
    /\ MaxPages \in Nat \ {0} /\ MaxCrash \in Nat

VARIABLES
    native,      \* Config.Mode: multi_threaded (child processes) or webassembly
    slots,       \* Renderer.slots: the instances that wait for a caller
    inst,        \* what has become of each instance, and slot.pages
    job,         \* what each task does in the renderer
    respawns,    \* goroutines that retry to replace an instance
    crashes      \* child processes that have died by themselves

poolVars == <<native, slots, inst, job, respawns, crashes>>

(* Headroom of the pool: a timed-out WebAssembly call cannot be            *)
(* interrupted and keeps its instance while a replacement runs.            *)
MaxTotal == IF native THEN Workers ELSE 2 * Workers

NoJob == [pc |-> "out", left |-> 0, inst |-> {}, kill |-> FALSE]
Done == [NoJob EXCEPT !.pc = "done"]
Gone == [state |-> "none", pages |-> 0]
Free == {i \in Inst : inst[i].state = "none"}
Alive == Inst \ Free

(* RenderBatch of n pages; Probe opens the file too, and renders none.     *)
Call(t, n) ==
    /\ job[t].pc = "out"
    /\ job' = [job EXCEPT ![t] = [NoJob EXCEPT !.pc = "waiting", !.left = n]]
    /\ UNCHANGED <<native, slots, inst, respawns, crashes>>

(* acquire.                                                                *)
AcquireSlot(t) ==
    /\ job[t].pc = "waiting"
    /\ \E i \in slots :
          /\ slots' = slots \ {i}
          /\ job' = [job EXCEPT ![t].pc = "opening", ![t].inst = {i}]
    /\ UNCHANGED <<native, inst, respawns, crashes>>

SlotNotAcquired(t) ==
    /\ job[t].pc = "waiting"
    /\ job' = [job EXCEPT ![t] = Done]
    /\ UNCHANGED <<native, slots, inst, respawns, crashes>>

(* call: the answer of the instance, or the timeout, which kills a child   *)
(* process but only leaves a WebAssembly call running.  A child that died  *)
(* can only fail.                                                          *)
Timed(pages) == [state |-> IF native THEN "dead" ELSE "stuck", pages |-> pages]

Open(t, out) ==
    /\ job[t].pc = "opening"
    /\ \E i \in job[t].inst :
          /\ out = "ok" => inst[i].state = "live"
          /\ inst' = IF out = "timeout" THEN [inst EXCEPT ![i] = Timed(inst[i].pages)] ELSE inst
    /\ job' = [job EXCEPT ![t].pc = IF out = "ok" /\ job[t].left > 0 THEN "drawing" ELSE "releasing",
                          ![t].kill = (out = "timeout")]
    /\ UNCHANGED <<native, slots, respawns, crashes>>

(* One page.  Every page counts towards recycling, the failed ones too.    *)
Draw(t, out) ==
    /\ job[t].pc = "drawing"
    /\ \E i \in job[t].inst :
          /\ out = "ok" => inst[i].state = "live"
          /\ inst' = [inst EXCEPT ![i] = IF out = "timeout" THEN Timed(inst[i].pages + 1)
                                         ELSE [inst[i] EXCEPT !.pages = @ + 1]]
    /\ job' = [job EXCEPT ![t].pc = IF out = "ok" THEN "emitting" ELSE "releasing",
                          ![t].left = @ - 1,
                          ![t].kill = (out = "timeout")]
    /\ UNCHANGED <<native, slots, respawns, crashes>>

(* emit: the caller keeps the page, and the batch goes on unless that      *)
(* failed or the caller's context has ended.                               *)
Emit(t, ok) ==
    /\ job[t].pc = "emitting"
    /\ job' = [job EXCEPT ![t].pc = IF ok /\ job[t].left > 0 THEN "drawing" ELSE "releasing"]
    /\ UNCHANGED <<native, slots, inst, respawns, crashes>>

(* release.  A resident set over the limit makes an instance due as well,  *)
(* whichever child it is of.                                               *)
Due(t, i, rss) == job[t].kill \/ inst[i].pages >= Recycle \/ rss

ReturnSlot(t, rss) ==
    /\ job[t].pc = "releasing"
    /\ \E i \in job[t].inst :
          IF Due(t, i, rss)
          THEN /\ inst' = [inst EXCEPT ![i] = IF @.state = "stuck" THEN @ ELSE Gone]
               /\ job' = [job EXCEPT ![t].pc = "replacing", ![t].inst = {}]
               /\ UNCHANGED slots
          ELSE slots' = slots \cup {i} /\ job' = [job EXCEPT ![t] = Done] /\ UNCHANGED inst
    /\ UNCHANGED <<native, respawns, crashes>>

(* GetInstance starts a new instance when the pool has room for one.       *)
Start(i) ==
    /\ Cardinality(Alive) < MaxTotal
    /\ i \in Free
    /\ inst' = [inst EXCEPT ![i] = [state |-> "live", pages |-> 0]]
    /\ slots' = slots \cup {i}

Replace(t) ==
    /\ job[t].pc = "replacing"
    /\ \E i \in Inst : Start(i)
    /\ job' = [job EXCEPT ![t] = Done]
    /\ UNCHANGED <<native, respawns, crashes>>

(* It fails, or waits too long for room: a goroutine of its own retries.   *)
(* Mutant: the slot is given up.                                           *)
ReplaceFails_GiveUp(t) ==
    /\ job[t].pc = "replacing"
    /\ job' = [job EXCEPT ![t] = Done]
    /\ UNCHANGED <<native, slots, inst, respawns, crashes>>

ReplaceFails(t) ==
    /\ job[t].pc = "replacing"
    /\ job' = [job EXCEPT ![t] = Done]
    /\ respawns' = respawns + 1
    /\ UNCHANGED <<native, slots, inst, crashes>>

Respawn ==
    /\ respawns > 0
    /\ \E i \in Inst : Start(i)
    /\ respawns' = respawns - 1
    /\ UNCHANGED <<native, job, crashes>>

(* The caller goes on.                                                     *)
Leave(t) ==
    /\ job[t].pc \in {"out", "done"}
    /\ job' = [job EXCEPT ![t] = NoJob]
    /\ UNCHANGED <<native, slots, inst, respawns, crashes>>

(* The WebAssembly call that timed out ends, and with it its instance.     *)
StuckEnds(i) ==
    /\ inst[i].state = "stuck" /\ \A t \in Task : i \notin job[t].inst
    /\ inst' = [inst EXCEPT ![i] = Gone]
    /\ UNCHANGED <<native, slots, job, respawns, crashes>>

(* A child process dies by itself.                                         *)
ChildDies(i) ==
    /\ native /\ inst[i].state = "live" /\ crashes < MaxCrash
    /\ crashes' = crashes + 1
    /\ inst' = [inst EXCEPT ![i].state = "dead"]
    /\ UNCHANGED <<native, slots, job, respawns>>

-----------------------------------------------------------------------------
(* Properties.                                                             *)

Holders == {t \in Task : job[t].pc \in {"opening", "drawing", "emitting", "releasing", "replacing"}}
Outcome == {"ok", "error", "timeout"}

PoolTypeOK ==
    /\ native \in BOOLEAN
    /\ slots \subseteq Inst
    /\ inst \in [Inst -> [state : {"none", "live", "dead", "stuck"}, pages : Nat]]
    /\ job \in [Task -> [pc : {"out", "waiting", "opening", "drawing", "emitting", "releasing", "replacing", "done"},
                         left : 0..MaxPages, inst : SUBSET Inst, kill : BOOLEAN]]
    /\ respawns \in 0..Workers /\ crashes \in 0..MaxCrash

(* No slot is lost or made, whatever becomes of its instance: timeouts,    *)
(* crashes, recycling and replacements that fail all give it back.         *)
SlotsConserved == Cardinality(slots) + Cardinality(Holders) + respawns = Workers

(* An instance serves one caller at a time (PDFium is not thread-safe):    *)
(* none is handed to two tasks, nor waits in the channel while a task      *)
(* holds it or a call that timed out still runs in it.                     *)
OneCaller ==
    /\ \A t, u \in Task : t # u => job[t].inst \cap job[u].inst = {}
    /\ \A t \in Task : job[t].inst \cap slots = {}
    /\ \A i \in slots : inst[i].state \in {"live", "dead"}

(* Recycling bounds what an instance renders, though a batch is never cut  *)
(* short for it: less than a batch over the limit.                         *)
RecycledInTime == \A i \in Inst : inst[i].pages < Recycle + MaxPages

(* An instance whose child process died under a caller is replaced, not    *)
(* handed to the next.                                                     *)
DeadNotReturned == [][\A i \in slots' \ slots : inst'[i].state # "dead"]_poolVars
==============================================================================
