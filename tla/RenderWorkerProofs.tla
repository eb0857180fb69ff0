-------------------------- MODULE RenderWorkerProofs ---------------------------
(***************************************************************************)
(* For any tasks, files, slots and batches: a task that was handed a path  *)
(* finds the file there until it gives it back, no file outlives its       *)
(* users, and no two downloads write one path; render tasks hold the files *)
(* they read, no slot of the renderer is lost or made, an instance serves  *)
(* one caller, and recycling bounds what it renders.  And the gate of the  *)
(* OCR workers (ModelGate) keeps the two kinds of model calls apart and    *)
(* leaves nobody asleep in front of it when it is open.                    *)
(***************************************************************************)
EXTENDS RenderWorker, ModelGate, FiniteSetTheorems, TLAPS

-----------------------------------------------------------------------------
(* The temporary files (TempFiles).                                        *)

State == {"none", "loading", "ready", "failed"}
Use == [pc : {"out", "loading", "waiting", "using"}, key : Key, live : BOOLEAN]

(* An entry tells what its users do: it counts them, exists while it has   *)
(* some, is loading while its only downloader is, and ready exactly while  *)
(* the file is on the disk.                                                *)
EntryTells(k) ==
    /\ entries[k].refs = Cardinality(Users(k))
    /\ entries[k].state = "none" <=> Users(k) = {}
    /\ k \in disk <=> entries[k].state = "ready"
    /\ \A t \in Users(k) :
          /\ use[t].pc = "loading" => entries[k].state = "loading"
          /\ use[t].pc = "using" => entries[k].state = "ready"
          /\ \A u \in Users(k) : use[t].pc = "loading" /\ use[u].pc = "loading" => t = u

FilesInv == FilesTypeOK /\ \A k \in Key : EntryTells(k)

LEMMA UsersFinite ==
    ASSUME NEW k
    PROVE  /\ IsFiniteSet(Users(k)) /\ Cardinality(Users(k)) \in Nat
           /\ Cardinality(Users(k)) = 0 <=> Users(k) = {}
           /\ \A t : Cardinality(Users(k) \cup {t}) = IF t \in Users(k) THEN Cardinality(Users(k)) ELSE Cardinality(Users(k)) + 1
           /\ \A t : Cardinality(Users(k) \ {t}) = IF t \in Users(k) THEN Cardinality(Users(k)) - 1 ELSE Cardinality(Users(k))
<1>1. IsFiniteSet(Users(k))
  BY TaskAssumption, FS_Subset, Users(k) \in SUBSET Task DEF Users
<1> QED
  BY <1>1, FS_CardinalityType, FS_EmptySet, FS_AddElement, FS_RemoveElement

LEMMA NoUseType == NoUse \in Use /\ NoUse.pc = "out"
<1>1. (CHOOSE k \in Key : TRUE) \in Key
  BY KeyAssumption
<1> QED
  BY <1>1 DEF NoUse, Use

LEMMA EntryExcept ==
    ASSUME NEW r \in [refs : Nat, state : State], NEW n \in Nat, NEW s \in State
    PROVE  /\ [r EXCEPT !.refs = n, !.state = s] \in [refs : Nat, state : State]
           /\ [r EXCEPT !.refs = n, !.state = s].refs = n /\ [r EXCEPT !.refs = n, !.state = s].state = s
  OBVIOUS

-----------------------------------------------------------------------------
LEMMA JoinStep ==
    ASSUME FilesInv, NEW t \in Task, NEW k \in Key, Join(t, k)
    PROVE  FilesInv'
<1> DEFINE first == entries[k].refs = 0
           e == [entries[k] EXCEPT !.refs = @ + 1, !.state = IF first THEN "loading" ELSE @]
           v == [NoUse EXCEPT !.pc = IF first THEN "loading" ELSE "waiting", !.key = k]
<1>1. /\ use[t].pc = "out" /\ disk' = disk
      /\ entries' = [entries EXCEPT ![k] = e]
      /\ use' = [use EXCEPT ![t] = v]
  <2>1. entries[k] \in [refs : Nat, state : State]
    BY DEF FilesInv, FilesTypeOK, State
  <2> QED
    BY <2>1 DEF Join, FilesInv, FilesTypeOK
<1>2. /\ e \in [refs : Nat, state : State] /\ e.refs = entries[k].refs + 1
      /\ e.state = IF first THEN "loading" ELSE entries[k].state
  <2>1. entries[k] \in [refs : Nat, state : State]
    BY DEF FilesInv, FilesTypeOK, State
  <2>2. (IF first THEN "loading" ELSE entries[k].state) \in State
    BY <2>1 DEF State
  <2> HIDE DEF first
  <2>3. entries[k].refs + 1 \in Nat
    BY <2>1
  <2> QED
    BY <2>1, <2>2, <2>3, EntryExcept
<1>3. v \in Use /\ v.key = k /\ v.pc = IF first THEN "loading" ELSE "waiting"
  BY NoUseType DEF Use
<1> HIDE DEF e, v
<1>4. /\ entries' \in [Key -> [refs : Nat, state : State]] /\ use' \in [Task -> Use]
      /\ entries'[k] = e /\ \A j \in Key \ {k} : entries'[j] = entries[j]
      /\ use'[t] = v /\ \A u \in Task \ {t} : use'[u] = use[u]
  BY <1>1, <1>2, <1>3 DEF FilesInv, FilesTypeOK, State, Use
<1>5. FilesTypeOK'
  BY <1>1, <1>4 DEF FilesInv, FilesTypeOK, State, Use
<1>6. /\ t \notin Users(k) /\ Users(k)' = Users(k) \cup {t}
      /\ \A j \in Key \ {k} : Users(j)' = Users(j) /\ t \notin Users(j)
  BY <1>1, <1>3, <1>4 DEF Users
<1>7. first <=> Users(k) = {}
  BY UsersFinite DEF FilesInv, EntryTells
<1>8. EntryTells(k)'
  <2>1. entries'[k].refs = Cardinality(Users(k)')
    BY <1>2, <1>4, <1>6, UsersFinite DEF FilesInv, EntryTells
  <2>2. entries'[k].state # "none" /\ Users(k)' # {}
    BY <1>2, <1>4, <1>6, <1>7 DEF FilesInv, EntryTells
  <2>3. k \in disk' <=> entries'[k].state = "ready"
    BY <1>1, <1>2, <1>4, <1>7 DEF FilesInv, EntryTells
  <2>4. ASSUME NEW u \in Users(k)'
        PROVE  /\ use'[u].pc = "loading" => entries'[k].state = "loading"
               /\ use'[u].pc = "using" => entries'[k].state = "ready"
               /\ \A w \in Users(k)' : use'[u].pc = "loading" /\ use'[w].pc = "loading" => u = w
    <3>1. CASE first
      BY <2>4, <3>1, <1>2, <1>3, <1>4, <1>6, <1>7
    <3>2. CASE ~first
      <4>1. \A w \in Users(k)' : w = t \/ (w \in Users(k) /\ use'[w] = use[w])
        BY <1>4, <1>6 DEF Users
      <4> QED
        BY <2>4, <3>2, <4>1, <1>2, <1>3, <1>4 DEF FilesInv, EntryTells
    <3> QED
      BY <3>1, <3>2
  <2> QED
    BY <2>1, <2>2, <2>3, <2>4 DEF EntryTells
<1>9. ASSUME NEW j \in Key \ {k} PROVE EntryTells(j)'
  <2>1. \A u \in Users(j) : use'[u] = use[u]
    BY <1>4, <1>6 DEF Users
  <2> QED
    BY <2>1, <1>1, <1>4, <1>6 DEF FilesInv, EntryTells
<1> QED
  BY <1>5, <1>8, <1>9 DEF FilesInv

LEMMA DropStep ==
    ASSUME FilesInv, NEW t \in Task, NEW k \in Key, k = use[t].key, use[t].pc # "out", Drop(t)
    PROVE  FilesInv'
<1> DEFINE last == entries[k].refs = 1
           e == IF last THEN NoEntry ELSE [entries[k] EXCEPT !.refs = @ - 1]
<1>1. /\ entries' = [entries EXCEPT ![k] = e]
      /\ disk' = IF last THEN disk \ {k} ELSE disk
      /\ use' = [use EXCEPT ![t] = NoUse]
  BY DEF Drop
<1>2. k \in Key /\ t \in Users(k)
  BY DEF FilesInv, FilesTypeOK, Users
<1>3. entries[k].refs \in Nat \ {0} /\ (last <=> Users(k) = {t})
  <2>1. Users(k) = {t} => Cardinality(Users(k)) = 1
    BY FS_Singleton
  <2>2. Cardinality(Users(k)) = 1 => \E u : Users(k) = {u}
    BY UsersFinite, FS_Singleton
  <2>3. entries[k].refs = Cardinality(Users(k))
    BY <1>2 DEF FilesInv, EntryTells
  <2> QED
    BY <1>2, <2>1, <2>2, <2>3, UsersFinite
<1>4. /\ e \in [refs : Nat, state : State] /\ e.refs = entries[k].refs - 1
      /\ e.state = IF last THEN "none" ELSE entries[k].state
  <2>1. entries[k] \in [refs : Nat, state : State]
    BY <1>2 DEF FilesInv, FilesTypeOK, State
  <2>2. CASE last
    BY <2>2 DEF State, NoEntry
  <2>3. CASE ~last
    BY <2>1, <2>3, <1>3
  <2> QED
    BY <2>2, <2>3
<1> HIDE DEF e
<1>5. /\ entries' \in [Key -> [refs : Nat, state : State]] /\ use' \in [Task -> Use]
      /\ entries'[k] = e /\ \A j \in Key \ {k} : entries'[j] = entries[j]
      /\ use'[t] = NoUse /\ \A u \in Task \ {t} : use'[u] = use[u]
  BY <1>1, <1>2, <1>4, NoUseType DEF FilesInv, FilesTypeOK, State, Use
<1>6. FilesTypeOK'
  BY <1>1, <1>5 DEF FilesInv, FilesTypeOK, State, Use
<1>7. /\ Users(k)' = Users(k) \ {t}
      /\ \A j \in Key \ {k} : Users(j)' = Users(j) /\ t \notin Users(j)
  BY <1>2, <1>5, NoUseType DEF Users
<1>8. EntryTells(k)'
  <2>1. \A u \in Users(k)' : u \in Users(k) /\ use'[u] = use[u]
    BY <1>5, <1>7 DEF Users
  <2>2. entries'[k].refs = Cardinality(Users(k)')
    BY <1>2, <1>4, <1>5, <1>7, UsersFinite DEF FilesInv, EntryTells
  <2>3. CASE last
    <3>1. Users(k)' = {} /\ entries'[k].state = "none" /\ k \notin disk'
      BY <2>3, <1>1, <1>3, <1>4, <1>5, <1>7
    <3> QED
      BY <2>2, <3>1 DEF EntryTells
  <2>4. CASE ~last
    <3>1. Users(k)' # {} /\ Users(k) # {} /\ entries'[k].state = entries[k].state /\ disk' = disk
      BY <2>4, <1>1, <1>2, <1>3, <1>4, <1>5, <1>7
    <3> QED
      BY <2>1, <2>2, <3>1, <1>2 DEF FilesInv, EntryTells
  <2> QED
    BY <2>3, <2>4
<1>9. ASSUME NEW j \in Key \ {k} PROVE EntryTells(j)'
  <2>1. \A u \in Users(j) : use'[u] = use[u]
    BY <1>5, <1>7 DEF Users
  <2>2. j \in disk' <=> j \in disk
    BY <1>1
  <2> QED
    BY <2>1, <2>2, <1>5, <1>7 DEF FilesInv, EntryTells
<1> QED
  BY <1>6, <1>8, <1>9 DEF FilesInv

LEMMA DownloadStep ==
    ASSUME FilesInv, NEW t \in Task, NEW k \in Key, k = use[t].key, NEW ok \in BOOLEAN, Download(t, ok)
    PROVE  FilesInv'
<1> DEFINE s == IF ok THEN "ready" ELSE "failed"
<1>1. /\ use[t].pc = "loading"
      /\ disk' = IF ok THEN disk \cup {k} ELSE disk
      /\ entries' = [entries EXCEPT ![k] = [entries[k] EXCEPT !.state = s]]
      /\ use' = [use EXCEPT ![t] = [use[t] EXCEPT !.pc = "waiting"]]
  BY DEF Download
<1>2. k \in Key /\ t \in Users(k) /\ use[t] \in Use
  BY <1>1 DEF FilesInv, FilesTypeOK, Users, Use
<1>3. entries[k].state = "loading" /\ Users(k) # {}
  BY <1>1, <1>2 DEF FilesInv, EntryTells
<1>4. /\ entries' \in [Key -> [refs : Nat, state : State]] /\ use' \in [Task -> Use]
      /\ entries'[k].refs = entries[k].refs /\ entries'[k].state = s
      /\ \A j \in Key \ {k} : entries'[j] = entries[j]
      /\ use'[t].pc = "waiting" /\ use'[t].key = k /\ \A u \in Task \ {t} : use'[u] = use[u]
  BY <1>1, <1>2 DEF FilesInv, FilesTypeOK, State, Use
<1>5. FilesTypeOK'
  BY <1>1, <1>2, <1>4 DEF FilesInv, FilesTypeOK, State, Use
<1>6. \A j \in Key : Users(j)' = Users(j)
  BY <1>1, <1>4 DEF Users
<1>7. EntryTells(k)'
  <2>1. k \in disk' <=> s = "ready"
    BY <1>1, <1>2, <1>3 DEF FilesInv, EntryTells
  <2>2. \A u \in Users(k) : use'[u].pc \notin {"loading", "using"}
    <3>1. EntryTells(k)
      BY DEF FilesInv
    <3>2. \A u \in Users(k) \ {t} : use[u].pc \notin {"loading", "using"}
      BY <1>1, <1>2, <1>3, <3>1 DEF EntryTells
    <3>3. \A u \in Users(k) \ {t} : use'[u] = use[u]
      BY <1>4 DEF Users
    <3> QED
      BY <3>2, <3>3, <1>4
  <2> QED
    BY <2>1, <2>2, <1>2, <1>3, <1>4, <1>6 DEF FilesInv, EntryTells
<1>8. ASSUME NEW j \in Key \ {k} PROVE EntryTells(j)'
  <2>1. \A u \in Users(j) : use'[u] = use[u]
    BY <1>4 DEF Users
  <2>2. j \in disk' <=> j \in disk
    BY <1>1
  <2> QED
    BY <2>1, <2>2, <1>4, <1>6 DEF FilesInv, EntryTells
<1> QED
  BY <1>5, <1>7, <1>8 DEF FilesInv

LEMMA ObtainStep ==
    ASSUME FilesInv, NEW t \in Task, NEW k \in Key, k = use[t].key, Obtain(t)
    PROVE  FilesInv'
<1>1. /\ use[t].pc = "waiting" /\ entries[k].state = "ready"
      /\ use' = [use EXCEPT ![t] = [use[t] EXCEPT !.pc = "using"]]
      /\ UNCHANGED <<entries, disk>>
  BY DEF Obtain
<1>2. /\ use' \in [Task -> Use] /\ use'[t].pc = "using" /\ use'[t].key = k
      /\ \A u \in Task \ {t} : use'[u] = use[u]
  BY <1>1 DEF FilesInv, FilesTypeOK, Use
<1>3. FilesTypeOK'
  BY <1>1, <1>2 DEF FilesInv, FilesTypeOK, Use
<1>4. ASSUME NEW j \in Key PROVE EntryTells(j)'
  <2>1. Users(j)' = Users(j) /\ (t \in Users(j) => j = k)
    BY <1>1, <1>2 DEF Users
  <2>2. \A u \in Users(j) : u = t \/ use'[u] = use[u]
    BY <1>2 DEF Users
  <2> QED
    BY <2>1, <2>2, <1>1, <1>2 DEF FilesInv, EntryTells
<1> QED
  BY <1>3, <1>4 DEF FilesInv

LEMMA ExpireStep ==
    ASSUME FilesInv, NEW t \in Task, Expire(t)
    PROVE  FilesInv'
<1>1. /\ use' = [use EXCEPT ![t] = [use[t] EXCEPT !.live = FALSE]]
      /\ UNCHANGED <<entries, disk>>
  BY DEF Expire
<1>2. use' \in [Task -> Use] /\ \A u \in Task : use'[u].pc = use[u].pc /\ use'[u].key = use[u].key
  BY <1>1 DEF FilesInv, FilesTypeOK, Use
<1>3. FilesTypeOK'
  BY <1>1, <1>2 DEF FilesInv, FilesTypeOK, Use
<1>4. ASSUME NEW j \in Key PROVE EntryTells(j)'
  <2>1. Users(j)' = Users(j) /\ Users(j) \subseteq Task
    BY <1>2 DEF Users
  <2> QED
    BY <2>1, <1>1, <1>2 DEF FilesInv, EntryTells
<1> QED
  BY <1>3, <1>4 DEF FilesInv

-----------------------------------------------------------------------------
LEMMA FilesInvInit == FilesInit => FilesInv
<1> SUFFICES ASSUME FilesInit PROVE FilesInv
  OBVIOUS
<1>1. FilesTypeOK
  BY NoUseType DEF FilesInit, FilesTypeOK, NoEntry, Use
<1>2. \A k \in Key : Users(k) = {} /\ entries[k] = NoEntry /\ k \notin disk
  BY NoUseType DEF FilesInit, Users
<1> QED
  BY <1>1, <1>2, FS_EmptySet DEF FilesInv, EntryTells, NoEntry

LEMMA FilesInvStep == FilesInv /\ [FilesNext]_filesVars => FilesInv'
<1> SUFFICES ASSUME FilesInv, [FilesNext]_filesVars PROVE FilesInv'
  OBVIOUS
<1>k. \A t \in Task : use[t].key \in Key
  BY DEF FilesInv, FilesTypeOK
<1>1. CASE UNCHANGED filesVars
  <2>1. FilesTypeOK' /\ \A k \in Key : Users(k)' = Users(k)
    BY <1>1 DEF filesVars, FilesInv, FilesTypeOK, Users
  <2>2. \A k \in Key : EntryTells(k)'
    BY <1>1, <2>1 DEF filesVars, FilesInv, EntryTells
  <2> QED
    BY <2>1, <2>2 DEF FilesInv
<1>2. ASSUME NEW t \in Task, NEW k \in Key, Join(t, k) PROVE FilesInv'
  BY <1>2, JoinStep
<1>3. ASSUME NEW t \in Task, NEW ok \in BOOLEAN, Download(t, ok) PROVE FilesInv'
  BY <1>k, <1>3, DownloadStep
<1>4. ASSUME NEW t \in Task, Expire(t) \/ Obtain(t) PROVE FilesInv'
  BY <1>k, <1>4, ExpireStep, ObtainStep
<1>5. ASSUME NEW t \in Task, AcquireFails(t) \/ Release(t) PROVE FilesInv'
  <2>1. use[t].pc # "out" /\ Drop(t)
    BY <1>5 DEF AcquireFails, Release
  <2> QED
    BY <1>k, <2>1, DropStep
<1> QED
  BY <1>1, <1>2, <1>3, <1>4, <1>5 DEF FilesNext

LEMMA FilesInvSays == FilesInv => FilesTypeOK /\ HoldersHaveFile /\ NothingKept /\ OneWriter
<1> SUFFICES ASSUME FilesInv PROVE HoldersHaveFile /\ NothingKept /\ OneWriter
  BY DEF FilesInv
<1>1. \A t \in Task : use[t].pc # "out" => use[t].key \in Key /\ t \in Users(use[t].key)
  BY DEF FilesInv, FilesTypeOK, Users
<1>2. HoldersHaveFile
  BY <1>1 DEF HoldersHaveFile, FilesInv, EntryTells
<1>3. NothingKept
  BY DEF NothingKept, FilesInv, FilesTypeOK, EntryTells
<1>4. OneWriter
  BY <1>1 DEF OneWriter, FilesInv, EntryTells
<1> QED
  BY <1>2, <1>3, <1>4

(* Whoever shares a file with whom, and whatever fails, times out or       *)
(* leaves: holders have their file, nothing is kept, one writer per path.  *)
THEOREM SharedFilesSafe == FilesSpec => [](HoldersHaveFile /\ NothingKept /\ OneWriter)
<1>1. FilesSpec => []FilesInv
  BY FilesInvInit, FilesInvStep, PTL DEF FilesSpec
<1> QED
  BY <1>1, FilesInvSays, PTL

-----------------------------------------------------------------------------
(* The renderer and its tasks (Renderer, RenderWorker).                    *)

Busy == {"opening", "drawing", "emitting", "releasing"}
JobPc == Busy \cup {"out", "waiting", "replacing", "done"}
Job == [pc : JobPc, left : 0..MaxPages, inst : SUBSET Inst, kill : BOOLEAN]
InstState == {"none", "live", "dead", "stuck"}
Instance == [state : InstState, pages : Nat]

(* A busy task has one instance, which runs; one whose WebAssembly call    *)
(* timed out is given up next; the pages left keep it under the bound.     *)
JobFits(j) ==
    /\ IF j.pc \in Busy THEN \E i \in Inst : j.inst = {i} ELSE j.inst = {}
    /\ j.pc = "drawing" => j.left > 0
    /\ \A i \in j.inst : /\ inst[i].state # "none"
                         /\ inst[i].state = "stuck" => j.pc = "releasing" /\ j.kill
                         /\ inst[i].pages + j.left < Recycle + MaxPages

PoolInv ==
    /\ PoolTypeOK /\ SlotsConserved /\ OneCaller /\ RecycledInTime
    /\ \A t \in Task : JobFits(job[t])
    /\ \A i \in slots : inst[i].pages < Recycle

(* Its own steps, whatever the tasks do with the files meanwhile.          *)
PoolNext ==
    \/ \E t \in Task :
          \/ \E n \in 0..MaxPages : Call(t, n)
          \/ AcquireSlot(t) \/ SlotNotAcquired(t)
          \/ \E out \in Outcome : Open(t, out) \/ Draw(t, out)
          \/ \E ok \in BOOLEAN : Emit(t, ok)
          \/ \E rss \in BOOLEAN : ReturnSlot(t, rss)
          \/ Replace(t) \/ ReplaceFails(t) \/ Leave(t)
    \/ Respawn
    \/ \E i \in Inst : StuckEnds(i) \/ ChildDies(i)

LEMMA PoolFinite ==
    ASSUME slots \subseteq Inst
    PROVE  /\ IsFiniteSet(slots) /\ Cardinality(slots) \in Nat
           /\ IsFiniteSet(Holders) /\ Cardinality(Holders) \in Nat
<1>1. IsFiniteSet(Inst) /\ IsFiniteSet(Task) /\ Holders \in SUBSET Task
  BY RendererAssumption, TaskAssumption DEF Holders
<1>2. IsFiniteSet(slots) /\ IsFiniteSet(Holders)
  BY <1>1, FS_Subset
<1> QED
  BY <1>2, FS_CardinalityType

LEMMA JobTyped == PoolTypeOK => job \in [Task -> Job] /\ inst \in [Inst -> Instance] /\ NoJob \in Job /\ Done \in Job
<1>1. 0 \in 0..MaxPages
  BY RendererAssumption
<1> QED
  BY <1>1 DEF PoolTypeOK, Job, JobPc, Busy, Instance, InstState, NoJob, Done

-----------------------------------------------------------------------------
(* The steps of a call: the task keeps its instance and its slot.          *)
LEMMA CallGoesOn ==
    ASSUME PoolInv, NEW t \in Task, NEW i \in Inst, NEW j \in Job, NEW e \in Instance,
           job[t].pc \in Busy, job[t].inst = {i}, j.pc \in Busy, j.inst = {i},
           job' = [job EXCEPT ![t] = j], inst' = [inst EXCEPT ![i] = e],
           UNCHANGED <<native, slots, respawns, crashes>>,
           j.pc = "drawing" => j.left > 0,
           e.state # "none", e.state = "stuck" => j.pc = "releasing" /\ j.kill,
           e.pages + j.left < Recycle + MaxPages
    PROVE  PoolInv'
<1>t. job \in [Task -> Job] /\ inst \in [Inst -> Instance]
  BY JobTyped DEF PoolInv
<1>1. /\ job' \in [Task -> Job] /\ inst' \in [Inst -> Instance]
      /\ job'[t] = j /\ \A u \in Task \ {t} : job'[u] = job[u]
      /\ inst'[i] = e /\ \A k \in Inst \ {i} : inst'[k] = inst[k]
  BY <1>t
<1>2. i \notin slots /\ \A u \in Task \ {t} : i \notin job[u].inst
  BY DEF PoolInv, OneCaller
<1>3. PoolTypeOK'
  BY <1>1 DEF PoolInv, PoolTypeOK, Job, JobPc, Busy, Instance, InstState
<1>4. Holders' = Holders
  BY <1>1 DEF Holders, Busy
<1>5. SlotsConserved'
  BY <1>4 DEF PoolInv, SlotsConserved
<1>6. OneCaller'
  <2>1. \A u \in Task : job'[u].inst = job[u].inst
    BY <1>1
  <2>2. \A k \in slots : inst'[k] = inst[k]
    BY <1>1, <1>2 DEF PoolInv, PoolTypeOK
  <2> QED
    BY <2>1, <2>2 DEF PoolInv, OneCaller
<1>7. e.pages < Recycle + MaxPages
  BY RendererAssumption DEF Job, Instance
<1>8. RecycledInTime'
  BY <1>1, <1>7 DEF PoolInv, RecycledInTime
<1>9. ASSUME NEW u \in Task PROVE JobFits(job[u])'
  <2>1. CASE u = t
    BY <2>1, <1>1 DEF JobFits
  <2>2. CASE u # t
    <3>1. \A k \in job[u].inst : k \in Inst \ {i}
      BY <2>2, <1>2, <1>t DEF Job
    <3> QED
      BY <2>2, <3>1, <1>1 DEF PoolInv, JobFits
  <2> QED
    BY <2>1, <2>2
<1>10. \A k \in slots' : inst'[k].pages < Recycle
  BY <1>1, <1>2 DEF PoolInv, PoolTypeOK
<1> QED
  BY <1>3, <1>5, <1>6, <1>8, <1>9, <1>10 DEF PoolInv

(* Steps of a task that has no slot and takes none.                        *)
LEMMA NoSlotStep ==
    ASSUME PoolInv, NEW t \in Task, NEW j \in Job, job[t].pc \notin Busy \cup {"replacing"},
           j.pc \notin Busy \cup {"replacing"}, j.inst = {}, job' = [job EXCEPT ![t] = j],
           UNCHANGED <<native, slots, inst, respawns, crashes>>
    PROVE  PoolInv'
<1>t. job \in [Task -> Job] /\ inst \in [Inst -> Instance] /\ job[t].inst = {}
  BY JobTyped DEF PoolInv, JobFits
<1>1. job' \in [Task -> Job] /\ job'[t] = j /\ \A u \in Task \ {t} : job'[u] = job[u]
  BY <1>t
<1>2. PoolTypeOK'
  BY <1>1 DEF PoolInv, PoolTypeOK, Job, JobPc, Busy
<1>3. Holders' = Holders
  BY <1>1 DEF Holders, Busy
<1>4. \A u \in Task : job'[u].inst = job[u].inst
  BY <1>t, <1>1
<1>5. SlotsConserved' /\ OneCaller' /\ RecycledInTime'
  BY <1>3, <1>4 DEF PoolInv, SlotsConserved, OneCaller, RecycledInTime
<1>6. JobFits(j)'
  BY DEF JobFits, Busy
<1>7. \A u \in Task : JobFits(job[u])'
  BY <1>1, <1>6 DEF PoolInv, JobFits
<1> QED
  BY <1>2, <1>5, <1>7 DEF PoolInv

-----------------------------------------------------------------------------
LEMMA OpenStep ==
    ASSUME PoolInv, NEW t \in Task, NEW out \in Outcome, Open(t, out)
    PROVE  PoolInv'
<1>t. job[t] \in Job /\ inst \in [Inst -> Instance] /\ job[t].pc = "opening"
  BY JobTyped DEF PoolInv, Open
<1>1. PICK i \in Inst : job[t].inst = {i}
  BY <1>t DEF PoolInv, JobFits, Busy
<1> DEFINE e == IF out = "timeout" THEN Timed(inst[i].pages) ELSE inst[i]
           j == [job[t] EXCEPT !.pc = IF out = "ok" /\ job[t].left > 0 THEN "drawing" ELSE "releasing",
                               !.kill = (out = "timeout")]
<1>3. job' = [job EXCEPT ![t] = j] /\ UNCHANGED <<native, slots, respawns, crashes>>
  BY JobTyped DEF Open, PoolInv
<1>4. inst' = [inst EXCEPT ![i] = e]
  <2>1. inst' = IF out = "timeout" THEN [inst EXCEPT ![i] = Timed(inst[i].pages)] ELSE inst
    BY <1>1 DEF Open
  <2> QED
    BY <1>t, <2>1
<1>5. /\ j \in Job /\ j.inst = {i} /\ j.left = job[t].left /\ j.kill = (out = "timeout")
      /\ j.pc = IF out = "ok" /\ job[t].left > 0 THEN "drawing" ELSE "releasing"
  BY <1>t, <1>1 DEF Job, JobPc, Busy
<1>6. /\ inst[i].state \notin {"none", "stuck"} /\ inst[i] \in Instance
      /\ inst[i].pages + job[t].left < Recycle + MaxPages
  BY <1>t, <1>1 DEF PoolInv, JobFits
<1>7. /\ e \in Instance /\ e.state # "none" /\ (e.state = "stuck" => out = "timeout")
      /\ e.pages = inst[i].pages
  BY <1>6 DEF Timed, Instance, InstState
<1> HIDE DEF e, j
<1> QED
  BY <1>t, <1>1, <1>3, <1>4, <1>5, <1>6, <1>7, CallGoesOn DEF Busy, Outcome

LEMMA DrawStep ==
    ASSUME PoolInv, NEW t \in Task, NEW out \in Outcome, Draw(t, out)
    PROVE  PoolInv'
<1>t. job[t] \in Job /\ inst \in [Inst -> Instance] /\ job[t].pc = "drawing"
  BY JobTyped DEF PoolInv, Draw
<1>1. PICK i \in Inst : job[t].inst = {i}
  BY <1>t DEF PoolInv, JobFits, Busy
<1> DEFINE e == IF out = "timeout" THEN Timed(inst[i].pages + 1) ELSE [inst[i] EXCEPT !.pages = @ + 1]
           j == [job[t] EXCEPT !.pc = IF out = "ok" THEN "emitting" ELSE "releasing",
                               !.left = job[t].left - 1, !.kill = (out = "timeout")]
<1>3. job' = [job EXCEPT ![t] = j] /\ UNCHANGED <<native, slots, respawns, crashes>>
  BY JobTyped DEF Draw, PoolInv
<1>4. inst' = [inst EXCEPT ![i] = e]
  BY <1>1 DEF Draw
<1>5. job[t].left \in 1..MaxPages
  BY <1>t, RendererAssumption DEF PoolInv, JobFits, Job
<1>6. /\ j \in Job /\ j.inst = {i} /\ j.left = job[t].left - 1 /\ j.kill = (out = "timeout")
      /\ j.pc = IF out = "ok" THEN "emitting" ELSE "releasing"
  <2>1. job[t].left - 1 \in 0..MaxPages
    BY <1>5, RendererAssumption
  <2> QED
    BY <1>t, <1>1, <2>1 DEF Job, JobPc, Busy
<1>7. /\ inst[i].state \notin {"none", "stuck"} /\ inst[i] \in Instance
      /\ inst[i].pages + job[t].left < Recycle + MaxPages
  BY <1>t, <1>1 DEF PoolInv, JobFits
<1>8. /\ e \in Instance /\ e.state # "none" /\ (e.state = "stuck" => out = "timeout")
      /\ e.pages = inst[i].pages + 1
  BY <1>7 DEF Timed, Instance, InstState
<1>9. e.pages + j.left < Recycle + MaxPages
  BY <1>5, <1>6, <1>7, <1>8, RendererAssumption DEF Instance
<1> HIDE DEF e, j
<1> QED
  BY <1>t, <1>1, <1>3, <1>4, <1>6, <1>8, <1>9, CallGoesOn DEF Busy, Outcome

LEMMA EmitStep ==
    ASSUME PoolInv, NEW t \in Task, NEW ok \in BOOLEAN, Emit(t, ok)
    PROVE  PoolInv'
<1>t. job[t] \in Job /\ inst \in [Inst -> Instance] /\ job[t].pc = "emitting"
  BY JobTyped DEF PoolInv, Emit
<1>1. PICK i \in Inst : job[t].inst = {i}
  BY <1>t DEF PoolInv, JobFits, Busy
<1> DEFINE j == [job[t] EXCEPT !.pc = IF ok /\ job[t].left > 0 THEN "drawing" ELSE "releasing"]
<1>2. job' = [job EXCEPT ![t] = j] /\ UNCHANGED <<native, slots, inst, respawns, crashes>>
  BY JobTyped DEF Emit, PoolInv
<1>3. inst' = [inst EXCEPT ![i] = inst[i]]
  BY <1>t, <1>2
<1>4. /\ j \in Job /\ j.inst = {i} /\ j.left = job[t].left
      /\ j.pc = IF ok /\ job[t].left > 0 THEN "drawing" ELSE "releasing"
  BY <1>t, <1>1 DEF Job, JobPc, Busy
<1>5. /\ inst[i].state \notin {"none", "stuck"} /\ inst[i] \in Instance
      /\ inst[i].pages + job[t].left < Recycle + MaxPages
  BY <1>t, <1>1 DEF PoolInv, JobFits
<1> HIDE DEF j
<1> QED
  BY <1>t, <1>1, <1>2, <1>3, <1>4, <1>5, CallGoesOn DEF Busy

LEMMA OutsideStep ==
    ASSUME PoolInv, NEW t \in Task, NEW n \in 0..MaxPages,
           Call(t, n) \/ SlotNotAcquired(t) \/ Leave(t)
    PROVE  PoolInv'
<1>1. CASE Call(t, n)
  <2> DEFINE j == [NoJob EXCEPT !.pc = "waiting", !.left = n]
  <2>1. j \in Job /\ j.pc = "waiting" /\ j.inst = {}
    BY JobTyped DEF PoolInv, NoJob, Job, JobPc
  <2> HIDE DEF j
  <2>2. job' = [job EXCEPT ![t] = j] /\ job[t].pc = "out" /\ UNCHANGED <<native, slots, inst, respawns, crashes>>
    BY <1>1 DEF Call, j
  <2> QED
    BY <2>1, <2>2, NoSlotStep DEF Busy
<1>2. CASE SlotNotAcquired(t)
  BY <1>2, NoSlotStep, JobTyped DEF SlotNotAcquired, PoolInv, Done, NoJob, Busy
<1>3. CASE Leave(t)
  BY <1>3, NoSlotStep, JobTyped DEF Leave, PoolInv, NoJob, Busy
<1> QED
  BY <1>1, <1>2, <1>3

-----------------------------------------------------------------------------
(* Where a slot goes.                                                      *)
LEMMA HoldersChange ==
    ASSUME PoolInv, NEW t \in Task, NEW j, job' = [job EXCEPT ![t] = j]
    PROVE  /\ j.pc \in Busy \cup {"replacing"} => Holders' = Holders \cup {t}
           /\ j.pc \notin Busy \cup {"replacing"} => Holders' = Holders \ {t}
           /\ Cardinality(Holders \cup {t}) = IF t \in Holders THEN Cardinality(Holders) ELSE Cardinality(Holders) + 1
           /\ Cardinality(Holders \ {t}) = IF t \in Holders THEN Cardinality(Holders) - 1 ELSE Cardinality(Holders)
           /\ t \in Holders <=> job[t].pc \in Busy \cup {"replacing"}
<1>1. job'[t] = j /\ \A u \in Task \ {t} : job'[u] = job[u]
  BY JobTyped DEF PoolInv
<1>2. IsFiniteSet(Holders)
  BY PoolFinite DEF PoolInv, PoolTypeOK
<1> QED
  BY <1>1, <1>2, FS_AddElement, FS_RemoveElement DEF Holders, Busy

LEMMA AcquireStep ==
    ASSUME PoolInv, NEW t \in Task, AcquireSlot(t)
    PROVE  PoolInv'
<1>t. /\ job \in [Task -> Job] /\ inst \in [Inst -> Instance] /\ job[t] \in Job
      /\ job[t].pc = "waiting" /\ job[t].inst = {} /\ slots \subseteq Inst
  BY JobTyped DEF PoolInv, PoolTypeOK, JobFits, AcquireSlot, Busy
<1>1. PICK i \in slots : /\ slots' = slots \ {i}
                         /\ job' = [job EXCEPT ![t].pc = "opening", ![t].inst = {i}]
  BY DEF AcquireSlot
<1> DEFINE j == [job[t] EXCEPT !.pc = "opening", !.inst = {i}]
<1>2. job' = [job EXCEPT ![t] = j] /\ UNCHANGED <<native, inst, respawns, crashes>>
  BY <1>t, <1>1 DEF AcquireSlot
<1>3. j \in Job /\ j.pc = "opening" /\ j.inst = {i} /\ j.left = job[t].left
  BY <1>t, <1>1 DEF Job, JobPc, Busy
<1> HIDE DEF j
<1>4. job' \in [Task -> Job] /\ job'[t] = j /\ \A u \in Task \ {t} : job'[u] = job[u]
  BY <1>t, <1>2, <1>3
<1>5. PoolTypeOK'
  BY <1>1, <1>2, <1>4 DEF PoolInv, PoolTypeOK, Job, JobPc, Busy
<1>6. SlotsConserved'
  <2>1. Cardinality(slots') = Cardinality(slots) - 1
    BY <1>t, <1>1, PoolFinite, FS_RemoveElement
  <2>2. Cardinality(Holders') = Cardinality(Holders) + 1
    BY <1>t, <1>2, <1>3, HoldersChange DEF Busy
  <2>3. respawns \in Nat
    BY RendererAssumption DEF PoolInv, PoolTypeOK
  <2> QED
    BY <1>t, <1>2, <2>1, <2>2, <2>3, PoolFinite DEF PoolInv, SlotsConserved
<1>7. OneCaller'
  <2>1. \A u \in Task \ {t} : job'[u].inst = job[u].inst /\ i \notin job[u].inst
    BY <1>1, <1>4 DEF PoolInv, OneCaller
  <2>2. \A u, v \in Task : u # v => job'[u].inst \cap job'[v].inst = {}
    BY <1>3, <1>4, <2>1 DEF PoolInv, OneCaller
  <2>3. \A u \in Task : job'[u].inst \cap slots' = {}
    BY <1>1, <1>3, <1>4, <2>1 DEF PoolInv, OneCaller
  <2> QED
    BY <1>1, <1>2, <2>2, <2>3 DEF PoolInv, OneCaller
<1>8. JobFits(job[t])'
  <2>1. inst[i].state \in {"live", "dead"} /\ inst[i].pages < Recycle
    BY <1>1 DEF PoolInv, OneCaller
  <2>2. inst[i].pages + j.left < Recycle + MaxPages
    BY <1>t, <1>1, <1>3, <2>1, RendererAssumption DEF Job, Instance
  <2> QED
    BY <1>t, <1>1, <1>2, <1>3, <1>4, <2>1, <2>2 DEF JobFits, Busy
<1>9. \A u \in Task : JobFits(job[u])'
  BY <1>2, <1>4, <1>8 DEF PoolInv, JobFits
<1>10. RecycledInTime' /\ \A k \in slots' : inst'[k].pages < Recycle
  BY <1>1, <1>2 DEF PoolInv, RecycledInTime
<1> QED
  BY <1>5, <1>6, <1>7, <1>9, <1>10 DEF PoolInv

(* The instance goes back to the channel.                                  *)
LEMMA GivenBackStep ==
    ASSUME PoolInv, NEW t \in Task, NEW i \in Inst, NEW rss \in BOOLEAN,
           job[t].pc = "releasing", job[t].inst = {i}, ~Due(t, i, rss),
           slots' = slots \cup {i}, job' = [job EXCEPT ![t] = Done],
           UNCHANGED <<native, inst, respawns, crashes>>
    PROVE  PoolInv'
<1>t. job \in [Task -> Job] /\ inst \in [Inst -> Instance] /\ Done \in Job /\ slots \subseteq Inst
  BY JobTyped DEF PoolInv, PoolTypeOK
<1>1. job' \in [Task -> Job] /\ job'[t] = Done /\ \A u \in Task \ {t} : job'[u] = job[u]
  BY <1>t
<1>2. Done.pc = "done" /\ Done.inst = {}
  BY DEF Done, NoJob
<1>3. i \notin slots /\ \A u \in Task \ {t} : i \notin job[u].inst
  BY DEF PoolInv, OneCaller
<1>4. inst[i].state \in {"live", "dead"} /\ inst[i].pages < Recycle
  <2>1. ~job[t].kill /\ ~(inst[i].pages >= Recycle)
    BY DEF Due
  <2>2. inst[i] \in Instance /\ inst[i].state \notin {"none", "stuck"}
    BY <1>t, <2>1 DEF PoolInv, JobFits
  <2> QED
    BY <2>1, <2>2, RendererAssumption DEF Instance, InstState
<1>5. PoolTypeOK'
  BY <1>1, <1>t DEF PoolInv, PoolTypeOK, Job, JobPc, Busy
<1>6. SlotsConserved'
  <2>1. Cardinality(slots') = Cardinality(slots) + 1
    BY <1>t, <1>3, PoolFinite, FS_AddElement
  <2>2. Cardinality(Holders') = Cardinality(Holders) - 1
    BY <1>2, HoldersChange DEF Busy
  <2>3. respawns \in Nat
    BY RendererAssumption DEF PoolInv, PoolTypeOK
  <2> QED
    BY <1>t, <2>1, <2>2, <2>3, PoolFinite DEF PoolInv, SlotsConserved
<1>7. OneCaller'
  <2>1. \A u, v \in Task : u # v => job'[u].inst \cap job'[v].inst = {}
    BY <1>1, <1>2 DEF PoolInv, OneCaller
  <2>2. \A u \in Task : job'[u].inst \cap slots' = {}
    BY <1>1, <1>2, <1>3 DEF PoolInv, OneCaller
  <2> QED
    BY <1>4, <2>1, <2>2 DEF PoolInv, OneCaller
<1>8. \A u \in Task : JobFits(job[u])'
  BY <1>1, <1>2 DEF PoolInv, JobFits, Busy
<1>9. RecycledInTime' /\ \A k \in slots' : inst'[k].pages < Recycle
  BY <1>4 DEF PoolInv, RecycledInTime
<1> QED
  BY <1>5, <1>6, <1>7, <1>8, <1>9 DEF PoolInv

(* It is given up, and the slot waits for a replacement.                   *)
LEMMA GivenUpStep ==
    ASSUME PoolInv, NEW t \in Task, NEW i \in Inst,
           job[t].pc = "releasing", job[t].inst = {i},
           inst' = [inst EXCEPT ![i] = IF inst[i].state = "stuck" THEN inst[i] ELSE Gone],
           job' = [job EXCEPT ![t].pc = "replacing", ![t].inst = {}],
           UNCHANGED <<native, slots, respawns, crashes>>
    PROVE  PoolInv'
<1>t. job \in [Task -> Job] /\ inst \in [Inst -> Instance] /\ job[t] \in Job
  BY JobTyped DEF PoolInv
<1>g. Gone \in Instance /\ Gone.pages = 0
  BY DEF Gone, Instance, InstState
<1> DEFINE j == [job[t] EXCEPT !.pc = "replacing", !.inst = {}]
<1>1. job' = [job EXCEPT ![t] = j] /\ j \in Job /\ j.pc = "replacing" /\ j.inst = {}
  BY <1>t DEF Job, JobPc
<1> HIDE DEF j
<1>2. job' \in [Task -> Job] /\ job'[t] = j /\ \A u \in Task \ {t} : job'[u] = job[u]
  BY <1>t, <1>1
<1>3. /\ inst' \in [Inst -> Instance] /\ inst'[i].pages \in {0, inst[i].pages}
      /\ \A k \in Inst \ {i} : inst'[k] = inst[k]
  BY <1>t, <1>g
<1>4. i \notin slots /\ \A u \in Task \ {t} : i \notin job[u].inst
  BY DEF PoolInv, OneCaller
<1>5. PoolTypeOK'
  BY <1>2, <1>3 DEF PoolInv, PoolTypeOK, Job, JobPc, Busy, Instance, InstState
<1>6. Holders' = Holders
  BY <1>1, <1>2 DEF Holders
<1>7. SlotsConserved'
  BY <1>6 DEF PoolInv, SlotsConserved
<1>8. OneCaller'
  <2>1. \A k \in slots : inst'[k] = inst[k]
    BY <1>3, <1>4 DEF PoolInv, PoolTypeOK
  <2>2. \A u \in Task : job'[u].inst = job[u].inst \/ job'[u].inst = {}
    BY <1>1, <1>2
  <2> QED
    BY <2>1, <2>2 DEF PoolInv, OneCaller
<1>9. RecycledInTime'
  BY <1>3, RendererAssumption DEF PoolInv, RecycledInTime
<1>10. ASSUME NEW u \in Task PROVE JobFits(job[u])'
  <2>1. CASE u = t
    BY <2>1, <1>1, <1>2 DEF JobFits, Busy
  <2>2. CASE u # t
    <3>1. \A k \in job[u].inst : k \in Inst \ {i}
      BY <2>2, <1>4, <1>t DEF Job
    <3> QED
      BY <2>2, <3>1, <1>2, <1>3 DEF PoolInv, JobFits
  <2> QED
    BY <2>1, <2>2
<1>11. \A k \in slots' : inst'[k].pages < Recycle
  BY <1>3, <1>4 DEF PoolInv, PoolTypeOK
<1> QED
  BY <1>5, <1>7, <1>8, <1>9, <1>10, <1>11 DEF PoolInv

LEMMA ReturnSlotStep ==
    ASSUME PoolInv, NEW t \in Task, NEW rss \in BOOLEAN, ReturnSlot(t, rss)
    PROVE  PoolInv'
<1>1. PICK i \in Inst : job[t].inst = {i}
  BY DEF PoolInv, JobFits, ReturnSlot, Busy
<1>2. CASE Due(t, i, rss)
  BY <1>1, <1>2, GivenUpStep DEF ReturnSlot
<1>3. CASE ~Due(t, i, rss)
  BY <1>1, <1>3, GivenBackStep DEF ReturnSlot
<1> QED
  BY <1>2, <1>3

(* A new instance is in nobody's hands.                                    *)
LEMMA StartStep ==
    ASSUME PoolInv, NEW i \in Inst, Start(i)
    PROVE  /\ inst' \in [Inst -> Instance] /\ slots' \subseteq Inst
           /\ Cardinality(slots') = Cardinality(slots) + 1
           /\ \A u \in Task : i \notin job[u].inst
           /\ \A u \in Task : JobFits(job[u])' \/ job'[u] # job[u]
           /\ \A k \in slots' : inst'[k].state \in {"live", "dead"} /\ inst'[k].pages < Recycle
           /\ RecycledInTime'
<1>t. job \in [Task -> Job] /\ inst \in [Inst -> Instance] /\ slots \subseteq Inst
  BY JobTyped DEF PoolInv, PoolTypeOK
<1> DEFINE new == [state |-> "live", pages |-> 0]
<1>1. inst' = [inst EXCEPT ![i] = new] /\ slots' = slots \cup {i} /\ inst[i].state = "none"
  BY DEF Start, Free
<1>2. new \in Instance /\ new.pages = 0 /\ new.state = "live"
  BY DEF Instance, InstState
<1> HIDE DEF new
<1>3. inst' \in [Inst -> Instance] /\ inst'[i] = new /\ \A k \in Inst \ {i} : inst'[k] = inst[k]
  BY <1>t, <1>1, <1>2
<1>4. i \notin slots /\ \A u \in Task : i \notin job[u].inst
  BY <1>1 DEF PoolInv, OneCaller, JobFits
<1>5. Cardinality(slots') = Cardinality(slots) + 1
  BY <1>t, <1>1, <1>4, PoolFinite, FS_AddElement
<1>6. ASSUME NEW u \in Task, job'[u] = job[u] PROVE JobFits(job[u])'
  <2>1. \A k \in job[u].inst : k \in Inst \ {i}
    BY <1>4, <1>t DEF Job
  <2> QED
    BY <1>3, <1>6, <2>1 DEF PoolInv, JobFits
<1>7. \A k \in slots' : inst'[k].state \in {"live", "dead"} /\ inst'[k].pages < Recycle
  <2>1. \A k \in slots : inst'[k] = inst[k]
    BY <1>t, <1>3, <1>4
  <2> QED
    BY <1>1, <1>2, <1>3, <2>1, RendererAssumption DEF PoolInv, OneCaller
<1>8. RecycledInTime'
  BY <1>2, <1>3, RendererAssumption DEF PoolInv, RecycledInTime
<1> QED
  BY <1>t, <1>1, <1>3, <1>4, <1>5, <1>6, <1>7, <1>8

(* The task that gave its instance up leaves, with the slot refilled or    *)
(* left to a goroutine.                                                    *)
LEMMA ReplaceStep ==
    ASSUME PoolInv, NEW t \in Task, Replace(t) \/ ReplaceFails(t)
    PROVE  PoolInv'
<1>t. /\ job \in [Task -> Job] /\ inst \in [Inst -> Instance] /\ Done \in Job /\ Done.pc = "done" /\ Done.inst = {}
      /\ job[t].pc = "replacing" /\ job[t].inst = {} /\ slots \subseteq Inst /\ respawns \in Nat
  BY JobTyped, RendererAssumption DEF PoolInv, PoolTypeOK, JobFits, Replace, ReplaceFails, Busy, Done, NoJob
<1>1. job' = [job EXCEPT ![t] = Done] /\ native' = native /\ crashes' = crashes
  BY DEF Replace, ReplaceFails
<1>2. job' \in [Task -> Job] /\ job'[t] = Done /\ \A u \in Task \ {t} : job'[u] = job[u]
  BY <1>t, <1>1
<1>3. Cardinality(Holders') = Cardinality(Holders) - 1 /\ Cardinality(Holders') \in Nat
  <2>1. Cardinality(Holders') = Cardinality(Holders) - 1
    BY <1>t, <1>1, HoldersChange DEF Busy
  <2>2. IsFiniteSet(Holders \ {t}) /\ Holders' = Holders \ {t}
    BY <1>t, <1>1, HoldersChange, PoolFinite, FS_RemoveElement DEF Busy
  <2> QED
    BY <2>1, <2>2, FS_CardinalityType
<1>4. \A u \in Task : job'[u].inst = job[u].inst
  BY <1>t, <1>2
<1>5. JobFits(job[t])'
  BY <1>t, <1>2 DEF JobFits, Busy
<1>6. CASE Replace(t)
  <2>1. PICK i \in Inst : Start(i)
    BY <1>6 DEF Replace
  <2>2. /\ inst' \in [Inst -> Instance] /\ slots' \subseteq Inst
        /\ Cardinality(slots') = Cardinality(slots) + 1 /\ slots' = slots \cup {i} /\ respawns' = respawns
        /\ \A k \in slots' : inst'[k].state \in {"live", "dead"} /\ inst'[k].pages < Recycle
        /\ RecycledInTime' /\ \A u \in Task : i \notin job[u].inst
    BY <2>1, <1>6, StartStep DEF Replace, Start
  <2>3. PoolTypeOK'
    BY <1>1, <1>2, <2>2 DEF PoolInv, PoolTypeOK, Job, JobPc, Busy, Instance, InstState
  <2>4. SlotsConserved'
    BY <1>t, <1>3, <2>2, PoolFinite DEF PoolInv, SlotsConserved
  <2>5. OneCaller'
    BY <1>4, <2>2 DEF PoolInv, OneCaller
  <2>6. \A u \in Task \ {t} : JobFits(job[u])'
    BY <1>2, <2>1, StartStep
  <2> QED
    BY <1>5, <2>2, <2>3, <2>4, <2>5, <2>6 DEF PoolInv
<1>7. CASE ReplaceFails(t)
  <2>1. UNCHANGED <<inst, slots>> /\ respawns' = respawns + 1
    BY <1>7 DEF ReplaceFails
  <2>2. SlotsConserved'
    BY <1>t, <1>3, <2>1, PoolFinite DEF PoolInv, SlotsConserved
  <2>3. respawns' \in 0..Workers
    BY <1>t, <1>3, <2>1, <2>2, PoolFinite, RendererAssumption DEF SlotsConserved
  <2>4. PoolTypeOK'
    BY <1>1, <1>2, <2>1, <2>3 DEF PoolInv, PoolTypeOK, Job, JobPc, Busy
  <2>5. OneCaller' /\ RecycledInTime'
    BY <1>4, <2>1 DEF PoolInv, OneCaller, RecycledInTime
  <2>6. \A u \in Task \ {t} : JobFits(job[u])'
    BY <1>2, <2>1 DEF PoolInv, JobFits
  <2> QED
    BY <1>5, <2>1, <2>2, <2>4, <2>5, <2>6 DEF PoolInv
<1> QED
  BY <1>6, <1>7

LEMMA RespawnStep ==
    ASSUME PoolInv, Respawn
    PROVE  PoolInv'
<1>1. PICK i \in Inst : Start(i)
  BY DEF Respawn
<1>2. /\ respawns \in Nat /\ respawns > 0 /\ respawns' = respawns - 1 /\ UNCHANGED <<native, job, crashes>>
      /\ slots \subseteq Inst /\ respawns \in 0..Workers
  BY RendererAssumption DEF Respawn, PoolInv, PoolTypeOK
<1>3. /\ inst' \in [Inst -> Instance] /\ slots' \subseteq Inst
      /\ Cardinality(slots') = Cardinality(slots) + 1 /\ slots' = slots \cup {i}
      /\ \A k \in slots' : inst'[k].state \in {"live", "dead"} /\ inst'[k].pages < Recycle
      /\ RecycledInTime' /\ \A u \in Task : i \notin job[u].inst
  BY <1>1, StartStep DEF Start
<1>4. PoolTypeOK'
  <2>1. respawns' \in 0..Workers
    BY <1>2, RendererAssumption
  <2> QED
    BY <1>2, <1>3, <2>1 DEF PoolInv, PoolTypeOK, Instance, InstState
<1>5. SlotsConserved'
  <2>1. Holders' = Holders
    BY <1>2 DEF Holders
  <2> QED
    BY <1>2, <1>3, <2>1, PoolFinite DEF PoolInv, SlotsConserved
<1>6. OneCaller'
  BY <1>2, <1>3 DEF PoolInv, OneCaller
<1>7. \A u \in Task : JobFits(job[u])'
  BY <1>1, <1>2, StartStep
<1> QED
  BY <1>3, <1>4, <1>5, <1>6, <1>7 DEF PoolInv

(* An instance dies, or the call that kept it ends.                        *)
LEMMA InstanceStep ==
    ASSUME PoolInv, NEW i \in Inst, StuckEnds(i) \/ ChildDies(i)
    PROVE  PoolInv'
<1>t. inst \in [Inst -> Instance] /\ slots \subseteq Inst
  BY JobTyped DEF PoolInv, PoolTypeOK
<1> DEFINE e == IF StuckEnds(i) THEN Gone ELSE [inst[i] EXCEPT !.state = "dead"]
<1>1. inst' = [inst EXCEPT ![i] = e] /\ UNCHANGED <<native, slots, job, respawns>> /\ crashes' \in 0..MaxCrash
  <2>1. CASE StuckEnds(i)
    BY <2>1 DEF StuckEnds, PoolInv, PoolTypeOK
  <2>2. CASE ~StuckEnds(i)
    BY <1>t, <2>2, RendererAssumption DEF ChildDies, PoolInv, PoolTypeOK
  <2> QED
    BY <2>1, <2>2
<1>2. /\ e \in Instance /\ e.pages <= inst[i].pages
      /\ StuckEnds(i) => i \notin slots /\ \A u \in Task : i \notin job[u].inst
      /\ ~StuckEnds(i) => e.state = "dead"
  BY <1>t DEF Gone, Instance, InstState, StuckEnds, PoolInv, OneCaller
<1> HIDE DEF e
<1>3. inst' \in [Inst -> Instance] /\ inst'[i] = e /\ \A k \in Inst \ {i} : inst'[k] = inst[k]
  BY <1>t, <1>1, <1>2
<1>4. PoolTypeOK'
  BY <1>1, <1>3 DEF PoolInv, PoolTypeOK, Instance, InstState
<1>5. SlotsConserved'
  BY <1>1 DEF PoolInv, SlotsConserved, Holders
<1>6. OneCaller'
  BY <1>1, <1>2, <1>3, <1>t DEF PoolInv, OneCaller
<1>7. \A k \in Inst : inst'[k].pages <= inst[k].pages /\ inst'[k].pages \in Nat /\ inst[k].pages \in Nat
  BY <1>t, <1>2, <1>3 DEF Instance
<1>8. RecycledInTime' /\ \A k \in slots' : inst'[k].pages < Recycle
  BY <1>1, <1>7, <1>t, RendererAssumption DEF PoolInv, RecycledInTime
<1>9. ASSUME NEW u \in Task PROVE JobFits(job[u])'
  <2>1. job[u] \in Job
    BY JobTyped DEF PoolInv
  <2>2. ASSUME NEW k \in job[u].inst
        PROVE  /\ inst'[k].state # "none"
               /\ inst'[k].state = "stuck" => job[u].pc = "releasing" /\ job[u].kill
               /\ inst'[k].pages + job[u].left < Recycle + MaxPages
    <3>1. k \in Inst /\ inst[k].pages + job[u].left < Recycle + MaxPages
      BY <2>1 DEF PoolInv, JobFits, Job
    <3>2. inst'[k].pages + job[u].left < Recycle + MaxPages
      BY <2>1, <3>1, <1>7, RendererAssumption DEF Job
    <3>3. k = i => e.state = "dead"
      BY <1>2
    <3> QED
      BY <3>1, <3>2, <3>3, <1>3 DEF PoolInv, JobFits
  <2> QED
    BY <2>2, <1>1 DEF PoolInv, JobFits
<1> QED
  BY <1>4, <1>5, <1>6, <1>8, <1>9 DEF PoolInv

LEMMA PoolInvStep == PoolInv /\ [PoolNext]_poolVars => PoolInv'
<1> SUFFICES ASSUME PoolInv, [PoolNext]_poolVars PROVE PoolInv'
  OBVIOUS
<1>1. CASE UNCHANGED poolVars
  BY <1>1 DEF poolVars, PoolInv, PoolTypeOK, SlotsConserved, Holders, OneCaller, RecycledInTime, JobFits
<1>2. ASSUME NEW t \in Task, NEW n \in 0..MaxPages, Call(t, n) PROVE PoolInv'
  BY <1>2, OutsideStep
<1>3. ASSUME NEW t \in Task, SlotNotAcquired(t) \/ Leave(t) PROVE PoolInv'
  <2>1. 0 \in 0..MaxPages
    BY RendererAssumption
  <2> QED
    BY <1>3, <2>1, OutsideStep
<1>4. ASSUME NEW t \in Task, AcquireSlot(t) \/ Replace(t) \/ ReplaceFails(t) PROVE PoolInv'
  BY <1>4, AcquireStep, ReplaceStep
<1>5. ASSUME NEW t \in Task, NEW out \in Outcome, Open(t, out) \/ Draw(t, out) PROVE PoolInv'
  BY <1>5, OpenStep, DrawStep
<1>6. ASSUME NEW t \in Task, NEW b \in BOOLEAN, Emit(t, b) \/ ReturnSlot(t, b) PROVE PoolInv'
  BY <1>6, EmitStep, ReturnSlotStep
<1>7. ASSUME NEW i \in Inst, StuckEnds(i) \/ ChildDies(i) PROVE PoolInv'
  BY <1>7, InstanceStep
<1> QED
  BY <1>1, <1>2, <1>3, <1>4, <1>5, <1>6, <1>7, RespawnStep DEF PoolNext

-----------------------------------------------------------------------------
(* The worker: each of its steps is one of the files, of the pool, or the  *)
(* return of a task from both.                                             *)
WorkerInv ==
    /\ FilesInv /\ PoolInv
    /\ \A t \in Task : job[t].pc # "out" => use[t].pc = "using"

LEMMA StepsMap == Next => [FilesNext]_filesVars /\ [PoolNext]_poolVars
<1> SUFFICES ASSUME Next PROVE [FilesNext]_filesVars /\ [PoolNext]_poolVars
  OBVIOUS
<1>1. ASSUME NEW t \in Task, Work(t) PROVE [FilesNext]_filesVars /\ [PoolNext]_poolVars
  <2>1. CASE (\E ok \in BOOLEAN : Files(Download(t, ok))) \/ Files(Obtain(t)) \/ Files(AcquireFails(t))
    BY <2>1 DEF Files, FilesNext
  <2>2. CASE \/ Pool(AcquireSlot(t)) \/ (~use[t].live /\ Pool(SlotNotAcquired(t)))
             \/ \E out \in Outcome : Pool(Open(t, out)) \/ Pool(Draw(t, out))
    BY <2>2 DEF Pool, PoolNext
  <2>3. CASE \/ \E ok \in BOOLEAN : EmitUnder(t, ok)
             \/ \E rss \in BOOLEAN : Pool(ReturnSlot(t, rss))
             \/ Pool(Replace(t)) \/ Pool(ReplaceFails(t))
    BY <2>3 DEF Pool, EmitUnder, PoolNext
  <2> QED
    BY <1>1, <2>1, <2>2, <2>3 DEF Work
<1>2. ASSUME NEW t \in Task,
             (\E k \in Key : Arrive(t, k)) \/ (\E n \in 0..MaxPages : Begin(t, n)) \/ Return(t) \/ Files(Expire(t))
      PROVE  [FilesNext]_filesVars /\ [PoolNext]_poolVars
  BY <1>2 DEF Arrive, Begin, Return, Files, Pool, FilesNext, PoolNext
<1>3. CASE Pool(Respawn) \/ \E i \in Inst : Pool(StuckEnds(i)) \/ Pool(ChildDies(i))
  BY <1>3 DEF Pool, PoolNext
<1> QED
  BY <1>1, <1>2, <1>3 DEF Next

LEMMA ReadersUse == WorkerInv /\ Next => \A t \in Task : job'[t].pc # "out" => use'[t].pc = "using"
<1> SUFFICES ASSUME WorkerInv, Next PROVE \A t \in Task : job'[t].pc # "out" => use'[t].pc = "using"
  OBVIOUS
<1>t. job \in [Task -> Job] /\ use \in [Task -> Use]
  BY JobTyped DEF WorkerInv, FilesInv, FilesTypeOK, Use, PoolInv
<1>f. ASSUME UNCHANGED poolVars, NEW t \in Task, NEW v, v.pc = "using" \/ use[t].pc # "using",
             use' = [use EXCEPT ![t] = v]
      PROVE  \A u \in Task : job'[u].pc # "out" => use'[u].pc = "using"
  <2>1. use'[t] = v /\ \A u \in Task \ {t} : use'[u] = use[u]
    BY <1>t, <1>f
  <2> QED
    BY <1>f, <2>1 DEF WorkerInv, poolVars
<1>p. ASSUME UNCHANGED filesVars, \A u \in Task : job'[u].pc = "out" \/ job[u].pc # "out" \/ use[u].pc = "using"
      PROVE  \A u \in Task : job'[u].pc # "out" => use'[u].pc = "using"
  BY <1>p DEF WorkerInv, filesVars
<1>1. ASSUME NEW t \in Task, \/ \E ok \in BOOLEAN : Files(Download(t, ok))
                             \/ Files(Obtain(t)) \/ Files(AcquireFails(t))
                             \/ \E k \in Key : Arrive(t, k)
      PROVE  \A u \in Task : job'[u].pc # "out" => use'[u].pc = "using"
  <2>1. UNCHANGED poolVars /\ use[t].pc # "using" /\ \E v : use' = [use EXCEPT ![t] = v]
    BY <1>1 DEF Files, Arrive, Download, Obtain, AcquireFails, Drop, Join
  <2> QED
    BY <2>1, <1>f
<1>2. ASSUME NEW t \in Task, Files(Expire(t))
      PROVE  \A u \in Task : job'[u].pc # "out" => use'[u].pc = "using"
  <2>1. UNCHANGED job /\ use' = [use EXCEPT ![t] = [use[t] EXCEPT !.live = FALSE]]
    BY <1>2 DEF Files, Expire, poolVars
  <2>2. \A u \in Task : use'[u].pc = use[u].pc
    BY <1>t, <2>1 DEF Use
  <2> QED
    BY <2>1, <2>2 DEF WorkerInv
<1>3. ASSUME NEW t \in Task, Return(t)
      PROVE  \A u \in Task : job'[u].pc # "out" => use'[u].pc = "using"
  <2>1. use' = [use EXCEPT ![t] = NoUse] /\ job' = [job EXCEPT ![t] = NoJob] /\ NoJob.pc = "out"
    BY <1>3 DEF Return, Release, Drop, Leave, NoJob
  <2> QED
    BY <1>t, <2>1 DEF WorkerInv
<1>4. ASSUME NEW t \in Task, NEW n \in 0..MaxPages, Begin(t, n)
      PROVE  \A u \in Task : job'[u].pc # "out" => use'[u].pc = "using"
  <2>1. UNCHANGED filesVars /\ use[t].pc = "using" /\ \A u \in Task \ {t} : job'[u] = job[u]
    BY <1>t, <1>4 DEF Begin, Pool, Call
  <2> QED
    BY <2>1, <1>p
<1>5. ASSUME NEW t \in Task,
             \/ Pool(AcquireSlot(t)) \/ Pool(SlotNotAcquired(t))
             \/ \E out \in Outcome : Pool(Open(t, out)) \/ Pool(Draw(t, out))
             \/ \E ok \in BOOLEAN : EmitUnder(t, ok)
             \/ \E rss \in BOOLEAN : Pool(ReturnSlot(t, rss))
             \/ Pool(Replace(t)) \/ Pool(ReplaceFails(t))
      PROVE  \A u \in Task : job'[u].pc # "out" => use'[u].pc = "using"
  <2>1. UNCHANGED filesVars /\ job[t].pc # "out"
    BY <1>5 DEF Pool, EmitUnder, AcquireSlot, SlotNotAcquired, Open, Draw, Emit, ReturnSlot, Replace, ReplaceFails
  <2>2. \A u \in Task \ {t} : job'[u] = job[u]
    <3>1. CASE Pool(AcquireSlot(t)) \/ Pool(SlotNotAcquired(t)) \/ Pool(Replace(t)) \/ Pool(ReplaceFails(t))
      BY <1>t, <3>1 DEF Pool, AcquireSlot, SlotNotAcquired, Replace, ReplaceFails
    <3>2. CASE (\E out \in Outcome : Pool(Open(t, out)) \/ Pool(Draw(t, out))) \/ \E ok \in BOOLEAN : EmitUnder(t, ok)
      BY <1>t, <3>2 DEF Pool, EmitUnder, Open, Draw, Emit
    <3>3. CASE \E rss \in BOOLEAN : Pool(ReturnSlot(t, rss))
      BY <1>t, <3>3 DEF Pool, ReturnSlot
    <3> QED
      BY <1>5, <3>1, <3>2, <3>3
  <2> QED
    BY <2>1, <2>2, <1>p
<1>6. CASE Pool(Respawn) \/ \E i \in Inst : Pool(StuckEnds(i)) \/ Pool(ChildDies(i))
  <2>1. UNCHANGED filesVars /\ job' = job
    BY <1>6 DEF Pool, Respawn, StuckEnds, ChildDies
  <2> QED
    BY <2>1, <1>p
<1> QED
  BY <1>1, <1>2, <1>3, <1>4, <1>5, <1>6 DEF Next, Work

LEMMA WorkerInvHolds == Spec => []WorkerInv
<1>1. Init => WorkerInv
  <2> SUFFICES ASSUME Init PROVE WorkerInv
    OBVIOUS
  <2>1. FilesInv
    BY FilesInvInit DEF Init
  <2>2. Gone \in Instance /\ [state |-> "live", pages |-> 0] \in Instance /\ NoJob \in Job /\ NoJob.pc = "out" /\ NoJob.inst = {}
    BY RendererAssumption DEF Gone, Instance, InstState, NoJob, Job, JobPc
  <2>3. /\ slots \subseteq Inst /\ Cardinality(slots) = Workers /\ job \in [Task -> Job] /\ inst \in [Inst -> Instance]
        /\ \A t \in Task : job[t] = NoJob
        /\ \A i \in Inst : inst[i].pages = 0 /\ (i \in slots => inst[i].state = "live")
    BY <2>2 DEF Init, Gone
  <2>4. PoolTypeOK
    BY <2>3, RendererAssumption DEF Init, PoolTypeOK, Job, JobPc, Busy, Instance, InstState
  <2>5. SlotsConserved
    <3>1. Holders = {}
      BY <2>2, <2>3 DEF Holders
    <3> QED
      BY <2>3, <3>1, FS_EmptySet, RendererAssumption DEF Init, SlotsConserved
  <2>6. OneCaller /\ RecycledInTime /\ \A i \in slots : inst[i].pages < Recycle
    BY <2>2, <2>3, RendererAssumption DEF OneCaller, RecycledInTime
  <2>7. \A t \in Task : JobFits(job[t])
    BY <2>2, <2>3 DEF JobFits, Busy
  <2> QED
    BY <2>1, <2>2, <2>3, <2>4, <2>5, <2>6, <2>7 DEF WorkerInv, PoolInv
<1>2. WorkerInv /\ [Next]_vars => WorkerInv'
  <2> SUFFICES ASSUME WorkerInv, [Next]_vars PROVE WorkerInv'
    OBVIOUS
  <2>1. [FilesNext]_filesVars /\ [PoolNext]_poolVars
    BY StepsMap DEF vars, filesVars, poolVars
  <2>2. FilesInv' /\ PoolInv'
    BY <2>1, FilesInvStep, PoolInvStep DEF WorkerInv
  <2>3. \A t \in Task : job'[t].pc # "out" => use'[t].pc = "using"
    BY ReadersUse DEF WorkerInv, vars
  <2> QED
    BY <2>2, <2>3 DEF WorkerInv
<1> QED
  BY <1>1, <1>2, PTL DEF Spec

(* The worker uses the shared files as their own specification lets it.    *)
THEOREM UsesFiles == Spec => FilesSpec
<1>1. Init => FilesInit
  BY DEF Init
<1>2. [Next]_vars => [FilesNext]_filesVars
  BY StepsMap DEF vars, filesVars
<1> QED
  BY <1>1, <1>2, PTL DEF Spec, FilesSpec

(* Whatever fails, dies, times out or is cancelled: who reads a file holds *)
(* it, who holds it finds it, and nobody's file stays.                     *)
THEOREM FilesAreSafe == Spec => []FilesSafe
<1>1. WorkerInv => FilesSafe
  BY FilesInvSays DEF WorkerInv, FilesSafe, ReadsHeldFile, HoldersHaveFile
<1> QED
  BY <1>1, WorkerInvHolds, PTL

(* Nor is a slot lost, an instance shared, or recycling put off.           *)
THEOREM PoolIsSafe == Spec => []PoolSafe
<1>1. WorkerInv => PoolSafe
  BY DEF WorkerInv, PoolInv, PoolSafe
<1> QED
  BY <1>1, WorkerInvHolds, PTL

-----------------------------------------------------------------------------
(* The gate of the OCR workers (ModelGate), for any number of them.        *)

(* The calls past enter are of the gate's kind, and n counts them.         *)
Within == {w \in Worker : at[w].pc = "in"}

GateInv ==
    /\ TypeOK
    /\ \A w \in Within : at[w].k = kind
    /\ calls = Cardinality(Within)
    /\ NoSleeperForgotten

LEMMA WithinFinite ==
    /\ IsFiniteSet(Within) /\ Cardinality(Within) \in Nat
    /\ Cardinality(Within) = 0 <=> Within = {}
<1>1. IsFiniteSet(Worker) /\ Within \in SUBSET Worker
  BY GateAssumption DEF Within
<1>2. IsFiniteSet(Within)
  BY <1>1, FS_Subset
<1> QED
  BY <1>2, FS_CardinalityType, FS_EmptySet

-----------------------------------------------------------------------------
(* A worker that goes nowhere near the gate.                               *)
LEMMA GateOutside ==
    ASSUME GateInv, NEW w \in Worker, at[w].pc # "in",
           NEW place \in Place, place.pc \in {"out", "asks"},
           Goto(w, place), UNCHANGED <<kind, calls>>, failures' \in [Worker -> 0..MaxRetry]
    PROVE  GateInv'
<1>1. at' \in [Worker -> Place] /\ at'[w] = place /\ \A v \in Worker \ {w} : at'[v] = at[v]
  BY DEF Goto, GateInv, TypeOK
<1>2. Within' = Within
  BY <1>1 DEF Within
<1>3. TypeOK'
  BY <1>1 DEF GateInv, TypeOK
<1>4. \A v \in Within' : at'[v].k = kind'
  BY <1>1, <1>2 DEF GateInv, Within
<1>5. calls' = Cardinality(Within')
  BY <1>2 DEF GateInv
<1>6. NoSleeperForgotten'
  BY <1>1 DEF GateInv, NoSleeperForgotten, Asleep, Shut
<1> QED
  BY <1>3, <1>4, <1>5, <1>6 DEF GateInv

LEMMA GateEnter ==
    ASSUME GateInv, NEW w \in Worker, NEW k \in Kinds, Enter(w, k)
    PROVE  GateInv'
<1>1. at[w].pc = "asks" /\ at[w] = Be("asks", k)
  BY DEF Enter, Be
<1>2. CASE Shut(k)
  <2>1. /\ at' = [at EXCEPT ![w] = Be("asleep", k)]
        /\ UNCHANGED <<kind, calls, failures>>
    BY <1>2 DEF Enter, Goto
  <2>2. /\ at' \in [Worker -> Place] /\ at'[w] = Be("asleep", k)
        /\ \A v \in Worker \ {w} : at'[v] = at[v]
    BY <2>1 DEF GateInv, TypeOK, Place, Be
  <2>3. Within' = Within
    BY <1>1, <2>2 DEF Within, Be
  <2>4. TypeOK'
    BY <2>1, <2>2 DEF GateInv, TypeOK
  <2>5. NoSleeperForgotten'
    BY <1>2, <2>1, <2>2 DEF GateInv, NoSleeperForgotten, Asleep, Shut, Be
  <2>6. \A v \in Within' : at'[v].k = kind'
    BY <1>1, <2>1, <2>2, <2>3 DEF GateInv, Within
  <2> QED
    BY <2>1, <2>3, <2>4, <2>5, <2>6 DEF GateInv
<1>3. CASE ~Shut(k)
  <2>1. /\ at' = [at EXCEPT ![w] = Be("in", k)]
        /\ kind' = k /\ calls' = calls + 1 /\ failures' = failures
    BY <1>3 DEF Enter, Goto
  <2>2. /\ at' \in [Worker -> Place] /\ at'[w] = Be("in", k)
        /\ \A v \in Worker \ {w} : at'[v] = at[v]
    BY <2>1 DEF GateInv, TypeOK, Place, Be
  <2>3. Within' = Within \cup {w} /\ w \notin Within
    BY <1>1, <2>2 DEF Within, Be
  <2>4. calls' = Cardinality(Within')
    BY <2>1, <2>3, WithinFinite, FS_AddElement DEF GateInv
  <2>5. TypeOK'
    BY <2>1, <2>2 DEF GateInv, TypeOK
  <2>6. calls = 0 \/ kind = k
    BY <1>3 DEF Shut, GateInv, TypeOK
  <2>7. \A v \in Within' : at'[v].k = kind'
    BY <2>1, <2>2, <2>3, <2>6, WithinFinite DEF GateInv, Within, Be
  <2>8. NoSleeperForgotten'
    <3>1. \A v \in Worker : Asleep(v)' => v # w /\ Asleep(v) /\ at'[v] = at[v]
      BY <2>2 DEF Asleep, Be
    <3>2. \A v \in Worker : Asleep(v) => calls > 0 /\ kind = k /\ kind # at[v].k
      BY <2>6 DEF GateInv, TypeOK, NoSleeperForgotten, Shut
    <3> QED
      BY <2>1, <3>1, <3>2 DEF NoSleeperForgotten, Shut, GateInv, TypeOK
  <2> QED
    BY <2>4, <2>5, <2>7, <2>8 DEF GateInv
<1> QED
  BY <1>2, <1>3

LEMMA GateLeave ==
    ASSUME GateInv, NEW w \in Worker, at[w].pc = "in",
           NEW place \in Place, place.pc \in {"out", "asks"},
           LeaveGate(w, place), failures' \in [Worker -> 0..MaxRetry]
    PROVE  GateInv'
<1> DEFINE moved == [at EXCEPT ![w] = place]
<1>1. moved \in [Worker -> Place] /\ moved[w] = place /\ \A v \in Worker \ {w} : moved[v] = at[v]
  BY DEF GateInv, TypeOK
<1>2. calls' = calls - 1 /\ kind' = kind
      /\ at' = IF calls = 1 THEN [v \in Worker |-> Woken(moved[v])] ELSE moved
  BY DEF LeaveGate
<1>3. \A v \in Worker : Woken(moved[v]) \in Place
                        /\ Woken(moved[v]).pc # "asleep"
                        /\ (Woken(moved[v]).pc = "in" <=> moved[v].pc = "in")
                        /\ Woken(moved[v]).k = moved[v].k
  BY <1>1 DEF Woken, Be, Place
<1>4. /\ at' \in [Worker -> Place]
      /\ \A v \in Worker : (at'[v].pc = "in" <=> moved[v].pc = "in") /\ at'[v].k = moved[v].k
  BY <1>1, <1>2, <1>3
<1>5. Within' = Within \ {w} /\ w \in Within
  BY <1>1, <1>4 DEF Within
<1>6. calls' = Cardinality(Within') /\ calls \in Nat /\ calls # 0
  BY <1>2, <1>5, WithinFinite, FS_RemoveElement DEF GateInv, TypeOK
<1>7. TypeOK'
  BY <1>2, <1>4, <1>6 DEF GateInv, TypeOK
<1>8. \A v \in Within' : at'[v].k = kind'
  BY <1>1, <1>2, <1>4, <1>5 DEF GateInv, Within
<1>9. NoSleeperForgotten'
  <2>1. CASE calls = 1
    BY <2>1, <1>2, <1>3 DEF NoSleeperForgotten, Asleep
  <2>2. CASE calls # 1
    <3>1. at' = moved /\ calls' > 0
      BY <2>2, <1>2, <1>6
    <3> QED
      BY <3>1, <1>1, <1>2 DEF GateInv, NoSleeperForgotten, Asleep, Shut
  <2> QED
    BY <2>1, <2>2
<1> QED
  BY <1>6, <1>7, <1>8, <1>9 DEF GateInv

-----------------------------------------------------------------------------
LEMMA GateInvStep ==
    ASSUME GateInv, [GateNext]_gateVars
    PROVE  GateInv'
<1>p. \A pc \in {"out", "asks", "asleep", "in"}, k \in Kinds :
          Be(pc, k) \in Place /\ Be(pc, k).pc = pc
  BY DEF Be, Place
<1>k. "ocr" \in Kinds /\ "classify" \in Kinds
  BY DEF Kinds
<1>f. failures \in [Worker -> 0..MaxRetry]
  BY DEF GateInv, TypeOK
<1>1. ASSUME NEW w \in Worker, TakePage(w) PROVE GateInv'
  <2>1. at[w].pc = "out" /\ Goto(w, Be("asks", "ocr")) /\ UNCHANGED <<kind, calls, failures>>
    BY <1>1, <1>p, <1>k DEF TakePage, Idle
  <2> QED
    BY <2>1, <1>p, <1>k, <1>f, GateOutside
<1>2. ASSUME NEW w \in Worker, NEW k \in Kinds, Enter(w, k) PROVE GateInv'
  BY <1>2, GateEnter
<1>3. ASSUME NEW w \in Worker, Read(w) PROVE GateInv'
  <2>1. at[w].pc = "in" /\ LeaveGate(w, Be("asks", "classify")) /\ failures' = failures
    BY <1>3, <1>p, <1>k DEF Read
  <2> QED
    BY <2>1, <1>p, <1>k, <1>f, GateLeave
<1>4. ASSUME NEW w \in Worker, ReadFails(w) PROVE GateInv'
  <2>1. at[w].pc = "in" /\ LeaveGate(w, Be("out", "ocr"))
    BY <1>4, <1>p, <1>k DEF ReadFails, Idle
  <2>2. failures' \in [Worker -> 0..MaxRetry]
    BY <1>4, <1>f, GateAssumption DEF ReadFails
  <2> QED
    BY <2>1, <2>2, <1>p, <1>k, GateLeave
<1>5. ASSUME NEW w \in Worker, Classified(w) PROVE GateInv'
  <2>1. at[w].pc = "in" /\ LeaveGate(w, Be("out", "ocr")) /\ failures' = failures
    BY <1>5, <1>p, <1>k DEF Classified, Idle
  <2> QED
    BY <2>1, <1>p, <1>k, <1>f, GateLeave
<1>6. CASE UNCHANGED gateVars
  BY <1>6 DEF gateVars, GateInv, TypeOK, Within, NoSleeperForgotten, Asleep, Shut
<1> QED
  BY <1>1, <1>2, <1>3, <1>4, <1>5, <1>6 DEF GateNext, Answer

LEMMA GateInvHolds == GateSpec => []GateInv
<1>1. GateInit => GateInv
  <2> SUFFICES ASSUME GateInit PROVE GateInv
    OBVIOUS
  <2>1. Within = {} /\ \A w \in Worker : at[w] = Idle /\ Idle.pc = "out" /\ Idle \in Place
    BY DEF GateInit, Within, Idle, Be, Place, Kinds
  <2>2. TypeOK
    BY <2>1, GateAssumption DEF GateInit, TypeOK
  <2>3. NoSleeperForgotten
    BY <2>1 DEF NoSleeperForgotten, Asleep
  <2> QED
    BY <2>1, <2>2, <2>3, FS_EmptySet DEF GateInit, GateInv
<1>2. GateInv /\ [GateNext]_gateVars => GateInv'
  BY GateInvStep
<1> QED
  BY <1>1, <1>2, PTL DEF GateSpec

(* No page is classified while another is read, the gate's counter is      *)
(* exact, and a worker asleep at the gate is owed a wake-up: some call     *)
(* runs whose leave will broadcast.                                        *)
THEOREM GateIsSafe == GateSpec => []GateSafe
<1>1. GateInv => KindsApart
  <2> SUFFICES ASSUME GateInv PROVE KindsApart
    OBVIOUS
  <2>1. \A k \in Kinds : In(k) = {w \in Within : at[w].k = k}
    BY DEF GateInv, TypeOK, In, Within, Place, Be
  <2>2. "ocr" \in Kinds /\ "classify" \in Kinds
    BY DEF Kinds
  <2>3. In("ocr") = {} \/ In("classify") = {}
    BY <2>1, <2>2 DEF GateInv
  <2>4. In("ocr") \cup In("classify") = Within
    BY <2>1, <2>2 DEF GateInv, TypeOK, Within, Place, Kinds
  <2> QED
    BY <2>3, <2>4 DEF GateInv, KindsApart
<1>2. GateInv => GateSafe
  BY <1>1 DEF GateInv, GateSafe
<1> QED
  BY <1>2, GateInvHolds, PTL
=============================================================================
