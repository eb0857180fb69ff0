------------------------------- MODULE TempFiles -------------------------------
(***************************************************************************)
(* The local copies of source files that tasks share while they use them   *)
(* (internal/storage/tempfiles.go).                                        *)
(*                                                                         *)
(* The mutex makes the two map accesses of Acquire and release atomic; the *)
(* download runs outside it.  An entry is in the map exactly while it has  *)
(* users, so a key names at most one entry at a time.                      *)
(***************************************************************************)
EXTENDS WorkerTasks

CONSTANT Key     \* storage keys of source files

ASSUME KeyAssumption == Key # {}

VARIABLES
    entries,    \* TempFiles.entries: the uses of a key and its download
    disk,       \* the keys whose file is on the local disk
    use         \* what each task does with which key

filesVars == <<entries, disk, use>>

NoEntry == [refs |-> 0, state |-> "none"]
NoUse == [pc |-> "out", key |-> CHOOSE k \in Key : TRUE, live |-> TRUE]

(* Acquire, under the mutex: the first task downloads, the others wait.    *)
Join(t, k) ==
    /\ use[t].pc = "out"
    /\ LET first == entries[k].refs = 0
       IN  /\ entries' = [entries EXCEPT ![k].refs = @ + 1,
                                         ![k].state = IF first THEN "loading" ELSE @]
           /\ use' = [use EXCEPT ![t] = [NoUse EXCEPT !.pc = IF first THEN "loading" ELSE "waiting", !.key = k]]
    /\ UNCHANGED disk

(* The context of a task ends: its deadline, or the worker shuts down.     *)
Expire(t) ==
    /\ use[t].pc # "out" /\ use[t].live
    /\ use' = [use EXCEPT ![t].live = FALSE]
    /\ UNCHANGED <<entries, disk>>

(* Mutant: a download that failed does not say so.                         *)
Download_Silent(t, ok) ==
    /\ use[t].pc = "loading"
    /\ disk' = IF ok THEN disk \cup {use[t].key} ELSE disk
    /\ entries' = [entries EXCEPT ![use[t].key].state = IF ok THEN "ready" ELSE @]
    /\ use' = [use EXCEPT ![t].pc = "waiting"]

(* Download writes beside the path and renames: a file is whole.  It fails *)
(* when the store does or the context of the task that downloads ends,     *)
(* whatever the contexts of those that wait.                               *)
Download(t, ok) ==
    /\ use[t].pc = "loading"
    /\ disk' = IF ok THEN disk \cup {use[t].key} ELSE disk
    /\ entries' = [entries EXCEPT ![use[t].key].state = IF ok THEN "ready" ELSE "failed"]
    /\ use' = [use EXCEPT ![t].pc = "waiting"]

(* release.                                                                *)
Drop(t) ==
    LET k == use[t].key
        last == entries[k].refs = 1
    IN  /\ entries' = [entries EXCEPT ![k] = IF last THEN NoEntry ELSE [entries[k] EXCEPT !.refs = @ - 1]]
        /\ disk' = IF last THEN disk \ {k} ELSE disk
        /\ use' = [use EXCEPT ![t] = NoUse]

(* The select of Acquire may see either when both have happened.           *)
Obtain(t) ==
    /\ use[t].pc = "waiting" /\ entries[use[t].key].state = "ready"
    /\ use' = [use EXCEPT ![t].pc = "using"]
    /\ UNCHANGED <<entries, disk>>

AcquireFails(t) ==
    /\ use[t].pc = "waiting"
    /\ ~use[t].live \/ entries[use[t].key].state = "failed"
    /\ Drop(t)

Release(t) == use[t].pc = "using" /\ Drop(t)

FilesInit ==
    /\ entries = [k \in Key |-> NoEntry]
    /\ disk = {}
    /\ use = [t \in Task |-> NoUse]

FilesNext ==
    \E t \in Task :
        \/ \E k \in Key : Join(t, k)
        \/ \E ok \in BOOLEAN : Download(t, ok)
        \/ Expire(t) \/ Obtain(t) \/ AcquireFails(t) \/ Release(t)

FilesSpec == FilesInit /\ [][FilesNext]_filesVars

-----------------------------------------------------------------------------
(* Properties.                                                             *)

Users(k) == {t \in Task : use[t].pc # "out" /\ use[t].key = k}

FilesTypeOK ==
    /\ entries \in [Key -> [refs : Nat, state : {"none", "loading", "ready", "failed"}]]
    /\ disk \subseteq Key
    /\ use \in [Task -> [pc : {"out", "loading", "waiting", "using"}, key : Key, live : BOOLEAN]]

(* A task that was handed a path finds the file there until it releases    *)
(* it, whoever else shares it, fails, times out or leaves meanwhile.       *)
HoldersHaveFile == \A t \in Task : use[t].pc = "using" => use[t].key \in disk

(* "The disk holds only the files being processed right now": no file      *)
(* outlives its last user, and no entry counts users that are gone (it     *)
(* would hand out a failed download for ever).                             *)
NothingKept ==
    /\ \A k \in disk : Users(k) # {}
    /\ \A k \in Key : entries[k].refs = Cardinality(Users(k))

(* One download at a time writes the path of a key.                        *)
OneWriter == \A t, u \in Task : use[t].pc = "loading" /\ use[u].pc = "loading" /\ use[t].key = use[u].key => t = u
==============================================================================
