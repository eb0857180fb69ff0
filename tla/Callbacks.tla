-------------------------------- MODULE Callbacks ------------------------------
(***************************************************************************)
(* The completion callbacks of one document: the deliveries                *)
(* (document_callbacks) and their recorded attempts, the calls that        *)
(* schedule one when the document reaches a final status, the tasks that   *)
(* send them, the user's retry and the housekeeping of what was missed     *)
(* (internal/application/service/document/callback.go).                    *)
(*                                                                         *)
(* A step is one database statement or transaction, or one HTTP call.      *)
(***************************************************************************)
EXTENDS Integers, FiniteSets

CONSTANTS
    MaxAttempts,     \* callback.max_attempts
    MaxRetry,        \* queue.Policy.MaxRetry of document:callback
    Calm,            \* timing assumption: requests do not race what they disturb
    MaxGen,          \* bound: parse generations
    MaxRun,          \* bound: page reparses
    MaxHk,           \* bound: housekeeping time buckets alive at once
    MaxReq,          \* bound: API requests in a behaviour
    MaxCrash,        \* bound: process deaths
    MaxStale         \* bound: housekeeping hits on work that is still alive

Key == (1..MaxGen) \X (0..MaxRun)
Event == {"completed", "failed", "cancelled"}

ASSUME CallbackAssumption ==
    /\ MaxAttempts \in Nat \ {0} /\ MaxRetry \in Nat /\ Calm \in BOOLEAN
    /\ MaxGen \in Nat \ {0} /\ MaxRun \in Nat /\ MaxHk \in Nat
    /\ MaxReq \in Nat /\ MaxCrash \in Nat /\ MaxStale \in Nat

VARIABLES
    doc,      \* the columns of the documents row that callbacks depend on
    cb,       \* the deliveries, by (gen, run): the URL stays the same
    calls,    \* scheduleCallback calls under way
    tasks,    \* document:callback tasks in the queue
    reqs,     \* API requests between two of their statements
    heard,    \* the deliveries the receiver has answered with a 2xx
    used      \* how much of each bound has been spent

vars == <<doc, cb, calls, tasks, reqs, heard, used>>

None == [state |-> "none", event |-> "", max |-> 0, attempts |-> 0, log |-> {}]

Current == <<doc.gen, doc.run>>
Ended == doc.exists /\ doc.status \in Event
Visible == doc.exists /\ ~doc.deleted
Spend(bound) == used' = [used EXCEPT ![bound] = @ + 1]
Spare(bound, max) == used[bound] < max /\ Spend(bound)

-----------------------------------------------------------------------------
(* scheduleCallback.                                                       *)

Call(by) == [by |-> by, at |-> Current, pc |-> "read", key |-> Current, event |-> ""]

(* The pipeline brings the document to its end (updateStatus).             *)
Finish(status) ==
    /\ doc.exists /\ doc.status = "busy"
    /\ Calm => \A r \in reqs : r.op # "cancel"
    /\ doc' = [doc EXCEPT !.status = status]
    /\ calls' = calls \cup {Call("finish")}
    /\ UNCHANGED <<cb, tasks, reqs, heard, used>>

(* The split of an upload on hold: the user has pages to pick first.       *)
Hold ==
    /\ doc.exists /\ doc.status = "busy"
    /\ doc' = [doc EXCEPT !.status = "not_started"]
    /\ UNCHANGED <<cb, calls, tasks, reqs, heard, used>>

(* The document is read again: its generation, run and status may have     *)
(* moved on.                                                               *)
ScheduleRead(c) ==
    /\ c.pc = "read"
    /\ calls' = (calls \ {c}) \cup
                IF Ended THEN {[c EXCEPT !.pc = "create", !.key = Current, !.event = doc.status]} ELSE {}
    /\ UNCHANGED <<doc, cb, tasks, reqs, heard, used>>

(* Create: one delivery per generation and run.                            *)
ScheduleCreate(c) ==
    /\ c.pc = "create"
    /\ IF doc.exists /\ cb[c.key].state = "none"
       THEN /\ cb' = [cb EXCEPT ![c.key] = [None EXCEPT !.state = "pending", !.event = c.event, !.max = MaxAttempts]]
            /\ calls' = (calls \ {c}) \cup {[c EXCEPT !.pc = "enqueue"]}
       ELSE calls' = calls \ {c} /\ UNCHANGED cb
    /\ UNCHANGED <<doc, tasks, reqs, heard, used>>

(* A task's id is delivery, attempt and suffix.  No enqueue asks for the   *)
(* id of a dead-lettered task again, so the queue need not remember those. *)
Task(k, n, suffix) ==
    [key |-> k, att |-> n, suffix |-> suffix, try |-> 0, pc |-> "queued", n |-> 0, max |-> 0, ok |-> FALSE]
Id(t) == <<t.key, t.att, t.suffix>>
Enqueue(t) == tasks \cup {u \in {t} : \A v \in tasks : Id(u) # Id(v)}

ScheduleEnqueue(c) ==
    /\ c.pc = "enqueue"
    /\ tasks' = Enqueue(Task(c.key, 1, <<>>))
    /\ calls' = calls \ {c}
    /\ UNCHANGED <<doc, cb, reqs, heard, used>>

ScheduleStep(c) == ScheduleRead(c) \/ ScheduleCreate(c) \/ ScheduleEnqueue(c)

(* The process dies, or its database is away: updateStatus logs and moves  *)
(* on.                                                                     *)
ScheduleDies(c) ==
    /\ Spare("crash", MaxCrash) /\ calls' = calls \ {c}
    /\ UNCHANGED <<doc, cb, tasks, reqs, heard>>

-----------------------------------------------------------------------------
(* deliverCallback.                                                        *)

Goto(t, u) == tasks' = (tasks \ {t}) \cup {u}
Ack(t) == tasks' = tasks \ {t}

Due(t) == cb[t.key].state = "pending" /\ t.att >= cb[t.key].attempts + 1

DeliverGet(t) ==
    /\ t.pc = "queued"
    /\ IF Due(t)
       THEN Goto(t, [t EXCEPT !.pc = "send", !.n = cb[t.key].attempts + 1, !.max = cb[t.key].max])
       ELSE Ack(t)
    /\ UNCHANGED <<doc, cb, calls, reqs, heard, used>>

DeliverSend(t, ok) ==
    /\ t.pc = "send"
    /\ heard' = IF ok THEN heard \cup {t.key} ELSE heard
    /\ Goto(t, [t EXCEPT !.pc = "record", !.ok = ok])
    /\ UNCHANGED <<doc, cb, calls, reqs, used>>

Outcome(t) == IF t.ok THEN "succeeded" ELSE IF t.n >= t.max THEN "failed" ELSE "pending"

(* Mutant: an attempt recorded before is recorded again.                   *)
Recorded_Never(t) == FALSE
Recorded(t) == t.n \in cb[t.key].log

(* RecordAttempt: the attempt, once, and with it the delivery's new state. *)
DeliverRecord(t) ==
    /\ t.pc = "record"
    /\ IF cb[t.key].state = "none" \/ Recorded(t) THEN Ack(t) /\ UNCHANGED cb
       ELSE /\ cb' = [cb EXCEPT ![t.key].attempts = IF @ > t.n THEN @ ELSE t.n,
                                ![t.key].state = Outcome(t),
                                ![t.key].log = @ \cup {t.n}]
            /\ IF Outcome(t) = "pending" THEN Goto(t, [t EXCEPT !.pc = "next"]) ELSE Ack(t)
    /\ UNCHANGED <<doc, calls, reqs, heard, used>>

(* The next attempt, after the backoff.                                    *)
DeliverNext(t) ==
    /\ t.pc = "next"
    /\ tasks' = Enqueue(Task(t.key, t.n + 1, <<>>)) \ {t}
    /\ UNCHANGED <<doc, cb, calls, reqs, heard, used>>

Deliver(t) ==
    \/ DeliverGet(t) \/ DeliverRecord(t) \/ DeliverNext(t)
    \/ \E ok \in BOOLEAN : DeliverSend(t, ok)

(* The worker dies, or an infrastructure error ends the attempt: asynq     *)
(* runs the task again, or dead-letters it.                                *)
DeliverDies(t) ==
    /\ t.pc # "queued" /\ Spare("crash", MaxCrash)
    /\ IF t.try >= MaxRetry THEN Ack(t)
       ELSE Goto(t, [Task(t.key, t.att, t.suffix) EXCEPT !.try = t.try + 1])
    /\ UNCHANGED <<doc, cb, calls, reqs, heard>>

-----------------------------------------------------------------------------
(* callbackHousekeeping.  Its ages (updated_at, next_attempt_at) are       *)
(* abstracted: it acts freely on what nobody is about to do any more, and  *)
(* at most MaxStale times on what is only slow.                            *)

(* Mutant: a delivery of an earlier run will do.                           *)
Missing_AnyRun == Ended /\ \A run \in 0..MaxRun : cb[<<doc.gen, run>>].state = "none"
Missing == Ended /\ cb[Current].state = "none"

NoPageRequest == \A r \in reqs : r.op # "pages"
Presume(dead) == IF dead THEN UNCHANGED used ELSE Spare("stale", MaxStale)

HkMissing ==
    /\ Missing
    /\ Calm => NoPageRequest
    /\ Presume(\A c \in calls : c.at # Current)
    /\ calls' = calls \cup {Call("housekeeping")}
    /\ UNCHANGED <<doc, cb, tasks, reqs, heard>>

(* Nobody is sending the delivery, nor about to enqueue it.                *)
Lost(k) ==
    /\ \A t \in tasks : t.key # k
    /\ \A c \in calls : ~(c.pc = "enqueue" /\ c.key = k)
    /\ \A r \in reqs : ~(r.op = "retry" /\ r.key = k)

HkOverdue(k, b) ==
    /\ cb[k].state = "pending"
    /\ Presume(Lost(k))
    /\ tasks' = Enqueue(Task(k, cb[k].attempts + 1, <<"hk", b>>))
    /\ UNCHANGED <<doc, cb, calls, reqs, heard>>

-----------------------------------------------------------------------------
(* API requests.                                                           *)

Request(op, k, n) == [id |-> used.req + 1, op |-> op, key |-> k, n |-> n]
Ask(op, k, n) == Spare("req", MaxReq) /\ reqs' = reqs \cup {Request(op, k, n)}

CancelCheck ==
    /\ Visible /\ doc.status = "busy"
    /\ Ask("cancel", Current, 0)
    /\ UNCHANGED <<doc, cb, calls, tasks, heard>>

(* The update that cancels looks at the generation, not at the status.     *)
CancelWrite(r) ==
    /\ r.op = "cancel" /\ reqs' = reqs \ {r}
    /\ IF doc.exists /\ doc.gen = r.key[1]
       THEN doc' = [doc EXCEPT !.status = "cancelled"] /\ calls' = calls \cup {Call("cancel")}
       ELSE UNCHANGED <<doc, calls>>
    /\ UNCHANGED <<cb, tasks, heard, used>>

(* A whole reparse: a new generation.                                      *)
Reparse ==
    /\ Visible /\ doc.status # "deleting" /\ doc.gen < MaxGen
    /\ Spare("req", MaxReq)
    /\ doc' = [doc EXCEPT !.gen = @ + 1, !.status = "busy"]
    /\ UNCHANGED <<cb, calls, tasks, reqs, heard>>

(* A page reparse: the check, then a new run, and the document back in the *)
(* pipeline some statements later.                                         *)
PagesCheck ==
    /\ Visible /\ doc.status \in {"completed", "failed", "not_started"} /\ doc.run < MaxRun
    /\ Calm => calls = {} /\ NoPageRequest
    /\ Ask("pages", Current, 0)
    /\ UNCHANGED <<doc, cb, calls, tasks, heard>>

(* Mutant: the run stays the same.                                         *)
PagesBump_SameRun(r) ==
    /\ r.op = "pages" /\ r.n = 0
    /\ reqs' = (reqs \ {r}) \cup {[r EXCEPT !.n = 1]}
    /\ UNCHANGED <<doc, cb, calls, tasks, heard, used>>

PagesBump(r) ==
    /\ r.op = "pages" /\ r.n = 0 /\ doc.run < MaxRun
    /\ reqs' = (reqs \ {r}) \cup {[r EXCEPT !.n = 1]}
    /\ doc' = [doc EXCEPT !.run = IF doc.exists THEN @ + 1 ELSE @]
    /\ UNCHANGED <<cb, calls, tasks, heard, used>>

PagesParse(r) ==
    /\ r.op = "pages" /\ r.n = 1 /\ reqs' = reqs \ {r}
    /\ doc' = IF doc.exists /\ doc.gen = r.key[1] /\ doc.status \notin {"cancelled", "deleting"}
              THEN [doc EXCEPT !.status = "busy"] ELSE doc
    /\ UNCHANGED <<cb, calls, tasks, heard, used>>

(* RetryCallback: a delivery of the document is re-armed, whatever its     *)
(* state, and sent now.                                                    *)
(* Mutant: no further attempts are allowed.                                *)
Rearm_SameMax(k) ==
    /\ Visible /\ cb[k].state # "none"
    /\ Calm => cb[k].state # "pending" /\ \A t \in tasks : t.key # k
    /\ cb' = [cb EXCEPT ![k].state = "pending"]
    /\ Ask("retry", k, cb[k].attempts + 1)
    /\ UNCHANGED <<doc, calls, tasks, heard>>

Rearm(k) ==
    /\ Visible /\ cb[k].state # "none"
    /\ Calm => cb[k].state # "pending" /\ \A t \in tasks : t.key # k
    /\ cb' = [cb EXCEPT ![k].state = "pending", ![k].max = cb[k].attempts + MaxAttempts]
    /\ Ask("retry", k, cb[k].attempts + 1)
    /\ UNCHANGED <<doc, calls, tasks, heard>>

RearmEnqueue(r) ==
    /\ r.op = "retry" /\ reqs' = reqs \ {r}
    /\ tasks' = Enqueue(Task(r.key, r.n, <<"m", r.id>>))
    /\ UNCHANGED <<doc, cb, calls, heard, used>>

(* A finished document without a delivery gets one.                        *)
RetryMissing ==
    /\ Visible /\ Ended /\ \A k \in Key : cb[k].state = "none"
    /\ Calm => NoPageRequest
    /\ Spare("req", MaxReq)
    /\ calls' = calls \cup {Call("retry")}
    /\ UNCHANGED <<doc, cb, tasks, reqs, heard>>

Delete ==
    /\ Visible
    /\ Spare("req", MaxReq)
    /\ doc' = [doc EXCEPT !.status = "deleting", !.deleted = TRUE]
    /\ UNCHANGED <<cb, calls, tasks, reqs, heard>>

(* The purge takes the deliveries with it.                                 *)
Purge ==
    /\ doc.exists /\ doc.status = "deleting"
    /\ doc' = [doc EXCEPT !.exists = FALSE]
    /\ cb' = [k \in Key |-> None]
    /\ UNCHANGED <<calls, tasks, reqs, heard, used>>

ServeStep(r) == CancelWrite(r) \/ PagesBump(r) \/ PagesParse(r) \/ RearmEnqueue(r)
RequestDies(r) ==
    /\ ~(Calm /\ r.op = "pages")
    /\ Spare("crash", MaxCrash) /\ reqs' = reqs \ {r}
    /\ UNCHANGED <<doc, cb, calls, tasks, heard>>

-----------------------------------------------------------------------------

Init ==
    /\ doc = [exists |-> TRUE, deleted |-> FALSE, gen |-> 1, run |-> 0, status |-> "busy"]
    /\ cb = [k \in Key |-> None]
    /\ calls = {} /\ tasks = {} /\ reqs = {} /\ heard = {}
    /\ used = [crash |-> 0, stale |-> 0, req |-> 0]

FinishStep == Finish("completed") \/ Finish("failed")

Next ==
    \/ FinishStep \/ Hold
    \/ \E c \in calls : ScheduleStep(c) \/ ScheduleDies(c)
    \/ \E t \in tasks : Deliver(t) \/ DeliverDies(t)
    \/ HkMissing
    \/ \E k \in Key, b \in 1..MaxHk : HkOverdue(k, b)
    \/ CancelCheck \/ Reparse \/ PagesCheck \/ RetryMissing \/ Delete \/ Purge
    \/ \E k \in Key : Rearm(k)
    \/ \E r \in reqs : ServeStep(r) \/ RequestDies(r)

Spec == Init /\ [][Next]_vars

(* A call that runs goes on, workers take the tasks that are queued, and   *)
(* the scheduler runs housekeeping every few minutes.                      *)
Fairness ==
    /\ WF_vars(\E c \in calls : ScheduleStep(c))
    /\ WF_vars(\E t \in tasks : Deliver(t))
    /\ WF_vars(\E r \in reqs : ServeStep(r))
    /\ WF_vars(HkMissing)
    /\ \A k \in Key : WF_vars(\E b \in 1..MaxHk : HkOverdue(k, b))

FairSpec == Spec /\ Fairness

-----------------------------------------------------------------------------
(* Properties.                                                             *)

Settled == {"succeeded", "failed"}
Document == [exists : BOOLEAN, deleted : BOOLEAN, gen : 1..MaxGen, run : 0..MaxRun,
             status : Event \cup {"busy", "not_started", "deleting"}]
Delivery == [state : {"none", "pending"} \cup Settled, event : Event \cup {""},
             max : Nat, attempts : Nat, log : SUBSET Nat]
Scheduling == [by : {"finish", "cancel", "housekeeping", "retry"}, at : Key,
               pc : {"read", "create", "enqueue"}, key : Key, event : Event \cup {""}]
Sending == [key : Key, att : Nat, suffix : {<<>>} \cup ({"hk", "m"} \X Nat), try : Nat,
            pc : {"queued", "send", "record", "next"}, n : Nat, max : Nat, ok : BOOLEAN]
Serving == [id : Nat, op : {"cancel", "pages", "retry"}, key : Key, n : Nat]

(* Every variable stays in its type.                                       *)
TypeOK ==
    /\ doc \in Document /\ cb \in [Key -> Delivery]
    /\ calls \subseteq Scheduling /\ tasks \subseteq Sending /\ reqs \subseteq Serving
    /\ heard \subseteq Key
    /\ used \in [crash : Nat, stale : Nat, req : Nat]

(* The attempts of a delivery are those recorded, numbered from one        *)
(* without a gap, and never more than it is allowed: whatever tasks        *)
(* overlap, die or are run again (RecordAttempt).                          *)
AttemptsAddUp ==
    \A k \in Key : cb[k].log = 1..cb[k].attempts /\ cb[k].attempts <= cb[k].max

(* A delivery is called succeeded only when the receiver took it, and is   *)
(* given up only when every attempt it was armed for has been made.        *)
VerdictRight ==
    \A k \in Key :
        /\ cb[k].state = "succeeded" => k \in heard
        /\ cb[k].state = "failed" => cb[k].attempts = cb[k].max

(* However its tasks overlap, a delivery's attempts and its verdict tell   *)
(* what was done.                                                          *)
DeliveriesSound == AttemptsAddUp /\ VerdictRight

(* A settled delivery is left alone: only a retry re-arms it, no late or   *)
(* duplicate task reopens or overturns it.                                 *)
SettledStays ==
    [][\A k \in Key : cb[k].state \in Settled /\ cb'[k].state # cb[k].state /\ doc'.exists
        => cb'[k].state = "pending" /\ cb'[k].max = cb[k].attempts + MaxAttempts]_vars

(* The delivery of the current generation and run carries the status the   *)
(* document ended with.                                                    *)
EventTrue == Ended /\ cb[Current].state # "none" => cb[Current].event = doc.status

(* A document that stays ended is told about: its delivery is made and     *)
(* settles, whatever was lost on the way.                                  *)
Told == <>[]Ended => <>[](Ended /\ cb[Current].state \in Settled)
=============================================================================
