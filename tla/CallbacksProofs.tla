----------------------------- MODULE CallbacksProofs ---------------------------
(* Theorems about Callbacks, for any limit, policy and bound.              *)
EXTENDS Callbacks, TLAPS

-----------------------------------------------------------------------------
(* Types.                                                                  *)

LEMMA CurrentType ==
    ASSUME doc \in Document
    PROVE  Current \in Key
BY DEF Document, Current, Key

LEMMA DeliveryFields ==
    ASSUME TypeOK, NEW k \in Key
    PROVE  /\ cb[k] \in Delivery
           /\ cb[k].attempts \in Nat /\ cb[k].max \in Nat
           /\ cb[k].log \subseteq Nat /\ cb[k].state \in {"none", "pending"} \cup Settled
<1>1. cb[k] \in Delivery
  BY DEF TypeOK
<1> QED
  BY <1>1 DEF Delivery

LEMMA CallType ==
    ASSUME doc \in Document,
           NEW by \in {"finish", "cancel", "housekeeping", "retry"}
    PROVE  Call(by) \in Scheduling
BY CurrentType DEF Call, Scheduling

LEMMA TaskType ==
    ASSUME NEW k \in Key, NEW n \in Nat,
           NEW suffix \in {<<>>} \cup ({"hk", "m"} \X Nat)
    PROVE  Task(k, n, suffix) \in Sending
BY DEF Task, Sending

LEMMA EnqueueAdds ==
    ASSUME NEW t
    PROVE  tasks \subseteq Enqueue(t) /\ Enqueue(t) \subseteq tasks \cup {t}
BY DEF Enqueue

LEMMA UsedType ==
    ASSUME used \in [crash : Nat, stale : Nat, req : Nat],
           NEW bound \in {"crash", "stale", "req"}, Spend(bound)
    PROVE  used' \in [crash : Nat, stale : Nat, req : Nat]
BY DEF Spend

LEMMA AskType ==
    ASSUME TypeOK, NEW op \in {"cancel", "pages", "retry"}, NEW k \in Key, NEW n \in Nat,
           Ask(op, k, n)
    PROVE  reqs' \subseteq Serving /\ used' \in [crash : Nat, stale : Nat, req : Nat]
<1>1. Request(op, k, n) \in Serving
  BY DEF TypeOK, Request, Serving
<1> QED
  BY <1>1, UsedType DEF TypeOK, Ask, Spare

LEMMA PresumeType ==
    ASSUME TypeOK, NEW dead, Presume(dead)
    PROVE  used' \in [crash : Nat, stale : Nat, req : Nat]
BY UsedType DEF TypeOK, Presume, Spare

LEMMA ScheduleType ==
    ASSUME TypeOK, NEW c \in calls, ScheduleStep(c) \/ ScheduleDies(c)
    PROVE  TypeOK'
<1>1. c \in Scheduling
  BY DEF TypeOK
<1>2. CASE ScheduleRead(c)
  <2>1. CASE Ended
    <3>1. [c EXCEPT !.pc = "create", !.key = Current, !.event = doc.status] \in Scheduling
      BY <1>1, <2>1, CurrentType DEF TypeOK, Scheduling, Ended
    <3> QED
      BY <1>2, <2>1, <3>1 DEF TypeOK, ScheduleRead
  <2>2. CASE ~Ended
    BY <1>2, <2>2 DEF TypeOK, ScheduleRead
  <2> QED
    BY <2>1, <2>2
<1>3. CASE ScheduleCreate(c)
  <2>1. [c EXCEPT !.pc = "enqueue"] \in Scheduling
    BY <1>1 DEF Scheduling
  <2>2. [None EXCEPT !.state = "pending", !.event = c.event, !.max = MaxAttempts] \in Delivery
    BY <1>1, CallbackAssumption DEF None, Delivery, Scheduling
  <2> QED
    BY <1>3, <2>1, <2>2 DEF TypeOK, ScheduleCreate
<1>4. CASE ScheduleEnqueue(c)
  <2>1. Task(c.key, 1, <<>>) \in Sending
    BY <1>1, TaskType DEF Scheduling
  <2> QED
    BY <1>4, <2>1, EnqueueAdds DEF TypeOK, ScheduleEnqueue
<1>5. CASE ScheduleDies(c)
  BY <1>5, UsedType DEF TypeOK, ScheduleDies, Spare
<1> QED
  BY <1>2, <1>3, <1>4, <1>5 DEF ScheduleStep

LEMMA DeliverType ==
    ASSUME TypeOK, NEW t \in tasks, Deliver(t) \/ DeliverDies(t)
    PROVE  TypeOK'
<1>1. t \in Sending /\ t.key \in Key /\ cb[t.key] \in Delivery
  BY DEF TypeOK, Sending
<1>2. CASE DeliverGet(t)
  <2>0. cb[t.key].attempts + 1 \in Nat /\ cb[t.key].max \in Nat
    BY <1>1, DeliveryFields
  <2>1. [t EXCEPT !.pc = "send", !.n = cb[t.key].attempts + 1, !.max = cb[t.key].max] \in Sending
    BY <1>1, <2>0 DEF Sending
  <2> QED
    BY <1>2, <2>1 DEF TypeOK, DeliverGet, Goto, Ack
<1>3. ASSUME NEW ok \in BOOLEAN, DeliverSend(t, ok) PROVE TypeOK'
  <2>1. [t EXCEPT !.pc = "record", !.ok = ok] \in Sending
    BY <1>1 DEF Sending
  <2> QED
    BY <1>1, <1>3, <2>1 DEF TypeOK, DeliverSend, Goto
<1>4. CASE DeliverRecord(t)
  <2>1. [t EXCEPT !.pc = "next"] \in Sending
    BY <1>1 DEF Sending
  <2>2. tasks' \subseteq Sending
    BY <1>4, <2>1 DEF TypeOK, DeliverRecord, Goto, Ack
  <2>3. [cb[t.key] EXCEPT !.attempts = IF @ > t.n THEN @ ELSE t.n, !.state = Outcome(t),
                          !.log = @ \cup {t.n}] \in Delivery
    BY <1>1 DEF Sending, Delivery, Outcome, Settled
  <2>4. cb' \in [Key -> Delivery]
    BY <1>1, <1>4, <2>3 DEF TypeOK, DeliverRecord
  <2> QED
    BY <1>4, <2>2, <2>4 DEF TypeOK, DeliverRecord
<1>5. CASE DeliverNext(t)
  <2>1. Task(t.key, t.n + 1, <<>>) \in Sending
    BY <1>1, TaskType DEF Sending
  <2> QED
    BY <1>5, <2>1, EnqueueAdds DEF TypeOK, DeliverNext
<1>6. CASE DeliverDies(t)
  <2>0. Task(t.key, t.att, t.suffix) \in Sending /\ t.try + 1 \in Nat
    BY <1>1, TaskType DEF Sending
  <2>1. [Task(t.key, t.att, t.suffix) EXCEPT !.try = t.try + 1] \in Sending
    BY <2>0 DEF Sending
  <2> QED
    BY <1>6, <2>1, UsedType DEF TypeOK, DeliverDies, Goto, Ack, Spare
<1> QED
  BY <1>2, <1>3, <1>4, <1>5, <1>6 DEF Deliver

LEMMA RequestType ==
    ASSUME TypeOK, NEW r \in reqs, ServeStep(r) \/ RequestDies(r)
    PROVE  TypeOK'
<1>1. r \in Serving
  BY DEF TypeOK
<1>2. CASE CancelWrite(r)
  <2>1. Call("cancel") \in Scheduling
    BY CallType DEF TypeOK
  <2> QED
    BY <1>2, <2>1 DEF TypeOK, CancelWrite, Document, Event
<1>3. CASE PagesBump(r)
  <2>1. [r EXCEPT !.n = 1] \in Serving
    BY <1>1 DEF Serving
  <2>2. doc' \in Document
    BY <1>3, CallbackAssumption DEF TypeOK, PagesBump, Document
  <2> QED
    BY <1>3, <2>1, <2>2 DEF TypeOK, PagesBump
<1>4. CASE PagesParse(r)
  BY <1>4 DEF TypeOK, PagesParse, Document
<1>5. CASE RearmEnqueue(r)
  <2>1. Task(r.key, r.n, <<"m", r.id>>) \in Sending
    BY <1>1, TaskType DEF Serving
  <2> QED
    BY <1>5, <2>1, EnqueueAdds DEF TypeOK, RearmEnqueue
<1>6. CASE RequestDies(r)
  BY <1>6, UsedType DEF TypeOK, RequestDies, Spare
<1> QED
  BY <1>2, <1>3, <1>4, <1>5, <1>6 DEF ServeStep

LEMMA TypeInit == Init => TypeOK
<1> SUFFICES ASSUME Init PROVE TypeOK
  OBVIOUS
<1>1. doc \in Document
  BY CallbackAssumption DEF Init, Document
<1>2. None \in Delivery
  BY DEF None, Delivery
<1> QED
  BY <1>1, <1>2 DEF Init, TypeOK

LEMMA TypeStep == TypeOK /\ [Next]_vars => TypeOK'
<1> SUFFICES ASSUME TypeOK, [Next]_vars PROVE TypeOK'
  OBVIOUS
<1>c. \A by \in {"finish", "cancel", "housekeeping", "retry"} : Call(by) \in Scheduling
  BY CallType DEF TypeOK
<1>k. Current \in Key
  BY CurrentType DEF TypeOK
<1>1. CASE UNCHANGED vars
  BY <1>1 DEF TypeOK, vars
<1>2. CASE FinishStep
  BY <1>2, <1>c DEF TypeOK, FinishStep, Finish, Document, Event
<1>3. CASE Hold
  BY <1>3 DEF TypeOK, Hold, Document
<1>4. ASSUME NEW c \in calls, ScheduleStep(c) \/ ScheduleDies(c) PROVE TypeOK'
  BY <1>4, ScheduleType
<1>5. ASSUME NEW t \in tasks, Deliver(t) \/ DeliverDies(t) PROVE TypeOK'
  BY <1>5, DeliverType
<1>6. CASE HkMissing
  BY <1>6, <1>c, PresumeType DEF TypeOK, HkMissing
<1>7. ASSUME NEW k \in Key, NEW b \in 1..MaxHk, HkOverdue(k, b) PROVE TypeOK'
  <2>1. cb[k].attempts + 1 \in Nat /\ <<"hk", b>> \in {"hk", "m"} \X Nat
    BY DeliveryFields
  <2>2. Task(k, cb[k].attempts + 1, <<"hk", b>>) \in Sending
    BY <2>1, TaskType
  <2> QED
    BY <1>7, <2>2, PresumeType, EnqueueAdds DEF TypeOK, HkOverdue
<1>8. CASE CancelCheck
  BY <1>8, <1>k, AskType DEF TypeOK, CancelCheck
<1>9. CASE Reparse
  <2>0. doc \in Document /\ doc.gen < MaxGen
    BY <1>9 DEF TypeOK, Reparse
  <2>1. doc.gen + 1 \in 1..MaxGen
    BY <2>0, CallbackAssumption DEF Document
  <2>2. [doc EXCEPT !.gen = @ + 1, !.status = "busy"] \in Document
    BY <2>0, <2>1 DEF Document
  <2> QED
    BY <1>9, <2>2, UsedType DEF TypeOK, Reparse, Spare
<1>10. CASE PagesCheck
  BY <1>10, <1>k, AskType DEF TypeOK, PagesCheck
<1>11. CASE RetryMissing
  BY <1>11, <1>c, UsedType DEF TypeOK, RetryMissing, Spare
<1>12. CASE Delete
  BY <1>12, UsedType DEF TypeOK, Delete, Spare, Document
<1>13. CASE Purge
  <2>1. None \in Delivery
    BY DEF None, Delivery
  <2> QED
    BY <1>13, <2>1 DEF TypeOK, Purge, Document
<1>14. ASSUME NEW k \in Key, Rearm(k) PROVE TypeOK'
  <2>0. cb[k] \in Delivery
    BY DEF TypeOK
  <2>1. cb[k].attempts \in Nat /\ cb[k].attempts + MaxAttempts \in Nat
    BY DeliveryFields, CallbackAssumption
  <2>2. reqs' \subseteq Serving /\ used' \in [crash : Nat, stale : Nat, req : Nat]
    BY <1>14, <2>1, AskType DEF Rearm
  <2>3. [cb[k] EXCEPT !.state = "pending", !.max = cb[k].attempts + MaxAttempts] \in Delivery
    BY <2>0, <2>1 DEF Delivery
  <2> QED
    BY <1>14, <2>2, <2>3 DEF TypeOK, Rearm
<1>15. ASSUME NEW r \in reqs, ServeStep(r) \/ RequestDies(r) PROVE TypeOK'
  BY <1>15, RequestType
<1> QED
  BY <1>1, <1>2, <1>3, <1>4, <1>5, <1>6, <1>7, <1>8, <1>9, <1>10, <1>11, <1>12, <1>13,
     <1>14, <1>15 DEF Next

(* Every variable stays in its type, for any limit, policy and bound.      *)
THEOREM TypeCorrect == Spec => []TypeOK
BY TypeInit, TypeStep, PTL DEF Spec

-----------------------------------------------------------------------------
(* Attempts and verdicts.                                                  *)

(* A delivery that is pending may make another attempt, and never more     *)
(* than MaxAttempts further ones.                                          *)
Counted(k) ==
    /\ cb[k].log = 1..cb[k].attempts /\ cb[k].attempts <= cb[k].max
    /\ cb[k].max <= cb[k].attempts + MaxAttempts
    /\ cb[k].state = "pending" => cb[k].attempts < cb[k].max
    /\ cb[k].state = "succeeded" => k \in heard
    /\ Calm /\ cb[k].state = "failed" => cb[k].attempts = cb[k].max

(* An attempt in flight is a recorded one, or the next of a delivery that  *)
(* is still pending; only a retry raises the limit it was started with.    *)
InFlight(t) ==
    t.pc \in {"send", "record"} /\ cb[t.key].state # "none" =>
        /\ 1 <= t.n /\ t.n <= cb[t.key].attempts + 1
        /\ t.max <= t.n - 1 + MaxAttempts
        /\ t.n = cb[t.key].attempts + 1 =>
              /\ cb[t.key].state = "pending" /\ t.max <= cb[t.key].max
              /\ Calm => t.max = cb[t.key].max

Answered(t) == t.pc = "record" /\ t.ok => t.key \in heard

(* Only a purge takes away a delivery that something refers to.            *)
Gone(k) == cb[k].state = "none" => ~doc.exists
Referred ==
    /\ \A t \in tasks : Gone(t.key)
    /\ \A c \in calls : c.pc = "enqueue" => Gone(c.key)
    /\ \A r \in reqs : r.op = "retry" => Gone(r.key)

IInv ==
    /\ TypeOK /\ Referred
    /\ \A k \in Key : Counted(k)
    /\ \A t \in tasks : InFlight(t) /\ Answered(t)

(* A step that leaves the deliveries alone and puts in flight only what    *)
(* satisfies the invariant keeps it.                                       *)
LEMMA Steady ==
    ASSUME IInv, TypeOK', cb' = cb, doc'.exists = doc.exists, heard \subseteq heard',
           \A t \in tasks' : \/ t \in tasks
                             \/ Gone(t.key) /\ InFlight(t) /\ (t.pc = "record" /\ t.ok => t.key \in heard'),
           \A c \in calls' : c \in calls \/ c.pc # "enqueue",
           \A r \in reqs' : r \in reqs \/ r.op # "retry"
    PROVE  IInv'
<1>1. ASSUME NEW k \in Key PROVE Counted(k)'
  BY DEF IInv, Counted
<1>2. ASSUME NEW t \in tasks' PROVE InFlight(t)' /\ Answered(t)'
  BY <1>2 DEF IInv, InFlight, Answered
<1>3. Referred'
  BY DEF IInv, Referred, Gone
<1> QED
  BY <1>1, <1>2, <1>3 DEF IInv

LEMMA QueuedTask ==
    ASSUME NEW k \in Key, NEW n, NEW suffix
    PROVE  /\ Task(k, n, suffix).key = k
           /\ Task(k, n, suffix).pc = "queued"
           /\ InFlight(Task(k, n, suffix))
BY DEF Task, InFlight

(* A task enqueued for a delivery that something already refers to.        *)
LEMMA SteadyEnqueue ==
    ASSUME IInv, TypeOK', UNCHANGED <<cb, doc, heard>>,
           NEW k \in Key, NEW n, NEW suffix, Gone(k), tasks' \subseteq Enqueue(Task(k, n, suffix)),
           \A c \in calls' : c \in calls \/ c.pc # "enqueue",
           \A r \in reqs' : r \in reqs \/ r.op # "retry"
    PROVE  IInv'
<1>1. tasks' \subseteq tasks \cup {Task(k, n, suffix)}
  BY EnqueueAdds
<1> QED
  BY <1>1, QueuedTask, Steady

LEMMA ScheduleKeeps ==
    ASSUME IInv, TypeOK', NEW c \in calls, ScheduleStep(c) \/ ScheduleDies(c)
    PROVE  IInv'
<1>1. c \in Scheduling /\ c.key \in Key
  BY DEF IInv, TypeOK, Scheduling
<1>2. CASE ScheduleRead(c)
  <2>1. [c EXCEPT !.pc = "create", !.key = Current, !.event = doc.status].pc = "create"
    BY <1>1 DEF Scheduling
  <2>2. \A d \in calls' : d \in calls \/ d.pc # "enqueue"
    BY <1>2, <2>1 DEF ScheduleRead
  <2> QED
    BY <1>2, <2>2, Steady DEF ScheduleRead
<1>3. CASE ScheduleCreate(c) /\ ~(doc.exists /\ cb[c.key].state = "none")
  BY <1>3, Steady DEF ScheduleCreate
<1>4. CASE ScheduleCreate(c) /\ doc.exists /\ cb[c.key].state = "none"
  <2> DEFINE d == [None EXCEPT !.state = "pending", !.event = c.event, !.max = MaxAttempts]
  <2>1. /\ cb' = [cb EXCEPT ![c.key] = d] /\ calls' = (calls \ {c}) \cup {[c EXCEPT !.pc = "enqueue"]}
        /\ UNCHANGED <<doc, tasks, reqs, heard>>
    BY <1>4 DEF ScheduleCreate
  <2>2. d.state = "pending" /\ d.max = MaxAttempts /\ d.attempts = 0 /\ d.log = {}
    BY DEF None
  <2>3. cb'[c.key] = d /\ \A k \in Key \ {c.key} : cb'[k] = cb[k]
    BY <1>1, <2>1 DEF IInv, TypeOK
  <2>4. \A t \in tasks : t.key # c.key /\ t.key \in Key
    BY <1>4 DEF IInv, Referred, Gone, TypeOK, Sending
  <2>5. ASSUME NEW k \in Key PROVE Counted(k)'
    <3>1. CASE k = c.key
      <4>1. 1..0 = {} /\ 0 <= MaxAttempts /\ 0 < MaxAttempts /\ MaxAttempts <= 0 + MaxAttempts
        BY CallbackAssumption
      <4> QED
        BY <2>2, <2>3, <3>1, <4>1 DEF Counted
    <3>2. CASE k # c.key
      BY <2>1, <2>3, <3>2 DEF Counted, IInv
    <3> QED
      BY <3>1, <3>2
  <2>6. ASSUME NEW t \in tasks' PROVE InFlight(t)' /\ Answered(t)'
    BY <2>1, <2>3, <2>4, <2>6 DEF IInv, InFlight, Answered
  <2>7. \A k \in Key : Gone(k) => Gone(k)'
    BY <2>1, <2>2, <2>3 DEF Gone
  <2>8. [c EXCEPT !.pc = "enqueue"].key = c.key /\ Gone(c.key)'
    BY <1>1, <2>2, <2>3 DEF Scheduling, Gone
  <2>9. Referred'
    BY <2>1, <2>7, <2>8 DEF IInv, Referred, TypeOK, Sending, Scheduling, Serving
  <2> QED
    BY <2>5, <2>6, <2>9 DEF IInv
<1>5. CASE ScheduleEnqueue(c)
  BY <1>1, <1>5, SteadyEnqueue DEF ScheduleEnqueue, IInv, Referred
<1>6. CASE ScheduleDies(c)
  BY <1>6, Steady DEF ScheduleDies
<1> QED
  BY <1>2, <1>3, <1>4, <1>5, <1>6 DEF ScheduleStep

(* An attempt that can still be recorded is the next one of a pending      *)
(* delivery.                                                               *)
LEMMA NextAttempt ==
    ASSUME IInv, NEW t \in tasks, t.pc = "record", cb[t.key].state # "none", ~Recorded(t)
    PROVE  /\ t.n = cb[t.key].attempts + 1 /\ cb[t.key].state = "pending"
           /\ t.max <= cb[t.key].max /\ (Calm => t.max = cb[t.key].max)
<1>1. t.key \in Key /\ t.n \in Nat
  BY DEF IInv, TypeOK, Sending
<1>2. cb[t.key].attempts \in Nat
  BY <1>1, DeliveryFields DEF IInv
<1>3. InFlight(t) /\ Counted(t.key)
  BY <1>1 DEF IInv
<1>4. t.n \notin 1..cb[t.key].attempts /\ 1 <= t.n /\ t.n <= cb[t.key].attempts + 1
  BY <1>3 DEF Recorded, InFlight, Counted
<1>5. t.n = cb[t.key].attempts + 1
  BY <1>1, <1>2, <1>4
<1> QED
  BY <1>3, <1>5 DEF InFlight

LEMMA RecordKeeps ==
    ASSUME IInv, TypeOK', NEW t \in tasks, DeliverRecord(t)
    PROVE  IInv'
<1>1. t \in Sending /\ t.key \in Key /\ t.n \in Nat /\ t.max \in Nat
  BY DEF IInv, TypeOK, Sending
<1>n. [t EXCEPT !.pc = "next"].key = t.key /\ [t EXCEPT !.pc = "next"].pc = "next"
  BY <1>1 DEF Sending
<1>2. CASE cb[t.key].state = "none" \/ Recorded(t)
  BY <1>2, Steady DEF DeliverRecord, Ack
<1>3. CASE cb[t.key].state # "none" /\ ~Recorded(t)
  <2> DEFINE k == t.key  a == cb[k].attempts  m == cb[k].max
  <2>1. a \in Nat /\ m \in Nat /\ cb[k] \in Delivery
    BY <1>1, DeliveryFields DEF IInv
  <2>2. t.n = a + 1 /\ cb[k].state = "pending" /\ t.max <= m /\ (Calm => t.max = m)
    BY <1>3, NextAttempt DEF DeliverRecord
  <2>3. cb[k].log = 1..a /\ a < m /\ m <= a + MaxAttempts
    BY <1>1, <2>2 DEF IInv, Counted
  <2>4. UNCHANGED <<doc, calls, reqs, heard>>
    BY <1>3 DEF DeliverRecord
  <2>5. /\ cb'[k].attempts = (IF a > t.n THEN a ELSE t.n) /\ cb'[k].state = Outcome(t)
        /\ cb'[k].log = cb[k].log \cup {t.n} /\ cb'[k].max = m
    <3>1. cb'[k] = [cb[k] EXCEPT !.attempts = IF @ > t.n THEN @ ELSE t.n,
                                 !.state = Outcome(t), !.log = @ \cup {t.n}]
      BY <1>1, <1>3 DEF DeliverRecord, IInv, TypeOK
    <3> QED
      BY <2>1, <3>1 DEF Delivery
  <2>6. cb'[k].attempts = a + 1
    BY <2>1, <2>2, <2>5
  <2>7. \A j \in Key \ {k} : cb'[j] = cb[j]
    BY <1>1, <1>3 DEF DeliverRecord, IInv, TypeOK
  <2>8. ASSUME NEW j \in Key PROVE Counted(j)'
    <3>1. CASE j = k
      <4>1. cb'[k].log = 1..cb'[k].attempts
        BY <2>1, <2>2, <2>3, <2>5, <2>6
      <4>2. cb'[k].attempts <= cb'[k].max /\ cb'[k].max <= cb'[k].attempts + MaxAttempts
        BY <2>1, <2>3, <2>5, <2>6, CallbackAssumption
      <4>3. cb'[k].state = "pending" => cb'[k].attempts < cb'[k].max
        BY <1>1, <2>1, <2>2, <2>5, <2>6 DEF Outcome
      <4>4. cb'[k].state = "succeeded" => k \in heard'
        BY <2>4, <2>5 DEF Outcome, DeliverRecord, IInv, Answered
      <4>5. Calm /\ cb'[k].state = "failed" => cb'[k].attempts = cb'[k].max
        BY <1>1, <2>1, <2>2, <2>3, <2>5, <2>6 DEF Outcome
      <4> QED
        BY <3>1, <4>1, <4>2, <4>3, <4>4, <4>5 DEF Counted
    <3>2. CASE j # k
      BY <2>4, <2>7, <3>2 DEF IInv, Counted
    <3> QED
      BY <3>1, <3>2
  <2>9. tasks' \subseteq (tasks \ {t}) \cup {[t EXCEPT !.pc = "next"]}
    BY <1>3 DEF DeliverRecord, Goto, Ack
  <2>10. ASSUME NEW u \in tasks' PROVE InFlight(u)' /\ Answered(u)'
    <3>1. CASE u \in tasks /\ u.key = k
      <4>1. InFlight(u) /\ Answered(u) /\ u.n \in Nat
        BY <3>1 DEF IInv, TypeOK, Sending
      <4>2. u.pc \in {"send", "record"} =>
              1 <= u.n /\ u.n <= a + 1 /\ u.max <= u.n - 1 + MaxAttempts
        BY <1>3, <3>1, <4>1 DEF InFlight
      <4>3. u.pc \in {"send", "record"} => u.n <= cb'[k].attempts + 1 /\ u.n # cb'[k].attempts + 1
        BY <2>1, <2>6, <4>1, <4>2
      <4> QED
        BY <2>4, <3>1, <4>1, <4>2, <4>3 DEF InFlight, Answered
    <3>2. CASE u \in tasks /\ u.key # k
      <4>1. u.key \in Key
        BY <3>2 DEF IInv, TypeOK, Sending
      <4> QED
        BY <2>4, <2>7, <3>2, <4>1 DEF IInv, InFlight, Answered
    <3>3. CASE u = [t EXCEPT !.pc = "next"]
      BY <1>n, <3>3 DEF InFlight, Answered
    <3> QED
      BY <2>9, <3>1, <3>2, <3>3
  <2>11. Outcome(t) # "none"
    BY DEF Outcome
  <2>12. \A j \in Key : Gone(j) => Gone(j)'
    BY <2>4, <2>5, <2>7, <2>11 DEF Gone
  <2>13. Referred'
    BY <1>1, <1>n, <2>4, <2>9, <2>12 DEF IInv, Referred, TypeOK, Sending, Scheduling, Serving
  <2> QED
    BY <2>8, <2>10, <2>13 DEF IInv
<1> QED
  BY <1>2, <1>3

LEMMA DeliverKeeps ==
    ASSUME IInv, TypeOK', NEW t \in tasks, Deliver(t) \/ DeliverDies(t)
    PROVE  IInv'
<1>1. t \in Sending /\ t.key \in Key /\ Gone(t.key) /\ InFlight(t)
  BY DEF IInv, TypeOK, Sending, Referred
<1>2. CASE DeliverGet(t)
  <2> DEFINE u == [t EXCEPT !.pc = "send", !.n = cb[t.key].attempts + 1, !.max = cb[t.key].max]
  <2>1. u.key = t.key /\ u.pc = "send" /\ u.n = cb[t.key].attempts + 1 /\ u.max = cb[t.key].max
    BY <1>1 DEF Sending
  <2>2. cb[t.key].attempts \in Nat /\ cb[t.key].max \in Nat /\ Counted(t.key)
    BY <1>1, DeliveryFields DEF IInv
  <2>3. 1 <= u.n /\ u.n <= cb[t.key].attempts + 1 /\ u.max <= u.n - 1 + MaxAttempts
    BY <2>1, <2>2, CallbackAssumption DEF Counted
  <2>4. CASE Due(t)
    <3>1. InFlight(u)
      BY <2>1, <2>2, <2>3, <2>4 DEF InFlight, Due
    <3>2. tasks' = (tasks \ {t}) \cup {u}
      BY <1>2, <2>4 DEF DeliverGet, Goto
    <3> QED
      BY <1>1, <1>2, <2>1, <3>1, <3>2, Steady DEF DeliverGet
  <2>5. CASE ~Due(t)
    BY <1>2, <2>5, Steady DEF DeliverGet, Ack
  <2> QED
    BY <2>4, <2>5
<1>3. ASSUME NEW ok \in BOOLEAN, DeliverSend(t, ok) PROVE IInv'
  <2> DEFINE u == [t EXCEPT !.pc = "record", !.ok = ok]
  <2>1. u.key = t.key /\ u.pc = "record" /\ u.n = t.n /\ u.max = t.max /\ u.ok = ok
    BY <1>1 DEF Sending
  <2>2. t.pc = "send" /\ UNCHANGED <<doc, cb, calls, reqs>> /\ tasks' = (tasks \ {t}) \cup {u}
        /\ heard' = IF ok THEN heard \cup {t.key} ELSE heard
    BY <1>3 DEF DeliverSend, Goto
  <2>3. InFlight(u)
    BY <1>1, <2>1, <2>2 DEF InFlight
  <2>4. ASSUME NEW k \in Key PROVE Counted(k)'
    BY <2>2 DEF IInv, Counted
  <2>5. ASSUME NEW v \in tasks' PROVE InFlight(v)' /\ Answered(v)'
    <3>1. CASE v \in tasks
      BY <2>2, <3>1 DEF IInv, InFlight, Answered
    <3>2. CASE v = u
      BY <2>1, <2>2, <2>3, <3>2 DEF InFlight, Answered
    <3> QED
      BY <2>2, <3>1, <3>2
  <2>6. Referred'
    BY <1>1, <2>1, <2>2 DEF IInv, Referred, Gone
  <2> QED
    BY <2>4, <2>5, <2>6 DEF IInv
<1>4. CASE DeliverRecord(t)
  BY <1>4, RecordKeeps
<1>5. CASE DeliverNext(t)
  BY <1>1, <1>5, SteadyEnqueue DEF DeliverNext
<1>6. CASE DeliverDies(t)
  <2> DEFINE u == [Task(t.key, t.att, t.suffix) EXCEPT !.try = t.try + 1]
  <2>1. u.key = t.key /\ u.pc = "queued"
    BY DEF Task
  <2>2. InFlight(u)
    BY <2>1 DEF InFlight
  <2>3. tasks' \subseteq tasks \cup {u}
    BY <1>6 DEF DeliverDies, Goto, Ack
  <2> QED
    BY <1>1, <1>6, <2>1, <2>2, <2>3, Steady DEF DeliverDies
<1> QED
  BY <1>2, <1>3, <1>4, <1>5, <1>6 DEF Deliver

(* A retry allows MaxAttempts more attempts, from those recorded on: an    *)
(* attempt in flight is still within them.                                 *)
LEMMA RearmKeeps ==
    ASSUME IInv, TypeOK', NEW k \in Key, Rearm(k)
    PROVE  IInv'
<1> DEFINE a == cb[k].attempts
<1>1. a \in Nat /\ cb[k] \in Delivery /\ Counted(k)
  BY DeliveryFields DEF IInv
<1>2. cb' = [cb EXCEPT ![k].state = "pending", ![k].max = a + MaxAttempts]
      /\ UNCHANGED <<doc, calls, tasks, heard>> /\ doc.exists /\ cb[k].state # "none"
  BY DEF Rearm, Visible
<1>3. cb'[k] = [cb[k] EXCEPT !.state = "pending", !.max = a + MaxAttempts]
      /\ \A j \in Key \ {k} : cb'[j] = cb[j]
  BY <1>2 DEF IInv, TypeOK
<1>4. cb'[k].attempts = a /\ cb'[k].log = cb[k].log /\ cb'[k].state = "pending"
      /\ cb'[k].max = a + MaxAttempts
  BY <1>1, <1>3 DEF Delivery
<1>5. a <= a + MaxAttempts /\ a < a + MaxAttempts /\ a + MaxAttempts <= a + MaxAttempts
  BY <1>1, CallbackAssumption
<1>6. ASSUME NEW j \in Key PROVE Counted(j)'
  <2>1. CASE j = k
    BY <1>1, <1>4, <1>5, <2>1 DEF Counted
  <2>2. CASE j # k
    <3>1. Counted(j) /\ cb'[j] = cb[j] /\ heard' = heard
      BY <1>2, <1>3, <2>2 DEF IInv
    <3> QED
      BY <3>1 DEF Counted
  <2> QED
    BY <2>1, <2>2
<1>7. ASSUME NEW t \in tasks' PROVE InFlight(t)' /\ Answered(t)'
  <2>1. t \in tasks /\ InFlight(t) /\ Answered(t) /\ t.key \in Key /\ t.n \in Nat /\ t.max \in Nat
    BY <1>2 DEF IInv, TypeOK, Sending
  <2>2. CASE t.key = k
    <3>1. t.n = a + 1 => t.max <= a + MaxAttempts \/ t.pc \notin {"send", "record"}
      BY <1>1, <1>2, <2>1, <2>2, CallbackAssumption DEF InFlight
    <3>2. ~Calm
      BY <1>2, <2>1, <2>2 DEF Rearm
    <3> QED
      BY <1>2, <1>4, <2>1, <2>2, <3>1, <3>2 DEF InFlight, Answered
  <2>3. CASE t.key # k
    BY <1>2, <1>3, <2>1, <2>3 DEF InFlight, Answered
  <2> QED
    BY <2>2, <2>3
<1>8. reqs' = reqs \cup {Request("retry", k, a + 1)}
  BY DEF Rearm, Ask
<1>9. Request("retry", k, a + 1).key = k
  BY DEF Request
<1>10. \A j \in Key : Gone(j) => Gone(j)'
  BY <1>2, <1>3, <1>4 DEF Gone
<1>11. Gone(k)'
  BY <1>4 DEF Gone
<1>12. Referred'
  BY <1>2, <1>8, <1>9, <1>10, <1>11 DEF IInv, Referred, TypeOK, Sending, Scheduling, Serving
<1> QED
  BY <1>6, <1>7, <1>12 DEF IInv

LEMMA PurgeKeeps ==
    ASSUME IInv, TypeOK', Purge
    PROVE  IInv'
<1>1. cb' = [k \in Key |-> None] /\ UNCHANGED <<calls, tasks, reqs, heard>> /\ ~doc'.exists
  BY DEF Purge, IInv, TypeOK, Document
<1>2. None.state = "none" /\ None.attempts = 0 /\ None.max = 0 /\ None.log = {}
  BY DEF None
<1>3. 1..0 = {} /\ 0 <= 0 /\ 0 <= 0 + MaxAttempts
  BY CallbackAssumption
<1>4. ASSUME NEW k \in Key PROVE Counted(k)'
  BY <1>1, <1>2, <1>3 DEF Counted
<1>5. ASSUME NEW t \in tasks' PROVE InFlight(t)' /\ Answered(t)'
  BY <1>1, <1>2 DEF IInv, TypeOK, Sending, InFlight, Answered
<1>6. Referred'
  BY <1>1 DEF Referred, Gone
<1> QED
  BY <1>4, <1>5, <1>6 DEF IInv

LEMMA RequestKeeps ==
    ASSUME IInv, TypeOK', NEW r \in reqs, ServeStep(r) \/ RequestDies(r)
    PROVE  IInv'
<1>1. r \in Serving /\ r.key \in Key /\ doc \in Document
  BY DEF IInv, TypeOK, Serving
<1>2. CASE CancelWrite(r)
  <2>1. Call("cancel").pc # "enqueue"
    BY DEF Call
  <2>2. doc'.exists = doc.exists
    BY <1>1, <1>2 DEF CancelWrite, Document
  <2> QED
    BY <1>2, <2>1, <2>2, Steady DEF CancelWrite
<1>3. CASE PagesBump(r)
  <2>1. [r EXCEPT !.n = 1].op = "pages" /\ doc'.exists = doc.exists
    BY <1>1, <1>3 DEF PagesBump, Serving, Document
  <2> QED
    BY <1>3, <2>1, Steady DEF PagesBump
<1>4. CASE PagesParse(r)
  <2>1. doc'.exists = doc.exists
    BY <1>1, <1>4 DEF PagesParse, Document
  <2> QED
    BY <1>4, <2>1, Steady DEF PagesParse
<1>5. CASE RearmEnqueue(r)
  BY <1>1, <1>5, SteadyEnqueue DEF RearmEnqueue, IInv, Referred
<1>6. CASE RequestDies(r)
  BY <1>6, Steady DEF RequestDies
<1> QED
  BY <1>2, <1>3, <1>4, <1>5, <1>6 DEF ServeStep

LEMMA SafetyStep == IInv /\ [Next]_vars => IInv'
<1> SUFFICES ASSUME IInv, [Next]_vars PROVE IInv'
  OBVIOUS
<1>t. TypeOK' /\ doc \in Document
  BY TypeStep DEF IInv, TypeOK
<1>c. \A by : Call(by).pc # "enqueue"
  BY DEF Call
<1>r. \A op, k, n : Request(op, k, n).op = op
  BY DEF Request
<1>1. CASE UNCHANGED vars
  BY <1>1, <1>t, Steady DEF vars
<1>2. CASE FinishStep
  BY <1>2, <1>t, <1>c, Steady DEF FinishStep, Finish, Document
<1>3. CASE Hold
  BY <1>3, <1>t, Steady DEF Hold, Document
<1>4. ASSUME NEW c \in calls, ScheduleStep(c) \/ ScheduleDies(c) PROVE IInv'
  BY <1>4, <1>t, ScheduleKeeps
<1>5. ASSUME NEW t \in tasks, Deliver(t) \/ DeliverDies(t) PROVE IInv'
  BY <1>5, <1>t, DeliverKeeps
<1>6. CASE HkMissing
  BY <1>6, <1>t, <1>c, Steady DEF HkMissing
<1>7. ASSUME NEW k \in Key, NEW b \in 1..MaxHk, HkOverdue(k, b) PROVE IInv'
  BY <1>7, <1>t, SteadyEnqueue DEF HkOverdue, Gone
<1>8. CASE CancelCheck
  BY <1>8, <1>t, <1>r, Steady DEF CancelCheck, Ask
<1>9. CASE Reparse
  BY <1>9, <1>t, Steady DEF Reparse, Document
<1>10. CASE PagesCheck
  BY <1>10, <1>t, <1>r, Steady DEF PagesCheck, Ask
<1>11. CASE RetryMissing
  BY <1>11, <1>t, <1>c, Steady DEF RetryMissing
<1>12. CASE Delete
  BY <1>12, <1>t, Steady DEF Delete, Document
<1>13. CASE Purge
  BY <1>13, <1>t, PurgeKeeps
<1>14. ASSUME NEW k \in Key, Rearm(k) PROVE IInv'
  BY <1>14, <1>t, RearmKeeps
<1>15. ASSUME NEW r \in reqs, ServeStep(r) \/ RequestDies(r) PROVE IInv'
  BY <1>15, <1>t, RequestKeeps
<1> QED
  BY <1>1, <1>2, <1>3, <1>4, <1>5, <1>6, <1>7, <1>8, <1>9, <1>10, <1>11, <1>12, <1>13,
     <1>14, <1>15 DEF Next

LEMMA SafetyInit == Init => IInv
<1> SUFFICES ASSUME Init PROVE IInv
  OBVIOUS
<1>1. \A k \in Key : cb[k].state = "none" /\ cb[k].attempts = 0 /\ cb[k].max = 0 /\ cb[k].log = {}
  BY DEF Init, None
<1>2. 1..0 = {} /\ 0 <= 0 /\ 0 <= 0 + MaxAttempts
  BY CallbackAssumption
<1>3. \A k \in Key : Counted(k)
  BY <1>1, <1>2 DEF Counted
<1> QED
  BY <1>3, TypeInit DEF Init, IInv, Referred

LEMMA Safety == Spec => []IInv
BY SafetyInit, SafetyStep, PTL DEF Spec

(* Attempts are recorded once each, without a gap and within what the      *)
(* delivery was armed for, however tasks overlap, die and run again.       *)
THEOREM EveryAttemptCounts == Spec => []AttemptsAddUp
<1>1. IInv => AttemptsAddUp
  BY DEF IInv, Counted, AttemptsAddUp
<1> QED
  BY <1>1, Safety, PTL

(* When a retry waits until no attempt of its delivery is in flight (Calm) *)
(* the verdict of a delivery is that of its attempts.                      *)
THEOREM VerdictsAreRight == ASSUME Calm PROVE Spec => []VerdictRight
<1>1. IInv => VerdictRight
  BY DEF IInv, Counted, VerdictRight
<1> QED
  BY <1>1, Safety, PTL

(* Under the same assumption attempts and verdict tell what was done.      *)
THEOREM DeliveriesAreSound == ASSUME Calm PROVE Spec => []DeliveriesSound
<1>1. Spec => []AttemptsAddUp
  BY EveryAttemptCounts
<1>2. Spec => []VerdictRight
  BY VerdictsAreRight
<1>3. AttemptsAddUp /\ VerdictRight => DeliveriesSound
  BY DEF DeliveriesSound
<1> QED
  BY <1>1, <1>2, <1>3, PTL

(* Nothing but a retry touches a settled delivery, even if it races        *)
(* attempts in flight.                                                     *)
THEOREM SettledIsFinal == Spec => SettledStays
<1> DEFINE Stays(k) == cb[k].state \in Settled /\ cb'[k].state # cb[k].state /\ doc'.exists
                       => cb'[k].state = "pending" /\ cb'[k].max = cb[k].attempts + MaxAttempts
<1>1. ASSUME IInv, [Next]_vars, NEW k \in Key PROVE Stays(k)
  <2>0. cb \in [Key -> Delivery] /\ doc \in Document
    BY <1>1 DEF IInv, TypeOK
  <2>1. CASE cb' = cb
    BY <2>1
  <2>2. ASSUME NEW c \in calls, ScheduleCreate(c) PROVE Stays(k)
    BY <2>0, <2>2 DEF ScheduleCreate, Settled
  <2>3. ASSUME NEW t \in tasks, DeliverRecord(t) PROVE Stays(k)
    <3>1. CASE k = t.key /\ cb'[k] # cb[k]
      <4>1. cb[t.key].state = "pending"
        BY <1>1, <2>3, <3>1, NextAttempt DEF DeliverRecord
      <4> QED
        BY <3>1, <4>1 DEF Settled
    <3>2. CASE k # t.key
      BY <2>0, <2>3, <3>2 DEF DeliverRecord
    <3> QED
      BY <3>1, <3>2
  <2>4. ASSUME NEW j \in Key, Rearm(j) PROVE Stays(k)
    <3>1. CASE k = j
      <4>1. cb[k] \in Delivery
        BY <2>0
      <4>2. cb'[k] = [cb[k] EXCEPT !.state = "pending", !.max = cb[k].attempts + MaxAttempts]
        BY <2>0, <2>4, <3>1 DEF Rearm
      <4> QED
        BY <4>1, <4>2 DEF Delivery
    <3>2. CASE k # j
      BY <2>0, <2>4, <3>2 DEF Rearm
    <3> QED
      BY <3>1, <3>2
  <2>5. CASE Purge
    BY <2>0, <2>5 DEF Purge, Document
  <2>6. \/ cb' = cb \/ Purge
        \/ \E c \in calls : ScheduleCreate(c)
        \/ \E t \in tasks : DeliverRecord(t)
        \/ \E j \in Key : Rearm(j)
    BY <1>1 DEF Next, vars, FinishStep, Finish, Hold, ScheduleStep, ScheduleRead, ScheduleEnqueue,
       ScheduleDies, Deliver, DeliverGet, DeliverSend, DeliverNext, DeliverDies, HkMissing,
       HkOverdue, CancelCheck, Reparse, PagesCheck, RetryMissing, Delete, ServeStep, CancelWrite,
       PagesBump, PagesParse, RearmEnqueue, RequestDies
  <2> QED
    BY <2>1, <2>2, <2>3, <2>4, <2>5, <2>6
<1>2. IInv /\ [Next]_vars =>
        [\A k \in Key : cb[k].state \in Settled /\ cb'[k].state # cb[k].state /\ doc'.exists
           => cb'[k].state = "pending" /\ cb'[k].max = cb[k].attempts + MaxAttempts]_vars
  BY <1>1
<1> QED
  BY <1>2, Safety, PTL DEF Spec, SettledStays

-----------------------------------------------------------------------------
(* What a delivery tells.                                                  *)

Upto(k) == k[1] <= doc.gen /\ k[2] <= doc.run
Cancelling == \E r \in reqs : r.op = "cancel" /\ r.key[1] = doc.gen
Repaging == {r \in reqs : r.op = "pages" /\ r.key[1] = doc.gen}

(* A delivery of k, made or about to be, may tell of event: the current    *)
(* one only once the document has ended, and then what will stay true if a *)
(* cancellation or a page reparse is still to be written.                  *)
Tells(k, event) ==
    /\ Upto(k)
    /\ doc.exists /\ k = Current =>
          /\ doc.status \notin {"busy", "not_started"}
          /\ doc.status \in Event => event = doc.status
          /\ Cancelling => event = "cancelled"
          /\ \A r \in Repaging : r.n = 1 => doc.status \in {"cancelled", "deleting"}

(* The requests that write later than they looked, when they do not race   *)
(* what they disturb (Calm).                                               *)
ReqsCalm ==
    /\ \A r \in reqs : r.op \in {"cancel", "pages"} => r.key[1] <= doc.gen
    /\ Cancelling => doc.status \notin {"completed", "failed"}
    /\ \A q, r \in reqs : q.op = "pages" /\ r.op = "pages" => q = r
    /\ \A r \in Repaging : doc.status # "busy" /\ (calls = {} \/ doc.status \in {"cancelled", "deleting"})

EventInv ==
    /\ \A k \in Key : cb[k].state # "none" => Tells(k, cb[k].event)
    /\ \A c \in calls : c.pc = "create" => Tells(c.key, c.event)
    /\ ReqsCalm

LEMMA KeyType ==
    ASSUME TypeOK
    PROVE  /\ doc.gen \in Nat /\ doc.run \in Nat /\ doc.status \in Event \cup {"busy", "not_started", "deleting"}
           /\ \A k \in Key : k = <<k[1], k[2]>> /\ k[1] \in Nat /\ k[2] \in Nat
           /\ \A c \in calls : c.key \in Key
           /\ \A r \in reqs : r.key \in Key
<1>1. doc.gen \in Nat /\ doc.run \in Nat /\ doc.status \in Event \cup {"busy", "not_started", "deleting"}
  BY DEF TypeOK, Document
<1>2. \A k \in Key : k = <<k[1], k[2]>> /\ k[1] \in Nat /\ k[2] \in Nat
  BY DEF Key
<1>3. (\A c \in calls : c.key \in Key) /\ \A r \in reqs : r.key \in Key
  BY DEF TypeOK, Scheduling, Serving
<1> QED
  BY <1>1, <1>2, <1>3

(* Steps that leave the document and what they are to write to it alone.   *)
LEMMA EventSteady ==
    ASSUME TypeOK, EventInv, doc' = doc,
           \A k \in Key : cb'[k].state # "none" => cb[k].state # "none" /\ cb'[k].event = cb[k].event,
           \A c \in calls' : c \in calls \/ c.pc # "create",
           \A r \in reqs' : r \in reqs \/ r.op = "retry",
           calls' = {} \/ calls # {} \/ Repaging = {}
    PROVE  EventInv'
<1>1. /\ Cancelling' => Cancelling
      /\ \A r \in Repaging' : r \in Repaging
  BY DEF Cancelling, Repaging
<1>2. \A k, e : Tells(k, e) => Tells(k, e)'
  BY <1>1 DEF Tells, Upto, Current
<1>3. ReqsCalm'
  BY <1>1 DEF EventInv, ReqsCalm
<1> QED
  BY <1>2, <1>3 DEF EventInv

(* Steps of the document that begin a generation or a run: nothing tells   *)
(* of it yet.                                                              *)
LEMMA EventFresh ==
    ASSUME TypeOK, EventInv, UNCHANGED <<cb, calls>>,
           doc'.gen \in Nat, doc'.run \in Nat, doc.gen <= doc'.gen, doc.run <= doc'.run,
           Current' # Current, ReqsCalm'
    PROVE  EventInv'
<1>1. \A k \in Key : Upto(k) => Upto(k)' /\ k # Current'
  BY KeyType DEF Upto, Current
<1>2. \A k \in Key : \A e : Tells(k, e) => Tells(k, e)'
  BY <1>1 DEF Tells
<1> QED
  BY <1>2, KeyType DEF EventInv

(* Steps that change the status of the current generation and run, which   *)
(* nothing tells of yet.                                                   *)
LEMMA EventUntold ==
    ASSUME TypeOK, EventInv, UNCHANGED cb, Current' = Current,
           \A c \in calls' : c \in calls \/ c.pc # "create",
           doc'.exists => /\ cb[Current].state = "none"
                          /\ \A c \in calls : ~(c.pc = "create" /\ c.key = Current),
           ReqsCalm'
    PROVE  EventInv'
<1>1. doc'.gen = doc.gen /\ doc'.run = doc.run
  BY DEF Current
<1>2. ASSUME NEW k \in Key, NEW e, Tells(k, e), k # Current \/ ~doc'.exists PROVE Tells(k, e)'
  BY <1>1, <1>2 DEF Tells, Upto
<1> QED
  BY <1>2, KeyType DEF EventInv

LEMMA NothingTold ==
    ASSUME TypeOK, EventInv, doc.exists,
           doc.status \in {"busy", "not_started"} \/
             \E r \in Repaging : r.n = 1 /\ doc.status \notin {"cancelled", "deleting"}
    PROVE  cb[Current].state = "none" /\ \A c \in calls : ~(c.pc = "create" /\ c.key = Current)
BY CurrentType DEF TypeOK, EventInv, Tells

LEMMA EventSchedule ==
    ASSUME TypeOK, EventInv, NEW c \in calls, ScheduleStep(c) \/ ScheduleDies(c)
    PROVE  EventInv'
<1>1. c \in Scheduling /\ c.key \in Key /\ cb \in [Key -> Delivery]
  BY DEF TypeOK, Scheduling
<1>2. CASE ScheduleRead(c)
  <2> DEFINE d == [c EXCEPT !.pc = "create", !.key = Current, !.event = doc.status]
  <2>1. d.pc = "create" /\ d.key = Current /\ d.event = doc.status
    BY <1>1 DEF Scheduling
  <2>2. UNCHANGED <<doc, cb, reqs>> /\ calls' = (calls \ {c}) \cup IF Ended THEN {d} ELSE {}
    BY <1>2 DEF ScheduleRead
  <2> HIDE DEF d
  <2>3. \A k, e : Tells(k, e) => Tells(k, e)'
    BY <2>2 DEF Tells, Upto, Current, Cancelling, Repaging
  <2>4. ASSUME Ended PROVE Tells(Current, doc.status)
    <3>1. Cancelling => doc.status = "cancelled"
      BY <2>4 DEF EventInv, ReqsCalm, Ended, Event
    <3>2. \A r \in Repaging : doc.status \in {"cancelled", "deleting"}
      BY DEF EventInv, ReqsCalm
    <3> QED
      BY <2>4, <3>1, <3>2, KeyType DEF Tells, Upto, Current, Ended, Event
  <2>5. ReqsCalm'
    BY <2>2 DEF EventInv, ReqsCalm, Cancelling, Repaging
  <2> QED
    BY <2>1, <2>2, <2>3, <2>4, <2>5 DEF EventInv
<1>3. CASE ScheduleCreate(c) /\ doc.exists /\ cb[c.key].state = "none"
  <2>1. /\ c.pc = "create" /\ UNCHANGED <<doc, reqs>>
        /\ cb' = [cb EXCEPT ![c.key] = [None EXCEPT !.state = "pending", !.event = c.event, !.max = MaxAttempts]]
        /\ calls' = (calls \ {c}) \cup {[c EXCEPT !.pc = "enqueue"]}
    BY <1>3 DEF ScheduleCreate
  <2>2. cb'[c.key].event = c.event /\ \A k \in Key \ {c.key} : cb'[k] = cb[k]
    BY <1>1, <2>1 DEF None
  <2>3. \A k, e : Tells(k, e) => Tells(k, e)'
    BY <2>1 DEF Tells, Upto, Current, Cancelling, Repaging
  <2>4. [c EXCEPT !.pc = "enqueue"].pc = "enqueue"
    BY <1>1 DEF Scheduling
  <2>5. ReqsCalm'
    BY <2>1 DEF EventInv, ReqsCalm, Cancelling, Repaging
  <2> QED
    BY <2>1, <2>2, <2>3, <2>4, <2>5 DEF EventInv
<1>4. CASE ScheduleCreate(c) /\ ~(doc.exists /\ cb[c.key].state = "none")
  BY <1>4, EventSteady DEF ScheduleCreate
<1>5. CASE ScheduleEnqueue(c) \/ ScheduleDies(c)
  BY <1>5, EventSteady DEF ScheduleEnqueue, ScheduleDies
<1> QED
  BY <1>2, <1>3, <1>4, <1>5 DEF ScheduleStep

(* Deliveries, once made, tell what they told.                             *)
LEMMA EventDeliver ==
    ASSUME TypeOK, EventInv, NEW t \in tasks, Deliver(t) \/ DeliverDies(t)
    PROVE  EventInv'
<1>1. t.key \in Key /\ cb \in [Key -> Delivery]
  BY DEF TypeOK, Sending
<1>2. \A k \in Key : cb'[k].state # "none" => cb[k].state # "none" /\ cb'[k].event = cb[k].event
  <2>1. CASE cb' = cb
    BY <2>1
  <2>2. CASE DeliverRecord(t) /\ cb' # cb
    <3>1. cb' = [cb EXCEPT ![t.key].attempts = IF @ > t.n THEN @ ELSE t.n,
                           ![t.key].state = Outcome(t), ![t.key].log = @ \cup {t.n}] /\ cb[t.key].state # "none"
      BY <2>2 DEF DeliverRecord
    <3>2. cb'[t.key].event = cb[t.key].event
      BY <1>1, <3>1 DEF Delivery
    <3> QED
      BY <1>1, <3>1, <3>2
  <2> QED
    BY <2>1, <2>2 DEF Deliver, DeliverDies, DeliverGet, DeliverSend, DeliverNext
<1> QED
  BY <1>2, EventSteady DEF Deliver, DeliverDies, DeliverGet, DeliverSend, DeliverRecord, DeliverNext

LEMMA EventRequests ==
    ASSUME TypeOK, EventInv, Calm, NEW r \in reqs, ServeStep(r) \/ RequestDies(r)
    PROVE  EventInv'
<1>1. r \in Serving /\ r.key \in Key /\ doc \in Document
  BY DEF TypeOK, Serving
<1>2. CASE CancelWrite(r) /\ doc.exists /\ doc.gen = r.key[1]
  <2>1. /\ doc'.gen = doc.gen /\ doc'.run = doc.run /\ doc'.exists = doc.exists /\ doc'.status = "cancelled"
        /\ UNCHANGED cb /\ reqs' = reqs \ {r} /\ calls' = calls \cup {Call("cancel")}
    BY <1>1, <1>2 DEF CancelWrite, Document
  <2>2. Cancelling
    BY <1>2 DEF Cancelling, CancelWrite
  <2>3. ASSUME NEW k \in Key, NEW e, Tells(k, e) PROVE Tells(k, e)'
    BY <2>1, <2>2, <2>3 DEF Tells, Upto, Current, Event
  <2>4. Call("cancel").pc = "read"
    BY DEF Call
  <2>5. ReqsCalm'
    BY <2>1 DEF EventInv, ReqsCalm, Cancelling, Repaging
  <2> QED
    BY <2>1, <2>3, <2>4, <2>5, KeyType DEF EventInv
<1>3. CASE CancelWrite(r) /\ ~(doc.exists /\ doc.gen = r.key[1])
  BY <1>3, EventSteady DEF CancelWrite
<1>4. CASE PagesBump(r)
  <2> DEFINE q == [r EXCEPT !.n = 1]
  <2>1. /\ r.op = "pages" /\ reqs' = (reqs \ {r}) \cup {q} /\ q.op = "pages" /\ q.key = r.key /\ q.n = 1
        /\ UNCHANGED <<cb, calls>> /\ doc'.gen = doc.gen /\ doc'.exists = doc.exists /\ doc'.status = doc.status
        /\ doc'.run = IF doc.exists THEN doc.run + 1 ELSE doc.run
    BY <1>1, <1>4 DEF PagesBump, Serving, Document
  <2> HIDE DEF q
  <2>2. ReqsCalm'
    BY <2>1 DEF EventInv, ReqsCalm, Cancelling, Repaging
  <2>3. CASE doc.exists
    BY <2>1, <2>2, <2>3, KeyType, EventFresh DEF Current
  <2>4. CASE ~doc.exists
    <3>1. ASSUME NEW k \in Key, NEW e, Tells(k, e) PROVE Tells(k, e)'
      BY <2>1, <2>4, <3>1 DEF Tells, Upto
    <3> QED
      BY <2>1, <2>2, <3>1, KeyType DEF EventInv
  <2> QED
    BY <2>3, <2>4
<1>5. CASE PagesParse(r) /\ doc.exists /\ doc.gen = r.key[1] /\ doc.status \notin {"cancelled", "deleting"}
  <2>1. /\ doc'.gen = doc.gen /\ doc'.run = doc.run /\ doc'.exists = doc.exists /\ doc'.status = "busy"
        /\ UNCHANGED <<cb, calls>> /\ reqs' = reqs \ {r} /\ r.op = "pages" /\ r.n = 1
    BY <1>1, <1>5 DEF PagesParse, Document
  <2>2. r \in Repaging
    BY <1>5, <2>1 DEF Repaging
  <2>3. cb[Current].state = "none" /\ \A c \in calls : ~(c.pc = "create" /\ c.key = Current)
    BY <1>5, <2>1, <2>2, NothingTold
  <2>4. ReqsCalm'
    BY <2>1 DEF EventInv, ReqsCalm, Cancelling, Repaging
  <2>5. Current' = Current
    BY <2>1 DEF Current
  <2> QED
    BY <2>1, <2>3, <2>4, <2>5, EventUntold
<1>6. CASE PagesParse(r) /\ ~(doc.exists /\ doc.gen = r.key[1] /\ doc.status \notin {"cancelled", "deleting"})
  BY <1>6, EventSteady DEF PagesParse
<1>7. CASE RearmEnqueue(r) \/ RequestDies(r)
  BY <1>7, EventSteady DEF RearmEnqueue, RequestDies
<1> QED
  BY <1>2, <1>3, <1>4, <1>5, <1>6, <1>7 DEF ServeStep

LEMMA EventStep == ASSUME TypeOK, EventInv, Calm, [Next]_vars PROVE EventInv'
<1>t. doc \in Document /\ cb \in [Key -> Delivery]
  BY DEF TypeOK
<1>c. \A by : Call(by).pc = "read"
  BY DEF Call
<1>r. \A op, k, n : Request(op, k, n).op = op /\ Request(op, k, n).key = k /\ Request(op, k, n).n = n
  BY DEF Request
<1>p. NoPageRequest => Repaging = {}
  BY DEF NoPageRequest, Repaging
<1>1. CASE UNCHANGED vars
  BY <1>1, EventSteady DEF vars
<1>2. CASE FinishStep
  <2>1. /\ doc'.gen = doc.gen /\ doc'.run = doc.run /\ doc'.exists = doc.exists /\ doc.exists
        /\ doc'.status \in {"completed", "failed"} /\ doc.status = "busy"
        /\ UNCHANGED <<cb, reqs>> /\ \A r \in reqs : r.op # "cancel"
        /\ \A c \in calls' : c \in calls \/ c.pc # "create"
    BY <1>2, <1>t, <1>c DEF FinishStep, Finish, Document
  <2>2. Repaging = {}
    BY <2>1 DEF EventInv, ReqsCalm
  <2>3. ReqsCalm' /\ Current' = Current
    BY <2>1, <2>2 DEF EventInv, ReqsCalm, Cancelling, Repaging, Current
  <2> QED
    BY <2>1, <2>3, NothingTold, EventUntold
<1>3. CASE Hold
  <2>1. /\ doc'.gen = doc.gen /\ doc'.run = doc.run /\ doc.exists /\ doc.status = "busy" /\ doc'.status = "not_started"
        /\ UNCHANGED <<cb, reqs, calls>>
    BY <1>3, <1>t DEF Hold, Document
  <2>2. ReqsCalm' /\ Current' = Current
    BY <2>1 DEF EventInv, ReqsCalm, Cancelling, Repaging, Current
  <2> QED
    BY <2>1, <2>2, NothingTold, EventUntold
<1>4. ASSUME NEW c \in calls, ScheduleStep(c) \/ ScheduleDies(c) PROVE EventInv'
  BY <1>4, EventSchedule
<1>5. ASSUME NEW t \in tasks, Deliver(t) \/ DeliverDies(t) PROVE EventInv'
  BY <1>5, EventDeliver
<1>6. CASE HkMissing \/ RetryMissing
  BY <1>6, <1>c, <1>p, EventSteady DEF HkMissing, RetryMissing
<1>7. ASSUME NEW k \in Key, NEW b \in 1..MaxHk, HkOverdue(k, b) PROVE EventInv'
  BY <1>7, EventSteady DEF HkOverdue
<1>8. CASE CancelCheck \/ PagesCheck
  <2>1. PICK op \in {"cancel", "pages"} :
          /\ reqs' = reqs \cup {Request(op, Current, 0)} /\ UNCHANGED <<doc, cb, calls>>
          /\ op = "cancel" => doc.status = "busy"
          /\ op = "pages" => doc.status \in {"completed", "failed", "not_started"} /\ calls = {} /\ NoPageRequest
    BY <1>8 DEF CancelCheck, PagesCheck, Ask
  <2> DEFINE q == Request(op, Current, 0)
  <2>2. q.op = op /\ q.key[1] = doc.gen /\ q.n = 0
    BY <1>r DEF Current
  <2> HIDE DEF q
  <2>3. ReqsCalm'
    BY <2>1, <2>2, KeyType DEF EventInv, ReqsCalm, Cancelling, Repaging, NoPageRequest, q
  <2>4. ASSUME NEW k \in Key, NEW e, Tells(k, e) PROVE Tells(k, e)'
    BY <2>1, <2>2, <2>4 DEF Tells, Upto, Current, Cancelling, Repaging, q
  <2> QED
    BY <2>1, <2>3, <2>4, KeyType DEF EventInv
<1>9. CASE Reparse
  <2>1. doc'.gen = doc.gen + 1 /\ doc'.run = doc.run /\ UNCHANGED <<cb, calls, reqs>>
    BY <1>9, <1>t DEF Reparse, Document
  <2>2. Cancelling' = FALSE /\ Repaging' = {}
    BY <2>1, KeyType DEF EventInv, ReqsCalm, Cancelling, Repaging
  <2>3. ReqsCalm'
    BY <2>1, <2>2, KeyType DEF EventInv, ReqsCalm
  <2> QED
    BY <2>1, <2>3, KeyType, EventFresh DEF Current
<1>10. CASE Delete
  <2>1. /\ doc'.gen = doc.gen /\ doc'.run = doc.run /\ doc'.exists = doc.exists /\ doc'.status = "deleting"
        /\ UNCHANGED <<cb, calls, reqs>>
    BY <1>10, <1>t DEF Delete, Document
  <2>2. ASSUME NEW k \in Key, NEW e, Tells(k, e) PROVE Tells(k, e)'
    BY <2>1, <2>2 DEF Tells, Upto, Current, Cancelling, Repaging, Event
  <2>3. ReqsCalm'
    BY <2>1 DEF EventInv, ReqsCalm, Cancelling, Repaging
  <2> QED
    BY <2>1, <2>2, <2>3, KeyType DEF EventInv
<1>11. CASE Purge
  <2>1. /\ doc'.gen = doc.gen /\ doc'.run = doc.run /\ ~doc'.exists /\ doc'.status = doc.status
        /\ cb' = [k \in Key |-> None] /\ UNCHANGED <<calls, reqs>>
    BY <1>11, <1>t DEF Purge, Document
  <2>2. \A k \in Key : cb'[k].state = "none"
    BY <2>1 DEF None
  <2>3. ReqsCalm'
    BY <2>1 DEF EventInv, ReqsCalm, Cancelling, Repaging
  <2>4. \A k \in Key : \A e : Tells(k, e) => Tells(k, e)'
    BY <2>1 DEF Tells, Upto
  <2> QED
    BY <2>1, <2>2, <2>3, <2>4, KeyType DEF EventInv
<1>12. ASSUME NEW k \in Key, Rearm(k) PROVE EventInv'
  <2>1. /\ cb' = [cb EXCEPT ![k].state = "pending", ![k].max = cb[k].attempts + MaxAttempts] /\ cb[k].state # "none"
        /\ UNCHANGED <<doc, calls>> /\ \A r \in reqs' : r \in reqs \/ r.op = "retry"
    BY <1>12, <1>r DEF Rearm, Ask
  <2>2. cb'[k].event = cb[k].event /\ \A j \in Key \ {k} : cb'[j] = cb[j]
    BY <1>t, <2>1 DEF Delivery
  <2> QED
    BY <2>1, <2>2, EventSteady
<1>13. ASSUME NEW r \in reqs, ServeStep(r) \/ RequestDies(r) PROVE EventInv'
  BY <1>13, EventRequests
<1> QED
  BY <1>1, <1>2, <1>3, <1>4, <1>5, <1>6, <1>7, <1>8, <1>9, <1>10, <1>11, <1>12, <1>13 DEF Next

(* When requests do not race what they disturb (Calm), the delivery of the *)
(* current generation and run carries the status the document ended with:  *)
(* no delivery is made before the end it tells of, and none survives a     *)
(* status that follows (scheduleCallback, updateStatus).                   *)
THEOREM EventsAreTrue == ASSUME Calm PROVE Spec => []EventTrue
<1>1. Init => EventInv
  <2> SUFFICES ASSUME Init PROVE EventInv
    OBVIOUS
  <2>1. calls = {} /\ reqs = {} /\ \A k \in Key : cb[k].state = "none"
    BY DEF Init, None
  <2>2. Repaging = {} /\ ~Cancelling
    BY <2>1 DEF Repaging, Cancelling
  <2> QED
    BY <2>1, <2>2 DEF EventInv, ReqsCalm
<1>2. TypeOK /\ EventInv /\ [Next]_vars => EventInv'
  BY EventStep
<1>3. TypeOK /\ EventInv => EventTrue
  BY CurrentType DEF TypeOK, EventInv, Tells, EventTrue, Ended
<1> QED
  BY <1>1, <1>2, <1>3, TypeCorrect, PTL DEF Spec
=============================================================================
