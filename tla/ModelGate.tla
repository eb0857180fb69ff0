-------------------------------- MODULE ModelGate ------------------------------
(***************************************************************************)
(* The gate that keeps the two kinds of model calls of the OCR workers     *)
(* apart (internal/application/service/document/gate.go) and the page:ocr  *)
(* handler that passes it twice, first to read the page and then to        *)
(* classify it (pipeline.go, with classify.decision.serial).               *)
(*                                                                         *)
(* A step is what a goroutine does while it holds the gate's mutex.        *)
(***************************************************************************)
EXTENDS Integers, FiniteSets

CONSTANTS
    Worker,     \* the goroutines of the ocr queue
    MaxRetry    \* bound: readings, per worker, that fail and are tried again

ASSUME GateAssumption == IsFiniteSet(Worker) /\ MaxRetry \in Nat

VARIABLES
    kind,       \* modelGate.kind: of the calls that run, or ran last ("none" at first)
    calls,      \* modelGate.n: how many run
    at,         \* where each worker is
    failures    \* how many readings of each worker have failed

gateVars == <<kind, calls, at, failures>>

Kinds == {"ocr", "classify"}

(* Where a worker may be with a call of kind k: not yet at the gate, asking *)
(* for the mutex, in the condition variable's queue, or past enter.        *)
Place == [pc : {"out", "asks", "asleep", "in"}, k : Kinds]
Be(pc, k) == [pc |-> pc, k |-> k]
Idle == Be("out", "ocr")

Shut(k) == calls > 0 /\ kind # k

Goto(w, place) == at' = [at EXCEPT ![w] = place]

(* The worker takes the next page.                                         *)
TakePage(w) ==
    /\ at[w] = Idle
    /\ Goto(w, Be("asks", "ocr"))
    /\ UNCHANGED <<kind, calls, failures>>

Enter(w, k) ==
    /\ at[w] = Be("asks", k)
    /\ IF Shut(k) THEN Goto(w, Be("asleep", k)) /\ UNCHANGED <<kind, calls>>
                  ELSE Goto(w, Be("in", k)) /\ kind' = k /\ calls' = calls + 1
    /\ UNCHANGED failures

(* leave: the last one out wakes everyone, each to ask again.              *)
(* Mutant: nobody is woken.                                                *)
Woken_Never(place) == place
Woken(place) == IF place.pc = "asleep" THEN Be("asks", place.k) ELSE place

(* Mutant: one sleeper is woken, as Signal would do, not Broadcast.        *)
LeaveGate_Signal(w, place) ==
    LET moved == [at EXCEPT ![w] = place]
        sleepers == {v \in Worker : moved[v].pc = "asleep"}
        woken == {CHOOSE v \in sleepers : TRUE}
    IN  /\ calls' = calls - 1
        /\ at' = IF calls = 1 /\ sleepers # {}
                 THEN [v \in Worker |-> IF v \in woken THEN Woken(moved[v]) ELSE moved[v]]
                 ELSE moved
        /\ UNCHANGED kind

LeaveGate(w, place) ==
    LET moved == [at EXCEPT ![w] = place]
    IN  /\ calls' = calls - 1
        /\ at' = IF calls = 1 THEN [v \in Worker |-> Woken(moved[v])] ELSE moved
        /\ UNCHANGED kind

(* The engine has answered, or has failed for good: the page is classified *)
(* next, with or without its text.                                         *)
Read(w) ==
    /\ at[w] = Be("in", "ocr")
    /\ LeaveGate(w, Be("asks", "classify"))
    /\ UNCHANGED failures

(* The engine has failed and the task will be tried again.                 *)
ReadFails(w) ==
    /\ at[w] = Be("in", "ocr")
    /\ failures[w] < MaxRetry
    /\ LeaveGate(w, Idle)
    /\ failures' = [failures EXCEPT ![w] = @ + 1]

Classified(w) ==
    /\ at[w] = Be("in", "classify")
    /\ LeaveGate(w, Idle)
    /\ UNCHANGED failures

GateInit ==
    /\ kind = "none" /\ calls = 0
    /\ at = [w \in Worker |-> Idle]
    /\ failures = [w \in Worker |-> 0]

Answer(w) == Read(w) \/ ReadFails(w) \/ Classified(w)

GateNext == \E w \in Worker : TakePage(w) \/ Answer(w) \/ \E k \in Kinds : Enter(w, k)

GateSpec == GateInit /\ [][GateNext]_gateVars

(* A model call ends: both the engine and the classifier have a timeout.   *)
(* A goroutine that asks for the mutex gets it, and one that is woken each *)
(* time the gate opens is not overtaken for ever: to be, whole model calls *)
(* would have to fit between its wake-up and its lock, every time.  Pages  *)
(* come or do not.                                                         *)
Pass(w, k) == Enter(w, k) /\ ~Shut(k)

GateFairness ==
    \A w \in Worker :
        /\ WF_gateVars(Answer(w))
        /\ \A k \in Kinds : WF_gateVars(Enter(w, k)) /\ SF_gateVars(Pass(w, k))

GateFairSpec == GateSpec /\ GateFairness

-----------------------------------------------------------------------------
(* Properties.                                                             *)

In(k) == {w \in Worker : at[w] = Be("in", k)}
Asleep(w) == at[w].pc = "asleep"

TypeOK ==
    /\ kind \in Kinds \cup {"none"} /\ calls \in Nat
    /\ at \in [Worker -> Place]
    /\ failures \in [Worker -> 0..MaxRetry]

(* No page is classified while another is read, which is what the gate is  *)
(* for, and the counter that decides it counts the calls that run: a call  *)
(* that left twice, or not at all, would shut or open the gate for good.   *)
KindsApart ==
    /\ In("ocr") = {} \/ In("classify") = {}
    /\ calls = Cardinality(In("ocr") \cup In("classify"))

(* Nobody is left asleep in front of an open gate: whoever sleeps wants    *)
(* the other kind, and some call runs that will wake it.                   *)
NoSleeperForgotten == \A w \in Worker : Asleep(w) => Shut(at[w].k)

(* The gate is safe.                                                       *)
GateSafe == TypeOK /\ KindsApart /\ NoSleeperForgotten

(* The gate gives turns, though enter lets a call of the running kind pass *)
(* any that waits: every worker must ask for the other kind next, so the   *)
(* running kind drains (unless readings keep failing for ever).            *)
TakesTurns == \A w \in Worker, k \in Kinds : at[w] = Be("asleep", k) ~> at[w] = Be("in", k)
==============================================================================
