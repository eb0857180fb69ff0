-------------------------------- MODULE Turns ---------------------------------
(***************************************************************************)
(* The turns of one chat session (internal/agent): the messages clients    *)
(* send while a turn may be running, the registry that lets one turn run   *)
(* at a time, the inbox of the running turn, its calls of the model, and   *)
(* the follow-up turn for what the model never read.                       *)
(*                                                                         *)
(* A message runs as a turn once at most, so a turn is named by its        *)
(* message.  The session has one API process: the registry is in memory.   *)
(***************************************************************************)
EXTENDS Integers, Sequences, FiniteSets, SequencesExt

CONSTANTS
    Message,     \* the messages clients send, one request each
    Stops,       \* those that are short "stop" messages
    Leavers,     \* those whose client may go away
    Patient,     \* assumption: a client whose message is stored waits for its turn
    MaxCalls,    \* agent.max_steps: calls of the model in a turn
    Window,      \* how many messages of the session a turn loads (500)
    Faulty       \* what may fail: "persist", "setup", "model", "store"

ASSUME TurnAssumption ==
    /\ Stops \subseteq Message /\ Leavers \subseteq Message /\ Patient \in BOOLEAN
    /\ MaxCalls \in Nat \ {0} /\ Window \in Nat
    /\ Faulty \subseteq {"persist", "setup", "model", "store"}
    /\ Message \cap {"none", "tools"} = {}

VARIABLES
    log,      \* the session's stored messages, in the order of their seq
    runs,     \* runRegistry: the message whose turn is registered, or None
    turn,     \* the activeRun of each message
    req       \* what became of each message's request

vars == <<log, runs, turn, req>>

None == "none"
NoRun == [pc |-> None, inbox |-> <<>>, left |-> <<>>, placed |-> <<>>, closed |-> FALSE,
          cancelled |-> FALSE, interrupted |-> FALSE, err |-> FALSE,
          state |-> <<>>, sent |-> <<>>, calls |-> 0, stop |-> None]

ByUser(m) == [role |-> "user", of |-> m, read |-> {}, hist |-> 0, stop |-> None]
Stored(m) == \E i \in DOMAIN log : log[i] = ByUser(m)

(* The steps of a call of Run for message m.                               *)
At(m, pc) == req[m].pc = pc
To(m, pc) == req' = [req EXCEPT ![m].pc = pc, ![m].met = IF pc = "wait" THEN @ ELSE None]

-----------------------------------------------------------------------------
(* A call of Run: the request of a client, or a follow-up.                 *)

Send(m) ==
    /\ At(m, "idle") /\ To(m, "acquire")
    /\ UNCHANGED <<log, runs, turn>>

Free == runs = None

(* runRegistry.acquire: a turn of its own, or the one that runs.           *)
Acquire(m) ==
    /\ At(m, "acquire")
    /\ \/ /\ Free
          /\ runs' = m /\ turn' = [turn EXCEPT ![m] = [NoRun EXCEPT !.pc = "save"]]
          /\ To(m, "turn")
       \/ /\ ~Free
          /\ req' = [req EXCEPT ![m].met = runs,
                                ![m].pc = IF req[m].saved THEN "push"
                                          ELSE IF m \in Stops THEN "stop" ELSE "persist"]
          /\ UNCHANGED <<runs, turn>>
    /\ UNCHANGED log

Met(m) == turn[req[m].met]

(* activeRun.interrupt, then waitRun.                                      *)
Interrupt(m) ==
    /\ At(m, "stop") /\ To(m, "wait")
    /\ turn' = IF Met(m).pc = None THEN turn
               ELSE [turn EXCEPT ![req[m].met] = [@ EXCEPT !.interrupted = TRUE, !.cancelled = TRUE]]
    /\ UNCHANGED <<log, runs>>

Persist(m) ==
    /\ At(m, "persist")
    /\ \/ log' = Append(log, ByUser(m)) /\ req' = [req EXCEPT ![m].saved = TRUE, ![m].pc = "push"]
       \/ "persist" \in Faulty /\ To(m, "failed") /\ UNCHANGED log
    /\ UNCHANGED <<runs, turn>>

Open(r) == r.pc # None /\ ~r.closed

(* Mutant of Refuse: a refused message is stored once more by its own turn. *)
Refuse_Forget(m) == req' = [req EXCEPT ![m].pc = "wait", ![m].saved = FALSE]
Refuse(m) == To(m, "wait")

(* steerer.push: accepted, and the call returns; or refused by a turn that *)
(* reads its inbox no more, and the call waits for its end.                *)
Push(m) ==
    /\ At(m, "push")
    /\ \/ /\ Open(Met(m)) /\ To(m, "steered")
          /\ turn' = [turn EXCEPT ![req[m].met].inbox = Append(@, m)]
       \/ /\ ~Open(Met(m)) /\ Refuse(m)
          /\ UNCHANGED turn
    /\ UNCHANGED <<log, runs>>

Waited(m) ==
    /\ At(m, "wait") /\ Met(m).pc = None
    /\ To(m, "acquire")
    /\ UNCHANGED <<log, runs, turn>>

(* The request's context ends: while it waits it returns, while it runs    *)
(* the turn is cancelled.  A follow-up has no client.                      *)
Leave(m) ==
    /\ m \in Leavers /\ ~req[m].follows
    /\ \/ /\ At(m, "wait") /\ (Patient => ~req[m].saved)
          /\ To(m, "gone") /\ UNCHANGED turn
       \/ /\ At(m, "turn") /\ ~turn[m].cancelled
          /\ turn' = [turn EXCEPT ![m].cancelled = TRUE] /\ UNCHANGED req
    /\ UNCHANGED <<log, runs>>

CallStep(m) == Acquire(m) \/ Interrupt(m) \/ Persist(m) \/ Push(m) \/ Waited(m)

-----------------------------------------------------------------------------
(* runTurn.                                                                *)

In(m, pc) == turn[m].pc = pc
Becomes(m, r) == turn' = [turn EXCEPT ![m] = r] /\ UNCHANGED runs
Step(m, pc) == Becomes(m, [turn[m] EXCEPT !.pc = pc]) /\ UNCHANGED <<log, req>>

Save(m) ==
    /\ In(m, "save")
    /\ \/ req[m].saved /\ Step(m, "load")
       \/ /\ ~req[m].saved
          /\ log' = Append(log, ByUser(m))
          /\ Becomes(m, [turn[m] EXCEPT !.pc = "load"])
          /\ req' = [req EXCEPT ![m].saved = TRUE]
       \/ ~req[m].saved /\ "persist" \in Faulty /\ Step(m, "end")

(* The first Window messages (ListBySession: seq ascending, limit 500).    *)
Loaded == SubSeq(log, 1, Min({Window, Len(log)}))

Load(m) ==
    /\ In(m, "load")
    /\ \/ turn[m].cancelled /\ Step(m, "fail")
       \/ /\ ~turn[m].cancelled
          /\ Becomes(m, [turn[m] EXCEPT !.pc = "setup", !.state = [i \in DOMAIN Loaded |-> Loaded[i].of]])
          /\ UNCHANGED <<log, req>>

(* Tools, prompt and chat model of the turn, before its first call.        *)
SetupFails(m) ==
    /\ In(m, "setup") /\ (turn[m].cancelled \/ "setup" \in Faulty)
    /\ Step(m, "fail")

(* Mutant of Spliced: at the end of what every call is sent.               *)
Spliced_AtEnd(s, placed) == s \o [k \in DOMAIN placed |-> placed[k].msg]

(* The transcript with the messages that came in spliced in where the      *)
(* model first saw them (steerer.apply): the k-th of them after what there *)
(* was of the transcript then, and the k - 1 before it.                    *)
Spot(placed, k) == placed[k].at + k
Spliced(s, placed) ==
    [n \in 1..Len(s) + Len(placed) |->
        LET before == {k \in DOMAIN placed : Spot(placed, k) < n}
            here == {k \in DOMAIN placed : Spot(placed, k) = n}
        IN  IF here = {} THEN s[n - Cardinality(before)] ELSE placed[CHOOSE k \in here : TRUE].msg]

(* budgetModel.pick: the inbox is read before every call of the model.     *)
Call(m) ==
    /\ In(m, "setup") \/ In(m, "call")
    /\ LET r == turn[m]
           placed == r.placed \o [k \in DOMAIN r.inbox |-> [at |-> Len(r.state), msg |-> r.inbox[k]]]
       IN  \/ r.cancelled /\ Becomes(m, [r EXCEPT !.pc = "close", !.err = TRUE])
           \/ ~r.cancelled /\ Becomes(m, [r EXCEPT !.pc = "answer", !.calls = @ + 1, !.inbox = <<>>,
                                                  !.placed = placed, !.sent = Spliced(r.state, placed)])
    /\ UNCHANGED <<log, req>>

MayUseTools(m) == turn[m].calls < MaxCalls

(* The model answers, or uses tools, or the call fails.                    *)
Answer(m) ==
    /\ In(m, "answer")
    /\ LET r == turn[m] IN
       \/ Becomes(m, [r EXCEPT !.pc = "close"])
       \/ MayUseTools(m) /\ Becomes(m, [r EXCEPT !.pc = "call", !.state = Append(@, "tools")])
       \/ (r.cancelled \/ "model" \in Faulty) /\ Becomes(m, [r EXCEPT !.pc = "close", !.err = TRUE])
    /\ UNCHANGED <<log, req>>

Verdict(r) == IF ~r.err THEN "end_turn" ELSE IF r.interrupted THEN "interrupted" ELSE "error"

(* Mutant of Close: what was handed in too late is dropped.                *)
Close_Drop(m) ==
    /\ In(m, "close")
    /\ Becomes(m, [turn[m] EXCEPT !.pc = "store", !.closed = TRUE, !.inbox = <<>>, !.stop = Verdict(turn[m])])
    /\ UNCHANGED <<log, req>>

Close(m) ==
    /\ In(m, "close")
    /\ Becomes(m, [turn[m] EXCEPT !.pc = "store", !.closed = TRUE, !.left = turn[m].inbox, !.inbox = <<>>,
                                  !.stop = Verdict(turn[m])])
    /\ UNCHANGED <<log, req>>

Reply(m, stop) ==
    LET r == turn[m] IN
    [role |-> "assistant", of |-> m, read |-> Message \cap Range(r.sent),
     hist |-> Cardinality({i \in DOMAIN r.state : r.state[i] # "tools"}), stop |-> stop]

(* The reply is stored at the end of the turn, or once its setup failed;   *)
(* that it could not be stored is logged only.                             *)
Store(m) ==
    /\ In(m, "store") \/ In(m, "fail")
    /\ \/ /\ log' = Append(log, Reply(m, IF In(m, "fail") THEN "error" ELSE turn[m].stop))
          /\ Becomes(m, [turn[m] EXCEPT !.pc = "end"])
       \/ /\ "store" \in Faulty /\ UNCHANGED log
          /\ Becomes(m, [turn[m] EXCEPT !.pc = "end", !.stop = "lost"])
    /\ UNCHANGED req

Unregistered(m) == IF runs = m THEN None ELSE runs

(* The inbox is closed, at the latest, the turn leaves the registry        *)
(* (runRegistry.release), and a follow-up starts for the last message left *)
(* over (resume), which finds the others in its history.                   *)
Release(m) ==
    /\ In(m, "end")
    /\ runs' = Unregistered(m) /\ turn' = [turn EXCEPT ![m] = NoRun]
    /\ LET left == turn[m].left \o turn[m].inbox IN
       req' = [n \in Message |->
                 IF n = m THEN [req[n] EXCEPT !.pc = IF turn[m].stop = "lost" THEN "lost" ELSE "done"]
                 ELSE IF left # <<>> /\ n = Last(left)
                 THEN [req[n] EXCEPT !.pc = "acquire", !.follows = TRUE] ELSE req[n]]
    /\ UNCHANGED log

TurnStep(m) ==
    Save(m) \/ Load(m) \/ SetupFails(m) \/ Call(m) \/ Answer(m) \/ Close(m) \/ Store(m) \/ Release(m)

-----------------------------------------------------------------------------
Init ==
    /\ log = <<>> /\ runs = None /\ turn = [m \in Message |-> NoRun]
    /\ req = [m \in Message |-> [pc |-> "idle", met |-> None, saved |-> FALSE, follows |-> FALSE]]

Next == \E m \in Message : Send(m) \/ Leave(m) \/ CallStep(m) \/ TurnStep(m)

Spec == Init /\ [][Next]_vars

(* Goroutines run on; the model and the store answer or time out.          *)
Fairness == \A m \in Message : WF_vars(CallStep(m)) /\ WF_vars(TurnStep(m))

FairSpec == Spec /\ Fairness

-----------------------------------------------------------------------------
(* Properties.                                                             *)

Returned == {"steered", "done", "gone", "failed", "lost"}
Request == [pc : {"idle", "acquire", "stop", "persist", "push", "wait", "turn"} \cup Returned,
            met : Message \cup {None}, saved : BOOLEAN, follows : BOOLEAN]

(* Requests and turns stay in their types; a turn calls the model within   *)
(* its budget (budgetModel) and its request is the one that is in it.      *)
TypeOK ==
    /\ req \in [Message -> Request]
    /\ runs \in Message \cup {None}
    /\ \A m \in Message :
        /\ turn[m].calls \in 0..MaxCalls
        /\ turn[m].pc # None <=> At(m, "turn")
        /\ IsInjective(turn[m].inbox \o turn[m].left)
    /\ \A i \in DOMAIN log : log[i].stop \in {None, "end_turn", "interrupted", "error"}

(* However it is handed on, between its request, a running turn and        *)
(* follow-up turns, a message is stored once (RunInput.preSaved).          *)
StoredOnce ==
    \A i, j \in DOMAIN log : log[i].role = "user" /\ log[i] = log[j] => i = j

(* "Two turns on the same session used to run side by side: each loaded a  *)
(* history that lacked the other's messages" (runRegistry): a turn that    *)
(* reached the model had every earlier reply of the session in its history. *)
SeesEarlierReplies ==
    \A i, j \in DOMAIN log :
        i < j /\ log[i].role = "assistant" /\ log[j].role = "assistant" /\ log[j].read # {}
            => log[j].hist >= i

(* A turn that ended normally has read the message it is the answer to,    *)
(* whether it stored it itself or took over a stored one.                  *)
OwnMessageRead ==
    \A i \in DOMAIN log : log[i].stop = "end_turn" => log[i].of \in log[i].read

(* What the session stores of its turns is a conversation.                 *)
TranscriptSound == TypeOK /\ StoredOnce /\ SeesEarlierReplies /\ OwnMessageRead

(* A reply after the message that read it, or tells of a turn that failed  *)
(* or was interrupted.                                                     *)
HasReply(m) ==
    \E j \in DOMAIN log : \E i \in 1..j :
        /\ log[i] = ByUser(m)
        /\ m \in log[j].read \/ log[j].stop \in {"error", "interrupted"}

(* No stored message sits in the history unanswered until the user writes  *)
(* again (resume), unless a reply was lost to the store.                   *)
Answered == \A m \in Message : Stored(m) ~> HasReply(m) \/ \E n \in Message : At(n, "lost")

(* What the model is sent only grows within a turn: a message that came in *)
(* keeps its place in the transcript (placedMsg).                          *)
TranscriptGrows ==
    [][\A m \in Message : turn'[m].pc # None => IsPrefix(turn[m].sent, turn'[m].sent)]_vars

(* Every call returns, a follow-up's too, however turns follow each other. *)
RequestsEnd == \A m \in Message : At(m, "acquire") ~> req[m].pc \in Returned

(* Whoever writes is served: messages are answered and calls return.       *)
Served == Answered /\ RequestsEnd
=============================================================================
