------------------------------ MODULE TurnsProofs ------------------------------
(***************************************************************************)
(* For any clients, however many: a message is stored once however it is   *)
(* handed on, and what the model is sent only grows within a turn; and in  *)
(* a session that fits in a turn's window, a turn that reached the model   *)
(* had every earlier reply in its history and one that ended normally read *)
(* the message it answers.                                                 *)
(***************************************************************************)
EXTENDS Turns, FiniteSetTheorems, SequenceTheorems, WellFoundedInduction, TLAPS

Piece == Message \cup {"tools"}
PlacedMsg == [at : Nat, msg : Message]

-----------------------------------------------------------------------------
(* Numbers.                                                                *)

LEMMA Largest ==
    ASSUME NEW K \in Nat, NEW T \in SUBSET (1..K)
    PROVE  \E n \in 0..K : (n # 0 => n \in T) /\ \A m \in T : m <= n
<1>1. CASE T = {}
  BY <1>1
<1>2. CASE T # {}
  <2>1. PICK U : U = {K - m : m \in T}
    OBVIOUS
  <2>2. U \subseteq Nat /\ U # {}
    <3>1. \A m \in T : K - m \in Nat
      OBVIOUS
    <3> QED
      BY <1>2, <2>1, <3>1
  <2>3. PICK k \in U : \A u \in U : ~(<<u, k>> \in OpToRel(<, Nat))
    BY <2>2, NatLessThanWellFounded, WFMin
  <2>4. PICK n \in T : k = K - n
    BY <2>1
  <2>5. ASSUME NEW m \in T PROVE m <= n
    <3>1. ~(K - m < K - n) /\ K - m \in Nat
      BY <2>1, <2>2, <2>3, <2>4 DEF OpToRel
    <3> QED
      BY <3>1
  <2> QED
    BY <2>5
<1> QED
  BY <1>1, <1>2

-----------------------------------------------------------------------------
(* The transcript with the messages that came in (Spliced).                *)

(* The messages are placed in the order they came, in a transcript that    *)
(* has been that long.                                                     *)
InOrder(placed, len) ==
    \A k \in 1..Len(placed) : placed[k].at <= len /\ \A j \in 1..k : placed[j].at <= placed[k].at

LEMMA SpotsGrow ==
    ASSUME NEW placed \in Seq(PlacedMsg), NEW len, InOrder(placed, len)
    PROVE  /\ Len(placed) \in Nat /\ DOMAIN placed = 1..Len(placed)
           /\ \A k \in 1..Len(placed) : placed[k].at \in Nat /\ placed[k].msg \in Message /\ Spot(placed, k) \in Nat
           /\ \A k \in 1..Len(placed) : \A j \in 1..k : j # k => Spot(placed, j) < Spot(placed, k)
<1>1. \A k \in 1..Len(placed) : placed[k] \in PlacedMsg
  OBVIOUS
<1>2. \A k \in 1..Len(placed) : placed[k].at \in Nat /\ placed[k].msg \in Message
  BY <1>1 DEF PlacedMsg
<1>3. Len(placed) \in Nat
  OBVIOUS
<1>4. ASSUME NEW k \in 1..Len(placed), NEW j \in 1..k, j # k PROVE Spot(placed, j) < Spot(placed, k)
  <2>1. placed[j].at <= placed[k].at /\ placed[j].at \in Nat /\ placed[k].at \in Nat /\ j < k /\ j \in Int /\ k \in Int
    BY <1>2, <1>3, <1>4 DEF InOrder
  <2> QED
    BY <2>1 DEF Spot
<1>5. \A k \in 1..Len(placed) : Spot(placed, k) \in Nat
  BY <1>2, <1>3 DEF Spot
<1>6. DOMAIN placed = 1..Len(placed)
  OBVIOUS
<1> QED
  BY <1>2, <1>3, <1>4, <1>5, <1>6

(* Between the spots, K messages are before n and the others after it.     *)
Between(placed, K, n) ==
    /\ K \in 0..Len(placed)
    /\ \A k \in 1..K : Spot(placed, k) < n
    /\ \A k \in (K + 1)..Len(placed) : Spot(placed, k) > n

Kept(s, placed, n, K) == n - K \in 1..Len(s) /\ Spliced(s, placed)[n] = s[n - K]

LEMMA SplicedAt ==
    ASSUME NEW s \in Seq(Piece), NEW placed \in Seq(PlacedMsg), InOrder(placed, Len(s)),
           NEW n \in 1..(Len(s) + Len(placed))
    PROVE  \/ \E k \in 1..Len(placed) : Spot(placed, k) = n /\ Spliced(s, placed)[n] = placed[k].msg
           \/ \E K \in 0..Len(placed) : Between(placed, K, n) /\ Kept(s, placed, n, K)
<1> DEFINE L == Len(placed)
           before == {k \in DOMAIN placed : Spot(placed, k) < n}
           here == {k \in DOMAIN placed : Spot(placed, k) = n}
<1>1. /\ L \in Nat /\ DOMAIN placed = 1..L /\ Len(s) \in Nat
      /\ \A k \in 1..L : placed[k].at \in Nat /\ Spot(placed, k) \in Nat
      /\ \A k \in 1..L : \A j \in 1..k : j # k => Spot(placed, j) < Spot(placed, k)
  BY SpotsGrow
<1>2. Spliced(s, placed)[n] = IF here = {} THEN s[n - Cardinality(before)] ELSE placed[CHOOSE k \in here : TRUE].msg
  BY DEF Spliced
<1>3. CASE here # {}
  <2>1. (CHOOSE k \in here : TRUE) \in here
    BY <1>3
  <2> QED
    BY <1>1, <1>2, <1>3, <2>1
<1>4. CASE here = {}
  <2>1. PICK K \in 0..L : (K # 0 => K \in before) /\ \A k \in before : k <= K
    <3>1. before \in SUBSET (1..L)
      BY <1>1
    <3> HIDE DEF before
    <3> QED
      BY <1>1, <3>1, Largest
  <2>2. ASSUME NEW k \in 1..K PROVE Spot(placed, k) < n
    <3>1. K \in 1..L /\ Spot(placed, K) < n
      BY <1>1, <2>1, <2>2
    <3>2. k \in 1..L /\ k \in 1..K
      BY <1>1, <3>1
    <3>3. k # K => Spot(placed, k) < Spot(placed, K)
      BY <1>1, <3>1, <3>2
    <3> QED
      BY <1>1, <3>1, <3>2, <3>3
  <2>3. ASSUME NEW k \in (K + 1)..L PROVE Spot(placed, k) > n
    <3>1. k \in 1..L /\ ~(k <= K)
      BY <1>1, <2>1
    <3>2. ~(Spot(placed, k) < n) /\ Spot(placed, k) # n
      BY <1>1, <1>4, <2>1, <3>1
    <3> QED
      BY <1>1, <3>1, <3>2
  <2>4. before = 1..K
    <3>1. \A k \in before : k \in 1..K
      BY <1>1, <2>1
    <3>2. \A k \in 1..K : k \in before
      BY <1>1, <2>1, <2>2
    <3> QED
      BY <3>1, <3>2
  <2>5. Cardinality(before) = K
    <3>1. 1 \in Int /\ K \in Int /\ K >= 0
      BY <1>1, <2>1
    <3>2. Cardinality(1..K) = IF 1 > K THEN 0 ELSE K - 1 + 1
      BY ONLY <3>1, FS_Interval
    <3>3. Cardinality(1..K) = K
      BY <3>1, <3>2
    <3> HIDE DEF before
    <3> QED
      BY <2>4, <3>3
  <2>6. n - K >= 1
    <3>1. CASE K = 0
      BY <3>1
    <3>2. CASE K # 0
      <4>1. Spot(placed, K) < n /\ K \in 1..L
        BY <1>1, <2>1, <3>2
      <4>2. placed[K].at + K < n /\ placed[K].at \in Nat
        BY <1>1, <4>1 DEF Spot
      <4> QED
        BY <4>1, <4>2
    <3> QED
      BY <3>1, <3>2
  <2>7. n - K <= Len(s)
    <3>1. CASE K = L
      BY <1>1, <3>1
    <3>2. CASE K # L
      <4>1. K + 1 \in 1..L /\ Spot(placed, K + 1) > n
        BY <1>1, <2>3, <3>2
      <4>2. placed[K + 1].at + (K + 1) > n /\ placed[K + 1].at \in Nat /\ placed[K + 1].at <= Len(s)
        BY <1>1, <4>1 DEF Spot, InOrder
      <4> QED
        BY <1>1, <4>1, <4>2
    <3> QED
      BY <3>1, <3>2
  <2>8. Spliced(s, placed)[n] = s[n - K]
    BY <1>2, <1>4, <2>5
  <2> QED
    BY <1>1, <2>1, <2>2, <2>3, <2>6, <2>7, <2>8 DEF Between, Kept
<1> QED
  BY <1>3, <1>4

LEMMA SplicedType ==
    ASSUME NEW s \in Seq(Piece), NEW placed \in Seq(PlacedMsg), InOrder(placed, Len(s))
    PROVE  /\ Spliced(s, placed) \in Seq(Piece)
           /\ Len(Spliced(s, placed)) = Len(s) + Len(placed)
           /\ DOMAIN Spliced(s, placed) = 1..(Len(s) + Len(placed))
<1>1. Len(placed) \in Nat /\ Len(s) \in Nat /\ \A k \in 1..Len(placed) : placed[k].msg \in Message
  BY SpotsGrow
<1>2. \A i \in 1..Len(s) : s[i] \in Piece
  OBVIOUS
<1>3. ASSUME NEW n \in 1..(Len(s) + Len(placed)) PROVE Spliced(s, placed)[n] \in Piece
  <2>1. CASE \E k \in 1..Len(placed) : Spot(placed, k) = n /\ Spliced(s, placed)[n] = placed[k].msg
    BY <1>1, <2>1 DEF Piece
  <2>2. CASE \E K \in 0..Len(placed) : Between(placed, K, n) /\ Kept(s, placed, n, K)
    BY <1>2, <2>2 DEF Kept
  <2> QED
    BY <2>1, <2>2, SplicedAt
<1> DEFINE N == Len(s) + Len(placed)
           t == Spliced(s, placed)
<1>4. N \in Nat
  BY <1>1
<1>5. t = [n \in 1..N |-> t[n]]
  BY DEF Spliced
<1>6. \A n \in 1..N : t[n] \in Piece
  BY <1>3
<1> HIDE DEF N, t
<1>7. t \in [1..N -> Piece]
  BY <1>5, <1>6
<1>8. t \in Seq(Piece) /\ Len(t) = N /\ DOMAIN t = 1..N
  BY <1>4, <1>7
<1> QED
  BY <1>8 DEF N, t

(* Nothing of the transcript is lost in it.                                *)
LEMMA SplicedKeeps ==
    ASSUME NEW s \in Seq(Piece), NEW placed \in Seq(PlacedMsg), InOrder(placed, Len(s)), NEW i \in 1..Len(s)
    PROVE  s[i] \in Range(Spliced(s, placed))
<1> DEFINE L == Len(placed)
           before == {k \in 1..L : placed[k].at < i}
<1>1. /\ L \in Nat /\ Len(s) \in Nat
      /\ \A k \in 1..L : placed[k].at \in Nat /\ Spot(placed, k) = placed[k].at + k
  BY SpotsGrow DEF Spot
<1>2. PICK K \in 0..L : (K # 0 => K \in before) /\ \A k \in before : k <= K
  <2>1. before \in SUBSET (1..L)
    OBVIOUS
  <2> HIDE DEF before
  <2> QED
    BY <1>1, <2>1, Largest
<1>3. ASSUME NEW k \in 1..K PROVE Spot(placed, k) < i + K
  <2>1. K \in 1..L /\ placed[K].at < i /\ k \in 1..L
    BY <1>1, <1>2
  <2>2. placed[k].at <= placed[K].at
    BY <2>1 DEF InOrder
  <2> QED
    BY <1>1, <2>1, <2>2
<1>4. ASSUME NEW k \in (K + 1)..L PROVE Spot(placed, k) > i + K
  <2>1. k \in 1..L /\ k > K /\ ~(placed[k].at < i)
    BY <1>1, <1>2
  <2> QED
    BY <1>1, <2>1
<1>5. i + K \in 1..(Len(s) + L)
  BY <1>1
<1>6. ASSUME NEW k \in 1..L PROVE Spot(placed, k) # i + K
  <2>1. k \in 1..K \/ k \in (K + 1)..L
    BY <1>1
  <2> QED
    BY <1>1, <1>3, <1>4, <2>1
<1>7. PICK J \in 0..L : Between(placed, J, i + K) /\ Kept(s, placed, i + K, J)
  BY <1>5, <1>6, SplicedAt
<1>8. J = K
  <2>1. ~(J < K)
    <3>1. J < K => K \in (J + 1)..L /\ K \in 1..K
      BY <1>1
    <3> QED
      BY <1>1, <1>3, <1>7, <3>1 DEF Between
  <2>2. ~(K < J)
    <3>1. K < J => J \in (K + 1)..L /\ J \in 1..J
      BY <1>1
    <3> QED
      BY <1>1, <1>4, <1>7, <3>1 DEF Between
  <2> QED
    BY <1>1, <2>1, <2>2
<1>9. Spliced(s, placed)[i + K] = s[i]
  <2>1. (i + K) - K = i
    BY <1>1
  <2> QED
    BY <1>7, <1>8, <2>1 DEF Kept
<1> QED
  BY <1>5, <1>9, SplicedType DEF Range

(* What was sent stays where it is, whatever is added to the transcript    *)
(* and whatever comes in later.                                            *)
LEMMA SplicedStays ==
    ASSUME NEW s \in Seq(Piece), NEW placed \in Seq(PlacedMsg), InOrder(placed, Len(s)),
           NEW t \in Seq(Piece), NEW more \in Seq(PlacedMsg), InOrder(more, Len(t)),
           Len(s) <= Len(t), \A i \in 1..Len(s) : t[i] = s[i],
           Len(placed) <= Len(more), \A k \in 1..Len(placed) : more[k] = placed[k],
           \A k \in (Len(placed) + 1)..Len(more) : more[k].at >= Len(s),
           NEW n \in 1..(Len(s) + Len(placed))
    PROVE  Spliced(t, more)[n] = Spliced(s, placed)[n]
<1>0. Len(s) \in Nat /\ Len(t) \in Nat
  OBVIOUS
<1>1. /\ Len(placed) \in Nat /\ Len(more) \in Nat /\ Len(s) \in Nat /\ Len(t) \in Nat
      /\ \A k \in 1..Len(placed) : Spot(placed, k) \in Nat
      /\ \A k \in 1..Len(more) : more[k].at \in Nat /\ Spot(more, k) \in Nat /\ Spot(more, k) = more[k].at + k
      /\ \A k \in 1..Len(more) : \A j \in 1..k : j # k => Spot(more, j) < Spot(more, k)
  <2>1. /\ Len(placed) \in Nat
        /\ \A k \in 1..Len(placed) : Spot(placed, k) \in Nat
    BY SpotsGrow
  <2>2. /\ Len(more) \in Nat
        /\ \A k \in 1..Len(more) : more[k].at \in Nat /\ Spot(more, k) \in Nat
        /\ \A k \in 1..Len(more) : \A j \in 1..k : j # k => Spot(more, j) < Spot(more, k)
    BY SpotsGrow
  <2> QED
    BY <1>0, <2>1, <2>2 DEF Spot
<1>2. \A k \in 1..Len(placed) : k \in 1..Len(more) /\ Spot(more, k) = Spot(placed, k) /\ more[k].msg = placed[k].msg
  BY <1>1 DEF Spot
<1>3. ASSUME NEW k \in (Len(placed) + 1)..Len(more) PROVE Spot(more, k) > n
  <2>1. k \in 1..Len(more) /\ more[k].at >= Len(s) /\ k > Len(placed)
    BY <1>1
  <2> QED
    BY <1>1, <2>1
<1>4. n \in 1..(Len(t) + Len(more))
  BY <1>1
<1>5. CASE \E k \in 1..Len(placed) : Spot(placed, k) = n /\ Spliced(s, placed)[n] = placed[k].msg
  <2>1. PICK k \in 1..Len(placed) : Spot(placed, k) = n /\ Spliced(s, placed)[n] = placed[k].msg
    BY <1>5
  <2>2. k \in 1..Len(more) /\ Spot(more, k) = n /\ more[k].msg = placed[k].msg
    BY <1>2, <2>1
  <2>3. ~\E K \in 0..Len(more) : Between(more, K, n)
    <3> SUFFICES ASSUME NEW K \in 0..Len(more), Between(more, K, n) PROVE FALSE
      OBVIOUS
    <3>1. k \in 1..K \/ k \in (K + 1)..Len(more)
      BY <1>1, <2>2
    <3> QED
      BY <1>1, <2>2, <3>1 DEF Between
  <2>4. PICK j \in 1..Len(more) : Spot(more, j) = n /\ Spliced(t, more)[n] = more[j].msg
    BY <1>4, <2>3, SplicedAt
  <2>5. j = k
    <3>1. j \in 1..k \/ k \in 1..j
      BY <1>1, <2>2
    <3> QED
      BY <1>1, <2>2, <2>4, <3>1
  <2> QED
    BY <2>1, <2>2, <2>4, <2>5
<1>6. CASE \E K \in 0..Len(placed) : Between(placed, K, n) /\ Kept(s, placed, n, K)
  <2>1. PICK K \in 0..Len(placed) : Between(placed, K, n) /\ Kept(s, placed, n, K)
    BY <1>6
  <2>2. ASSUME NEW k \in 1..Len(more), k <= K PROVE Spot(more, k) < n
    <3>1. k \in 1..K /\ k \in 1..Len(placed)
      BY <1>1, <2>2
    <3> QED
      BY <1>2, <2>1, <3>1 DEF Between
  <2>3. ASSUME NEW k \in 1..Len(more), k > K PROVE Spot(more, k) > n
    <3>1. CASE k \in 1..Len(placed)
      <4>1. k \in (K + 1)..Len(placed)
        BY <1>1, <2>3, <3>1
      <4> QED
        BY <1>2, <2>1, <3>1, <4>1 DEF Between
    <3>2. CASE k \notin 1..Len(placed)
      BY <1>1, <1>3, <3>2
    <3> QED
      BY <3>1, <3>2
  <2>4. ~\E k \in 1..Len(more) : Spot(more, k) = n
    <3> SUFFICES ASSUME NEW k \in 1..Len(more), Spot(more, k) = n PROVE FALSE
      OBVIOUS
    <3>1. k <= K \/ k > K
      BY <1>1
    <3> QED
      BY <1>1, <2>2, <2>3, <3>1
  <2>5. PICK J \in 0..Len(more) : Between(more, J, n) /\ Kept(t, more, n, J)
    BY <1>4, <2>4, SplicedAt
  <2>6. J = K
    <3>1. ~(J < K)
      <4>1. J < K => K \in 1..Len(more) /\ K \in (J + 1)..Len(more)
        BY <1>1
      <4> QED
        BY <1>1, <2>2, <2>5, <4>1 DEF Between
    <3>2. ~(K < J)
      <4>1. K < J => J \in 1..Len(more) /\ J \in 1..J
        BY <1>1
      <4> QED
        BY <1>1, <2>3, <2>5, <4>1 DEF Between
    <3> QED
      BY <1>1, <3>1, <3>2
  <2> QED
    BY <2>1, <2>5, <2>6 DEF Kept
<1> QED
  BY <1>5, <1>6, SplicedAt

-----------------------------------------------------------------------------
(* The invariant.                                                          *)

Stop == {None, "end_turn", "interrupted", "error"}
Entry == [role : {"user", "assistant"}, of : Message, read : SUBSET Message, hist : Nat, stop : Stop]
RunRec == [pc : {None, "save", "load", "setup", "call", "answer", "close", "store", "fail", "end"},
           inbox : Seq(Message), left : Seq(Message), placed : Seq(PlacedMsg), closed : BOOLEAN,
           cancelled : BOOLEAN, interrupted : BOOLEAN, err : BOOLEAN,
           state : Seq(Piece), sent : Seq(Piece), calls : 0..MaxCalls, stop : Stop \cup {"lost"}]

Types ==
    /\ log \in Seq(Entry) /\ runs \in Message \cup {None}
    /\ turn \in [Message -> RunRec] /\ req \in [Message -> Request]

(* A turn that is not there is empty, one that never reached the model has *)
(* sent it nothing, and what a turn was handed in is in its inbox until it *)
(* is closed, and left over from then on.                                  *)
Life(r) ==
    /\ r.pc = None => r = NoRun
    /\ r.pc \in {"save", "load", "setup", "fail"} => r.sent = <<>> /\ r.placed = <<>>
    /\ r.pc \in {"save", "load", "setup"} => r.calls = 0
    /\ r.pc = "call" => r.calls < MaxCalls
    /\ r.closed => r.inbox = <<>>
    /\ r.left # <<>> => r.closed
    /\ r.stop = "lost" => r.pc = "end"
    /\ IsInjective(r.inbox) /\ IsInjective(r.left)

(* What was sent is how the transcript, as it is now, begins.              *)
Placing(r) ==
    /\ InOrder(r.placed, Len(r.state))
    /\ Len(r.sent) <= Len(r.state) + Len(r.placed)
    /\ \A n \in 1..Len(r.sent) : r.sent[n] = Spliced(r.state, r.placed)[n]

RunOK(r) == r \in RunRec /\ Life(r) /\ Placing(r)

(* The one turn there is is the registered one; past its first step its    *)
(* message is stored; and those it was handed have returned.               *)
Registered(m) ==
    /\ turn[m].pc # None <=> At(m, "turn")
    /\ turn[m].pc # None => runs = m
    /\ turn[m].pc \notin {None, "save", "end"} => req[m].saved
    /\ \A x \in Range(turn[m].inbox) \cup Range(turn[m].left) : At(x, "steered")

Asked(m) ==
    /\ req[m].pc \in {"stop", "persist", "push", "wait"} => req[m].met \in Message
    /\ req[m].pc \in {"idle", "persist"} => ~req[m].saved
    /\ req[m].saved => Stored(m)

Ended(m) == req[m].pc \in {"done", "lost"}

(* Each message has one entry of the user and one reply at most; its turn  *)
(* is over when the reply is there.                                        *)
LogOK ==
    /\ \A i \in DOMAIN log : log[i].role = "user" => log[i] = ByUser(log[i].of) /\ req[log[i].of].saved
    /\ \A i \in DOMAIN log : log[i].role = "assistant" => turn[log[i].of].pc = "end" \/ Ended(log[i].of)
    /\ \A i, j \in DOMAIN log : log[i].role = log[j].role /\ log[i].of = log[j].of => i = j

TurnsInv == Types /\ (\A m \in Message : RunOK(turn[m]) /\ Registered(m) /\ Asked(m)) /\ LogOK

LEMMA NoneIsNoMessage == None \notin Message /\ "tools" \notin Message
BY TurnAssumption DEF None

LEMMA NoRunOK ==
    /\ NoRun \in RunRec /\ RunOK(NoRun) /\ NoRun.pc = None /\ NoRun.inbox = <<>> /\ NoRun.left = <<>>
    /\ NoRun.sent = <<>> /\ NoRun.placed = <<>> /\ NoRun.calls = 0 /\ ~NoRun.closed /\ NoRun.stop = None
<1>1. NoRun \in RunRec
  BY TurnAssumption DEF NoRun, RunRec, None, Stop
<1>2. Life(NoRun)
  BY DEF Life, NoRun, None, IsInjective
<1>3. Placing(NoRun)
  BY DEF Placing, NoRun, InOrder
<1> QED
  BY <1>1, <1>2, <1>3 DEF RunOK, NoRun

LEMMA RunFields ==
    ASSUME NEW r \in RunRec
    PROVE  /\ r.pc \in {None, "save", "load", "setup", "call", "answer", "close", "store", "fail", "end"}
           /\ r.inbox \in Seq(Message) /\ r.left \in Seq(Message) /\ r.placed \in Seq(PlacedMsg)
           /\ r.closed \in BOOLEAN /\ r.cancelled \in BOOLEAN /\ r.interrupted \in BOOLEAN /\ r.err \in BOOLEAN
           /\ r.state \in Seq(Piece) /\ r.sent \in Seq(Piece) /\ r.calls \in 0..MaxCalls /\ r.stop \in Stop \cup {"lost"}
  BY DEF RunRec

LEMMA Alone ==
    ASSUME TurnsInv, NEW m \in Message, turn[m].pc # None
    PROVE  runs = m /\ At(m, "turn") /\ \A x \in Message \ {m} : turn[x] = NoRun /\ ~At(x, "turn")
<1>1. \A x \in Message : Registered(x) /\ RunOK(turn[x])
  BY DEF TurnsInv
<1>2. runs = m /\ At(m, "turn")
  BY <1>1 DEF Registered
<1>3. ASSUME NEW x \in Message \ {m} PROVE turn[x].pc = None
  BY <1>1, <1>2, <1>3 DEF Registered
<1>4. ASSUME NEW x \in Message \ {m} PROVE turn[x] = NoRun /\ ~At(x, "turn")
  BY <1>1, <1>3, <1>4 DEF Registered, RunOK, Life
<1> QED
  BY <1>2, <1>4

(* The replies' turns are over: none is of a turn that has not ended.      *)
LEMMA NoReplyYet ==
    ASSUME TurnsInv, NEW m \in Message, turn[m].pc # "end", ~Ended(m)
    PROVE  \A i \in DOMAIN log : ~(log[i].role = "assistant" /\ log[i].of = m)
BY DEF TurnsInv, LogOK

LEMMA EntryType ==
    ASSUME Types
    PROVE  /\ Len(log) \in Nat /\ DOMAIN log = 1..Len(log)
           /\ \A i \in DOMAIN log : /\ log[i] \in Entry /\ log[i].of \in Message /\ log[i].role \in {"user", "assistant"}
                                    /\ log[i].read \subseteq Message /\ log[i].hist \in Nat /\ log[i].stop \in Stop
<1>1. log \in Seq(Entry)
  BY DEF Types
<1>2. Len(log) \in Nat /\ DOMAIN log = 1..Len(log) /\ \A i \in 1..Len(log) : log[i] \in Entry
  BY <1>1
<1> QED
  BY <1>2 DEF Entry

LEMMA ByUserType ==
    ASSUME NEW m \in Message
    PROVE  /\ ByUser(m) \in Entry /\ ByUser(m).role = "user" /\ ByUser(m).of = m /\ ByUser(m).read = {}
           /\ ByUser(m).stop = None
BY DEF ByUser, Entry, Stop

-----------------------------------------------------------------------------
(* A step of the turn of m.                                                *)
LEMMA TurnMoves ==
    ASSUME TurnsInv, NEW m \in Message, turn[m].pc \notin {None, "end"},
           NEW r, RunOK(r), r.pc # None, turn' = [turn EXCEPT ![m] = r],
           r.pc \notin {"save", "end"} => req[m].saved,
           Range(r.inbox) \cup Range(r.left) \subseteq Range(turn[m].inbox) \cup Range(turn[m].left),
           UNCHANGED <<log, runs, req>>
    PROVE  TurnsInv'
<1>1. Types /\ r \in RunRec
  BY DEF TurnsInv, RunOK
<1>2. turn' \in [Message -> RunRec] /\ turn'[m] = r /\ \A x \in Message \ {m} : turn'[x] = turn[x]
  BY <1>1 DEF Types
<1>3. Types'
  BY <1>1, <1>2 DEF Types
<1>4. ASSUME NEW x \in Message PROVE RunOK(turn'[x])
  BY <1>2, <1>4 DEF TurnsInv
<1>5. ASSUME NEW x \in Message PROVE Registered(x)'
  <2>1. Registered(x)
    BY DEF TurnsInv
  <2>2. CASE x = m
    BY <1>2, <2>1, <2>2 DEF Registered, At
  <2>3. CASE x # m
    BY <1>2, <2>1, <2>3 DEF Registered, At
  <2> QED
    BY <2>2, <2>3
<1>6. ASSUME NEW x \in Message PROVE Asked(x)'
  BY DEF TurnsInv, Asked, Stored
<1>7. LogOK'
  <2>1. LogOK
    BY DEF TurnsInv
  <2>2. ~Ended(m)
    BY Alone DEF At, Ended
  <2>3. \A i \in DOMAIN log : log[i].role = "assistant" => log[i].of # m
    BY <2>2, NoReplyYet
  <2>4. \A i \in DOMAIN log : log[i].of \in Message
    BY <1>1, EntryType
  <2> QED
    BY <1>2, <2>1, <2>3, <2>4 DEF LogOK, Ended
<1> QED
  BY <1>3, <1>4, <1>5, <1>6, <1>7 DEF TurnsInv

(* A step of a request that is in no turn, or handed in, and of the turn   *)
(* it met.                                                                 *)
LEMMA CallerMoves ==
    ASSUME TurnsInv, NEW m \in Message,
           req' \in [Message -> Request], \A x \in Message \ {m} : req'[x] = req[x],
           req[m].pc \notin {"turn", "steered", "done", "lost"}, req'[m].pc # "turn",
           req'[m].saved = req[m].saved,
           req'[m].pc \in {"stop", "persist", "push", "wait"} => req'[m].met \in Message,
           req'[m].pc \in {"idle", "persist"} => ~req[m].saved,
           \A x \in Message : RunOK(turn'[x]) /\ turn'[x].pc = turn[x].pc,
           \A x \in Message : \A y \in Range(turn'[x].inbox) \cup Range(turn'[x].left) :
               y \in Range(turn[x].inbox) \cup Range(turn[x].left) \/ (y = m /\ req'[m].pc = "steered"),
           turn' \in [Message -> RunRec], UNCHANGED <<log, runs>>
    PROVE  TurnsInv'
<1>1. Types /\ Types'
  BY DEF TurnsInv, Types
<1>2. ASSUME NEW x \in Message PROVE Registered(x)'
  <2>1. Registered(x)
    BY DEF TurnsInv
  <2>2. ASSUME NEW y \in Range(turn'[x].inbox) \cup Range(turn'[x].left) PROVE req'[y].pc = "steered"
    <3>1. CASE y = m /\ req'[m].pc = "steered"
      BY <3>1
    <3>2. CASE y \in Range(turn[x].inbox) \cup Range(turn[x].left)
      <4>1. req[y].pc = "steered"
        BY <2>1, <3>2 DEF Registered, At
      <4>2. y \in Message
        <5>1. turn[x].inbox \in Seq(Message) /\ turn[x].left \in Seq(Message)
          BY <1>1, RunFields DEF Types
        <5>2. Range(turn[x].inbox) \subseteq Message /\ Range(turn[x].left) \subseteq Message
          BY <5>1 DEF Range
        <5> QED
          BY <3>2, <5>2
      <4> QED
        BY <4>1, <4>2
    <3> QED
      BY <2>2, <3>1, <3>2
  <2>3. (req'[x].pc = "turn" <=> req[x].pc = "turn") /\ req'[x].saved = req[x].saved
    OBVIOUS
  <2>4. turn'[x].pc = turn[x].pc
    OBVIOUS
  <2> QED
    BY <2>1, <2>2, <2>3, <2>4 DEF Registered, At
<1>3. ASSUME NEW x \in Message PROVE Asked(x)'
  <2>1. Asked(x)
    BY DEF TurnsInv
  <2>2. CASE x = m
    BY <2>1, <2>2 DEF Asked, Stored
  <2>3. CASE x # m
    BY <2>1, <2>3 DEF Asked, Stored
  <2> QED
    BY <2>2, <2>3
<1>4. LogOK'
  <2>1. LogOK
    BY DEF TurnsInv
  <2>2. \A x \in Message : req'[x].saved = req[x].saved /\ (Ended(x) => Ended(x)')
    BY DEF Ended
  <2>3. \A i \in DOMAIN log : log[i].of \in Message
    BY <1>1, EntryType
  <2> QED
    BY <2>1, <2>2, <2>3 DEF LogOK
<1> QED
  BY <1>1, <1>2, <1>3, <1>4 DEF TurnsInv

-----------------------------------------------------------------------------
(* The steps of a request.                                                 *)

LEMMA AsksFor ==
    ASSUME Types, NEW m \in Message, NEW pc, NEW q \in Request, q.pc = pc, To(m, pc)
    PROVE  /\ req' \in [Message -> Request] /\ \A x \in Message \ {m} : req'[x] = req[x]
           /\ req'[m].pc = pc /\ req'[m].saved = req[m].saved
           /\ req'[m].met = IF pc = "wait" THEN req[m].met ELSE None
<1>1. req[m] \in Request /\ req \in [Message -> Request]
  BY DEF Types
<1> DEFINE n == [req[m] EXCEPT !.pc = pc, !.met = IF pc = "wait" THEN req[m].met ELSE None]
<1>2. /\ n \in Request /\ n.pc = pc /\ n.saved = req[m].saved
      /\ n.met = IF pc = "wait" THEN req[m].met ELSE None
  BY <1>1 DEF Request
<1>3. req' = [req EXCEPT ![m] = n]
  BY <1>1 DEF To, Request
<1> HIDE DEF n
<1> QED
  BY <1>1, <1>2, <1>3

LEMMA PcsOfRequests ==
    ASSUME NEW m \in Message,
           NEW pc \in {"idle", "acquire", "stop", "persist", "push", "wait", "turn"} \cup Returned
    PROVE  \E q \in Request : q.pc = pc
<1> DEFINE q == [pc |-> pc, met |-> None, saved |-> TRUE, follows |-> TRUE]
<1>1. q \in Request /\ q.pc = pc
  BY DEF Request
<1> QED
  BY <1>1

LEMMA CallerOnly ==
    ASSUME TurnsInv, NEW m \in Message,
           req' \in [Message -> Request], \A x \in Message \ {m} : req'[x] = req[x],
           req[m].pc \notin {"turn", "steered", "done", "lost"}, req'[m].pc # "turn",
           req'[m].saved = req[m].saved,
           req'[m].pc \in {"stop", "persist", "push", "wait"} => req'[m].met \in Message,
           req'[m].pc \in {"idle", "persist"} => ~req[m].saved,
           UNCHANGED <<log, runs, turn>>
    PROVE  TurnsInv'
<1>1. turn' \in [Message -> RunRec] /\ \A x \in Message : RunOK(turn'[x]) /\ turn'[x] = turn[x]
  BY DEF TurnsInv, Types
<1> QED
  BY <1>1, CallerMoves

LEMMA CallerTo ==
    ASSUME TurnsInv, NEW m \in Message, NEW pc \in {"acquire", "wait"} \cup Returned, To(m, pc),
           req[m].pc \notin {"turn", "steered", "done", "lost"},
           pc = "wait" => req[m].met \in Message,
           UNCHANGED <<log, runs, turn>>
    PROVE  TurnsInv'
<1>1. Types
  BY DEF TurnsInv
<1>2. PICK q \in Request : q.pc = pc
  BY PcsOfRequests
<1>3. /\ req' \in [Message -> Request] /\ \A x \in Message \ {m} : req'[x] = req[x]
      /\ req'[m].pc = pc /\ req'[m].saved = req[m].saved
      /\ req'[m].met = IF pc = "wait" THEN req[m].met ELSE None
  BY <1>1, <1>2, AsksFor
<1> QED
  BY <1>3, CallerOnly DEF Returned

(* What a client or another request does to a turn.                        *)
LEMMA Marked ==
    ASSUME NEW r, RunOK(r), NEW to \in RunRec,
           to.pc = r.pc, to.inbox = r.inbox, to.left = r.left, to.placed = r.placed, to.state = r.state,
           to.sent = r.sent, to.calls = r.calls, to.closed = r.closed, to.stop = r.stop, r.pc # None
    PROVE  RunOK(to)
<1>1. Life(to)
  BY DEF RunOK, Life
<1>2. Placing(to)
  BY DEF RunOK, Placing
<1> QED
  BY <1>1, <1>2 DEF RunOK

LEMMA HandedIn ==
    ASSUME NEW r, RunOK(r), Open(r), NEW m \in Message, m \notin Range(r.inbox),
           NEW to, to = [r EXCEPT !.inbox = Append(r.inbox, m)]
    PROVE  RunOK(to) /\ to.pc = r.pc /\ Range(to.inbox) = Range(r.inbox) \cup {m} /\ to.left = r.left
<1>1. r \in RunRec /\ r.inbox \in Seq(Message) /\ r.pc # None /\ ~r.closed
  BY RunFields DEF RunOK, Open
<1>2. PICK s \in Seq(Message) : s = r.inbox
  BY <1>1
<1>3. Append(s, m) \in Seq(Message)
  BY <1>2
<1>4. /\ to \in RunRec /\ to.pc = r.pc /\ to.inbox = Append(s, m) /\ to.left = r.left /\ to.placed = r.placed
      /\ to.state = r.state /\ to.sent = r.sent /\ to.calls = r.calls /\ to.closed = r.closed /\ to.stop = r.stop
  BY <1>1, <1>2, <1>3 DEF RunRec
<1>5. /\ Len(s) \in Nat /\ DOMAIN s = 1..Len(s) /\ DOMAIN Append(s, m) = 1..(Len(s) + 1)
      /\ Append(s, m)[Len(s) + 1] = m /\ \A i \in 1..Len(s) : Append(s, m)[i] = s[i]
  OBVIOUS
<1>6. Range(Append(s, m)) = Range(s) \cup {m}
  <2>1. \A i \in 1..(Len(s) + 1) : i \in 1..Len(s) \/ i = Len(s) + 1
    BY <1>5
  <2>2. \A i \in 1..Len(s) : i \in 1..(Len(s) + 1)
    BY <1>5
  <2>3. Len(s) + 1 \in 1..(Len(s) + 1)
    BY <1>5
  <2> QED
    BY <1>5, <2>1, <2>2, <2>3 DEF Range
<1>7. IsInjective(Append(s, m))
  <2> SUFFICES ASSUME NEW a \in 1..(Len(s) + 1), NEW b \in 1..(Len(s) + 1), Append(s, m)[a] = Append(s, m)[b]
               PROVE  a = b
    BY <1>5 DEF IsInjective
  <2>1. \A i \in 1..Len(s) : s[i] # m
    BY <1>2, <1>5 DEF Range
  <2>2. \A i, j \in 1..Len(s) : s[i] = s[j] => i = j
    BY <1>2, <1>5 DEF RunOK, Life, IsInjective
  <2> QED
    BY <1>5, <2>1, <2>2
<1>8. Life(to)
  BY <1>1, <1>4, <1>7 DEF RunOK, Life
<1>9. Placing(to)
  BY <1>4 DEF RunOK, Placing
<1> QED
  BY <1>2, <1>4, <1>6, <1>8, <1>9 DEF RunOK

LEMMA AcquireKeeps ==
    ASSUME TurnsInv, NEW m \in Message, Acquire(m)
    PROVE  TurnsInv'
<1>1. Types /\ Asked(m) /\ req[m].pc = "acquire" /\ log' = log
  BY DEF TurnsInv, Acquire, At
<1>2. CASE ~Free
  <2>1. runs \in Message
    BY <1>1, <1>2 DEF Free, Types
  <2>2. req[m] \in Request /\ req \in [Message -> Request]
    BY <1>1 DEF Types
  <2> DEFINE pc == IF req[m].saved THEN "push" ELSE IF m \in Stops THEN "stop" ELSE "persist"
             n == [req[m] EXCEPT !.met = runs, !.pc = pc]
  <2>3. runs' = runs /\ turn' = turn /\ req' = [req EXCEPT ![m] = n]
    BY <1>2, <2>2 DEF Acquire, Request
  <2>4. n \in Request /\ n.pc = pc /\ n.met = runs /\ n.saved = req[m].saved
    BY <2>1, <2>2 DEF Request
  <2>5. pc \in {"push", "stop", "persist"} /\ (pc = "persist" => ~req[m].saved)
    OBVIOUS
  <2> HIDE DEF n, pc
  <2>6. req' \in [Message -> Request] /\ (\A x \in Message \ {m} : req'[x] = req[x]) /\ req'[m] = n
    BY <2>2, <2>3, <2>4
  <2>7. /\ req[m].pc \notin {"turn", "steered", "done", "lost"} /\ req'[m].pc # "turn"
        /\ req'[m].saved = req[m].saved /\ req'[m].met \in Message
        /\ req'[m].pc \in {"idle", "persist"} => ~req[m].saved
    BY <1>1, <2>1, <2>4, <2>5, <2>6
  <2> QED
    BY <1>1, <2>3, <2>6, <2>7, CallerOnly
<1>3. CASE Free
  <2> DEFINE r == [NoRun EXCEPT !.pc = "save"]
  <2>1. runs' = m /\ turn' = [turn EXCEPT ![m] = r] /\ To(m, "turn")
    BY <1>3 DEF Acquire
  <2>2. /\ r \in RunRec /\ r.pc = "save" /\ r.inbox = <<>> /\ r.left = <<>> /\ r.sent = <<>> /\ r.placed = <<>>
        /\ ~r.closed /\ r.stop = None /\ r.calls = 0
    BY NoRunOK DEF RunRec
  <2>3. Life(r)
    BY <2>2 DEF Life, None, IsInjective
  <2>4. Placing(r)
    BY DEF Placing, NoRun, InOrder
  <2> HIDE DEF r
  <2>5. RunOK(r)
    BY <2>2, <2>3, <2>4 DEF RunOK
  <2>6. turn' \in [Message -> RunRec] /\ turn'[m] = r /\ \A x \in Message \ {m} : turn'[x] = turn[x]
    BY <1>1, <2>1, <2>2 DEF Types
  <2>7. PICK q \in Request : q.pc = "turn"
    BY PcsOfRequests
  <2>8. /\ req' \in [Message -> Request] /\ \A x \in Message \ {m} : req'[x] = req[x]
        /\ req'[m].pc = "turn" /\ req'[m].saved = req[m].saved
    BY <1>1, <2>1, <2>7, AsksFor
  <2>9. \A x \in Message : turn[x].pc = None
    BY <1>3, NoneIsNoMessage DEF TurnsInv, Registered, Free
  <2>10. ASSUME NEW x \in Message PROVE Registered(x)'
    <3>1. CASE x = m
      BY <2>1, <2>2, <2>6, <2>8, <3>1 DEF Registered, At, Range, None
    <3>2. CASE x # m
      <4>1. turn'[x] = turn[x] /\ turn[x] = NoRun /\ turn[x].pc = None /\ req[x].pc # "turn" /\ req'[x] = req[x]
        BY <2>6, <2>8, <2>9, <3>2 DEF TurnsInv, RunOK, Life, Registered, At
      <4> QED
        BY <4>1, NoRunOK DEF Registered, At, Range
    <3> QED
      BY <3>1, <3>2
  <2>11. ASSUME NEW x \in Message PROVE Asked(x)'
    <3>1. Asked(x)
      BY DEF TurnsInv
    <3>2. CASE x = m
      BY <1>1, <2>8, <3>1, <3>2 DEF Asked, Stored
    <3>3. CASE x # m
      BY <1>1, <2>8, <3>1, <3>3 DEF Asked, Stored
    <3> QED
      BY <3>2, <3>3
  <2>12. LogOK'
    <3>1. LogOK
      BY DEF TurnsInv
    <3>2. \A i \in DOMAIN log : log[i].of \in Message
      BY <1>1, EntryType
    <3>3. \A x \in Message : req'[x].saved = req[x].saved /\ (Ended(x) => Ended(x)')
      BY <1>1, <2>8 DEF Ended
    <3> QED
      BY <1>1, <2>9, <3>1, <3>2, <3>3 DEF LogOK, None
  <2>13. Types'
    BY <1>1, <2>1, <2>6, <2>8 DEF Types
  <2>14. ASSUME NEW x \in Message PROVE RunOK(turn'[x])
    BY <2>5, <2>6 DEF TurnsInv
  <2> QED
    BY <2>10, <2>11, <2>12, <2>13, <2>14 DEF TurnsInv
<1> QED
  BY <1>2, <1>3

LEMMA InterruptKeeps ==
    ASSUME TurnsInv, NEW m \in Message, Interrupt(m)
    PROVE  TurnsInv'
<1>1. /\ Types /\ Asked(m) /\ req[m].pc = "stop" /\ req[m].met \in Message /\ To(m, "wait")
      /\ UNCHANGED <<log, runs>>
  BY DEF TurnsInv, Interrupt, At, Asked
<1>2. CASE Met(m).pc = None
  BY <1>1, <1>2, CallerTo DEF Interrupt
<1>3. CASE Met(m).pc # None
  <2> DEFINE k == req[m].met
             r == [turn[k] EXCEPT !.interrupted = TRUE, !.cancelled = TRUE]
  <2>1. turn' = [turn EXCEPT ![k] = r]
    BY <1>3 DEF Interrupt
  <2>2. RunOK(turn[k]) /\ turn[k] \in RunRec /\ turn[k].pc # None
    BY <1>1, <1>3 DEF TurnsInv, Met, RunOK
  <2>3. RunOK(r) /\ r.pc = turn[k].pc /\ r.inbox = turn[k].inbox /\ r.left = turn[k].left
    <3>1. /\ r \in RunRec /\ r.pc = turn[k].pc /\ r.inbox = turn[k].inbox /\ r.left = turn[k].left
          /\ r.placed = turn[k].placed /\ r.state = turn[k].state /\ r.sent = turn[k].sent
          /\ r.calls = turn[k].calls /\ r.closed = turn[k].closed /\ r.stop = turn[k].stop
      BY <2>2 DEF RunRec
    <3> HIDE DEF r
    <3> QED
      BY <2>2, <3>1, Marked
  <2> HIDE DEF r
  <2>4. turn' \in [Message -> RunRec] /\ turn'[k] = r /\ \A x \in Message \ {k} : turn'[x] = turn[x]
    BY <1>1, <2>1, <2>3 DEF Types, RunOK
  <2>5. \A x \in Message : /\ RunOK(turn'[x]) /\ turn'[x].pc = turn[x].pc
                           /\ turn'[x].inbox = turn[x].inbox /\ turn'[x].left = turn[x].left
    BY <2>3, <2>4 DEF TurnsInv
  <2>6. PICK q \in Request : q.pc = "wait"
    BY PcsOfRequests
  <2>7. /\ req' \in [Message -> Request] /\ \A x \in Message \ {m} : req'[x] = req[x]
        /\ req'[m].pc = "wait" /\ req'[m].saved = req[m].saved /\ req'[m].met = req[m].met
    BY <1>1, <2>6, AsksFor
  <2> QED
    BY <1>1, <2>4, <2>5, <2>7, CallerMoves
<1> QED
  BY <1>2, <1>3

LEMMA PushKeeps ==
    ASSUME TurnsInv, NEW m \in Message, Push(m)
    PROVE  TurnsInv'
<1>1. /\ Types /\ Asked(m) /\ req[m].pc = "push" /\ req[m].met \in Message /\ UNCHANGED <<log, runs>>
  BY DEF TurnsInv, Push, At, Asked
<1>2. CASE ~Open(Met(m))
  BY <1>1, <1>2, CallerTo DEF Push, Refuse
<1>3. CASE Open(Met(m))
  <2> DEFINE k == req[m].met
             r == [turn[k] EXCEPT !.inbox = Append(turn[k].inbox, m)]
  <2>1. turn' = [turn EXCEPT ![k] = r] /\ To(m, "steered")
    <3>1. turn[k] \in RunRec
      BY <1>1 DEF Types
    <3>2. turn' = [turn EXCEPT ![k].inbox = Append(@, m)] /\ To(m, "steered")
      BY <1>3 DEF Push
    <3> QED
      BY <1>1, <3>1, <3>2 DEF Types
  <2>2. RunOK(turn[k]) /\ Open(turn[k]) /\ turn[k].pc # None /\ Registered(k)
    BY <1>1, <1>3 DEF TurnsInv, Met, Open
  <2>3. m \notin Range(turn[k].inbox)
    BY <1>1, <2>2 DEF Registered, At
  <2>4. RunOK(r) /\ r.pc = turn[k].pc /\ Range(r.inbox) = Range(turn[k].inbox) \cup {m} /\ r.left = turn[k].left
    BY <2>2, <2>3, HandedIn
  <2> HIDE DEF r
  <2>5. turn' \in [Message -> RunRec] /\ turn'[k] = r /\ \A x \in Message \ {k} : turn'[x] = turn[x]
    BY <1>1, <2>1, <2>4 DEF Types, RunOK
  <2>6. \A x \in Message : RunOK(turn'[x]) /\ turn'[x].pc = turn[x].pc
    BY <2>4, <2>5 DEF TurnsInv
  <2>7. PICK q \in Request : q.pc = "steered"
    BY PcsOfRequests DEF Returned
  <2>8. /\ req' \in [Message -> Request] /\ \A x \in Message \ {m} : req'[x] = req[x]
        /\ req'[m].pc = "steered" /\ req'[m].saved = req[m].saved
    BY <1>1, <2>1, <2>7, AsksFor
  <2>9. ASSUME NEW x \in Message, NEW y \in Range(turn'[x].inbox) \cup Range(turn'[x].left)
        PROVE  y \in Range(turn[x].inbox) \cup Range(turn[x].left) \/ (y = m /\ req'[m].pc = "steered")
    BY <2>4, <2>5, <2>8, <2>9
  <2> QED
    BY <1>1, <2>5, <2>6, <2>8, <2>9, CallerMoves
<1> QED
  BY <1>2, <1>3

(* A message is stored, by its request or by its turn.                     *)
LEMMA StoringKeeps ==
    ASSUME TurnsInv, NEW m \in Message, ~req[m].saved, req[m].pc \in {"persist", "turn"},
           log' = Append(log, ByUser(m)), runs' = runs,
           req' \in [Message -> Request], \A x \in Message \ {m} : req'[x] = req[x],
           req'[m].saved, req'[m].pc = "push" \/ req'[m].pc = req[m].pc, req'[m].pc # "persist",
           req'[m].met = req[m].met, req'[m].pc = "turn" <=> req[m].pc = "turn",
           turn' \in [Message -> RunRec],
           \A x \in Message : /\ RunOK(turn'[x]) /\ turn'[x].inbox = turn[x].inbox /\ turn'[x].left = turn[x].left
                              /\ turn'[x].pc = turn[x].pc \/ (x = m /\ turn[x].pc # None /\ turn'[x].pc # None /\ turn[x].pc # "end")
    PROVE  TurnsInv'
<1>1. Types /\ LogOK
  BY DEF TurnsInv
<1>2. /\ ByUser(m) \in Entry /\ ByUser(m).role = "user" /\ ByUser(m).of = m
  BY ByUserType
<1>3. /\ log' \in Seq(Entry) /\ DOMAIN log = 1..Len(log) /\ Len(log) \in Nat /\ DOMAIN log' = 1..(Len(log) + 1)
      /\ log'[Len(log) + 1] = ByUser(m) /\ \A i \in 1..Len(log) : log'[i] = log[i]
  BY <1>1, <1>2 DEF Types
<1>4. \A i \in DOMAIN log' : i \in DOMAIN log \/ i = Len(log) + 1
  BY <1>3
<1>5. Types'
  BY <1>1, <1>3 DEF Types
<1>6. ASSUME NEW x \in Message PROVE Registered(x)'
  <2>1. Registered(x) /\ turn[x] \in RunRec
    BY <1>1 DEF TurnsInv, Types
  <2>2. /\ turn'[x].pc # None <=> turn[x].pc # None
        /\ req'[x].pc = "turn" <=> req[x].pc = "turn"
    BY <1>6
  <2>3. turn'[x].pc \notin {None, "save", "end"} => req'[x].saved
    BY <2>1 DEF Registered
  <2>4. \A y \in Message : req[y].pc = "steered" => req'[y].pc = "steered"
    OBVIOUS
  <2>5. Range(turn[x].inbox) \subseteq Message /\ Range(turn[x].left) \subseteq Message
    BY <2>1, RunFields DEF Range
  <2> QED
    BY <2>1, <2>2, <2>3, <2>4, <2>5 DEF Registered, At
<1>7. ASSUME NEW x \in Message PROVE Asked(x)'
  <2>1. Asked(x) /\ Asked(m)
    BY DEF TurnsInv
  <2>2. CASE x = m
    <3>1. Stored(m)'
      <4>1. Len(log) + 1 \in DOMAIN log'
        BY <1>3
      <4> QED
        BY <1>3, <4>1 DEF Stored, ByUser
    <3> QED
      BY <2>1, <2>2, <3>1 DEF Asked
  <2>3. CASE x # m
    <3>1. Stored(x) => Stored(x)'
      <4>1. \A i \in DOMAIN log : i \in DOMAIN log'
        BY <1>3
      <4> QED
        BY <1>3, <4>1 DEF Stored, ByUser
    <3> QED
      BY <2>1, <2>3, <3>1 DEF Asked
  <2> QED
    BY <2>2, <2>3
<1>8. LogOK'
  <2>1. \A i \in DOMAIN log : log[i].of \in Message /\ log'[i] = log[i]
    BY <1>1, <1>3, EntryType
  <2>2. ASSUME NEW i \in DOMAIN log', log'[i].role = "user" PROVE log'[i] = ByUser(log'[i].of) /\ req'[log'[i].of].saved
    <3>1. CASE i \in DOMAIN log
      BY <1>1, <2>1, <2>2, <3>1 DEF LogOK
    <3>2. CASE i = Len(log) + 1
      BY <1>2, <1>3, <3>2
    <3> QED
      BY <1>4, <3>1, <3>2
  <2>3. ASSUME NEW i \in DOMAIN log', log'[i].role = "assistant"
        PROVE  turn'[log'[i].of].pc = "end" \/ req'[log'[i].of].pc \in {"done", "lost"}
    <3>1. i \in DOMAIN log /\ log'[i] = log[i] /\ log[i].of \in Message
      BY <1>2, <1>3, <1>4, <2>1, <2>3
    <3>2. PICK x \in Message : x = log[i].of
      BY <3>1
    <3>3. turn[x].pc = "end" \/ req[x].pc \in {"done", "lost"}
      BY <1>1, <2>3, <3>1, <3>2 DEF LogOK, Ended
    <3>4. turn[x].pc = "end" => turn'[x].pc = "end"
      OBVIOUS
    <3>5. req[x].pc \in {"done", "lost"} => req'[x].pc \in {"done", "lost"}
      OBVIOUS
    <3> QED
      BY <3>1, <3>2, <3>3, <3>4, <3>5
  <2>4. ASSUME NEW i \in DOMAIN log', NEW j \in DOMAIN log', log'[i].role = log'[j].role, log'[i].of = log'[j].of
        PROVE  i = j
    <3>1. \A k \in DOMAIN log : ~(log[k].role = "user" /\ log[k].of = m)
      BY <1>1 DEF LogOK
    <3>2. CASE i \in DOMAIN log /\ j \in DOMAIN log
      BY <1>1, <2>1, <2>4, <3>2 DEF LogOK
    <3>3. CASE i = Len(log) + 1 /\ j \in DOMAIN log
      BY <1>2, <1>3, <2>1, <2>4, <3>1, <3>3
    <3>4. CASE i \in DOMAIN log /\ j = Len(log) + 1
      BY <1>2, <1>3, <2>1, <2>4, <3>1, <3>4
    <3> QED
      BY <1>4, <3>2, <3>3, <3>4
  <2> QED
    BY <2>2, <2>3, <2>4 DEF LogOK, Ended
<1>9. \A x \in Message : RunOK(turn'[x])
  OBVIOUS
<1> QED
  BY <1>5, <1>6, <1>7, <1>8, <1>9 DEF TurnsInv

LEMMA PersistKeeps ==
    ASSUME TurnsInv, NEW m \in Message, Persist(m)
    PROVE  TurnsInv'
<1>1. /\ Types /\ Asked(m) /\ req[m].pc = "persist" /\ ~req[m].saved /\ UNCHANGED <<runs, turn>>
  BY DEF TurnsInv, Persist, At, Asked
<1>2. CASE log' = log /\ To(m, "failed")
  BY <1>1, <1>2, CallerTo DEF Returned
<1>3. CASE log' = Append(log, ByUser(m)) /\ req' = [req EXCEPT ![m].saved = TRUE, ![m].pc = "push"]
  <2>1. req[m] \in Request /\ req \in [Message -> Request]
    BY <1>1 DEF Types
  <2> DEFINE n == [req[m] EXCEPT !.saved = TRUE, !.pc = "push"]
  <2>2. n \in Request /\ n.saved /\ n.pc = "push" /\ n.met = req[m].met
    BY <2>1 DEF Request
  <2>3. req' = [req EXCEPT ![m] = n]
    BY <1>3, <2>1 DEF Request
  <2> HIDE DEF n
  <2>4. req' \in [Message -> Request] /\ (\A x \in Message \ {m} : req'[x] = req[x]) /\ req'[m] = n
    BY <2>1, <2>2, <2>3
  <2>5. turn' \in [Message -> RunRec] /\ \A x \in Message : RunOK(turn'[x]) /\ turn'[x] = turn[x]
    BY <1>1 DEF TurnsInv, Types
  <2> QED
    BY <1>1, <1>3, <2>2, <2>4, <2>5, StoringKeeps
<1> QED
  BY <1>2, <1>3 DEF Persist

LEMMA LeaveKeeps ==
    ASSUME TurnsInv, NEW m \in Message, Leave(m)
    PROVE  TurnsInv'
<1>1. Types /\ UNCHANGED <<log, runs>>
  BY DEF TurnsInv, Leave
<1>2. CASE At(m, "wait") /\ To(m, "gone") /\ UNCHANGED turn
  BY <1>1, <1>2, CallerTo DEF Returned, At
<1>3. CASE At(m, "turn") /\ turn' = [turn EXCEPT ![m].cancelled = TRUE] /\ UNCHANGED req
  <2>1. turn[m] \in RunRec /\ RunOK(turn[m]) /\ turn[m].pc # None /\ Registered(m)
    BY <1>1, <1>3 DEF TurnsInv, Types, Registered
  <2> DEFINE r == [turn[m] EXCEPT !.cancelled = TRUE]
  <2>2. turn' = [turn EXCEPT ![m] = r]
    BY <1>3
  <2>4. RunOK(r) /\ r.pc = turn[m].pc /\ r.inbox = turn[m].inbox /\ r.left = turn[m].left
    <3>1. /\ r \in RunRec /\ r.pc = turn[m].pc /\ r.inbox = turn[m].inbox /\ r.left = turn[m].left
          /\ r.placed = turn[m].placed /\ r.state = turn[m].state /\ r.sent = turn[m].sent
          /\ r.calls = turn[m].calls /\ r.closed = turn[m].closed /\ r.stop = turn[m].stop
      BY <2>1 DEF RunRec
    <3> HIDE DEF r
    <3> QED
      BY <2>1, <3>1, Marked
  <2> HIDE DEF r
  <2>5. turn' \in [Message -> RunRec] /\ turn'[m] = r /\ \A x \in Message \ {m} : turn'[x] = turn[x]
    BY <1>1, <2>2, <2>4 DEF Types, RunOK
  <2>6. Types'
    BY <1>1, <1>3, <2>5 DEF Types
  <2>7. ASSUME NEW x \in Message PROVE RunOK(turn'[x]) /\ Registered(x)' /\ Asked(x)'
    <3>1. RunOK(turn[x]) /\ Registered(x) /\ Asked(x)
      BY DEF TurnsInv
    <3>2. turn'[x].pc = turn[x].pc /\ turn'[x].inbox = turn[x].inbox /\ turn'[x].left = turn[x].left /\ RunOK(turn'[x])
      BY <2>4, <2>5, <3>1
    <3>3. Registered(x)'
      BY <1>1, <1>3, <3>1, <3>2 DEF Registered, At
    <3>4. Asked(x)'
      BY <1>1, <1>3, <3>1 DEF Asked, Stored
    <3> QED
      BY <3>2, <3>3, <3>4
  <2>8. LogOK'
    <3>1. LogOK
      BY DEF TurnsInv
    <3>2. \A x \in Message : turn'[x].pc = turn[x].pc
      BY <2>4, <2>5
    <3>3. \A i \in DOMAIN log : log[i].of \in Message
      BY <1>1, EntryType
    <3> QED
      BY <1>1, <1>3, <3>1, <3>2, <3>3 DEF LogOK, Ended
  <2> QED
    BY <2>6, <2>7, <2>8 DEF TurnsInv
<1> QED
  BY <1>2, <1>3 DEF Leave

-----------------------------------------------------------------------------
(* The steps of a turn.                                                    *)

LEMMA SameTranscript ==
    ASSUME NEW r, RunOK(r), NEW to \in RunRec, to.placed = r.placed, to.state = r.state, to.sent = r.sent, Life(to)
    PROVE  RunOK(to)
BY DEF RunOK, Placing

(* The turn of m, where it is at pc.                                       *)
LEMMA TurnAt ==
    ASSUME TurnsInv, NEW m \in Message, NEW pc, In(m, pc), pc # None
    PROVE  /\ turn[m] \in RunRec /\ RunOK(turn[m]) /\ Life(turn[m]) /\ turn[m].pc = pc /\ Registered(m) /\ Asked(m)
           /\ Types /\ req[m].pc = "turn" /\ runs = m
BY DEF TurnsInv, Types, RunOK, Registered, At, In

(* A step after which the turn is at pc, and nothing else is changed.      *)
LEMMA PcMoves ==
    ASSUME TurnsInv, NEW m \in Message, turn[m].pc \notin {None, "end"}, NEW pc \in {"load", "fail", "end", "close"},
           pc = "load" => turn[m].pc = "save", pc = "fail" => turn[m].pc \in {"load", "setup"},
           pc # "end" => req[m].saved,
           turn' = [turn EXCEPT ![m] = [turn[m] EXCEPT !.pc = pc]], UNCHANGED <<log, runs, req>>
    PROVE  TurnsInv'
<1>1. turn[m] \in RunRec /\ RunOK(turn[m]) /\ Life(turn[m])
  BY DEF TurnsInv, Types, RunOK
<1> DEFINE to == [turn[m] EXCEPT !.pc = pc]
<1>2. /\ to \in RunRec /\ to.pc = pc /\ to.inbox = turn[m].inbox /\ to.left = turn[m].left
      /\ to.placed = turn[m].placed /\ to.state = turn[m].state /\ to.sent = turn[m].sent
      /\ to.calls = turn[m].calls /\ to.closed = turn[m].closed /\ to.stop = turn[m].stop
  BY <1>1 DEF RunRec
<1> HIDE DEF to
<1>3. Life(to)
  BY <1>1, <1>2 DEF Life, None
<1>4. RunOK(to)
  BY <1>1, <1>2, <1>3, SameTranscript
<1>5. to.pc # None /\ (to.pc \notin {"save", "end"} => req[m].saved)
      /\ Range(to.inbox) \cup Range(to.left) \subseteq Range(turn[m].inbox) \cup Range(turn[m].left)
  BY <1>2 DEF None
<1>6. turn' = [turn EXCEPT ![m] = to]
  BY DEF to
<1> QED
  BY <1>4, <1>5, <1>6, TurnMoves

LEMMA SaveKeeps ==
    ASSUME TurnsInv, NEW m \in Message, Save(m)
    PROVE  TurnsInv'
<1>1. In(m, "save") /\ turn[m].pc = "save" /\ "save" # None
  BY DEF Save, In, None
<1>2. /\ turn[m] \in RunRec /\ RunOK(turn[m]) /\ Life(turn[m]) /\ Types /\ Asked(m)
      /\ req[m].pc = "turn" /\ turn[m].pc \notin {None, "end"}
  BY <1>1, TurnAt DEF None
<1>3. CASE req[m].saved /\ Step(m, "load")
  BY <1>1, <1>2, <1>3, PcMoves DEF Step, Becomes
<1>4. CASE Step(m, "end")
  BY <1>1, <1>2, <1>4, PcMoves DEF Step, Becomes
<1>5. CASE /\ ~req[m].saved /\ log' = Append(log, ByUser(m))
           /\ Becomes(m, [turn[m] EXCEPT !.pc = "load"]) /\ req' = [req EXCEPT ![m].saved = TRUE]
  <2>1. req[m] \in Request /\ req \in [Message -> Request]
    BY <1>2 DEF Types
  <2> DEFINE n == [req[m] EXCEPT !.saved = TRUE]
             to == [turn[m] EXCEPT !.pc = "load"]
  <2>2. n \in Request /\ n.saved /\ n.pc = "turn" /\ n.met = req[m].met
    BY <1>2, <2>1 DEF Request
  <2>3. req' = [req EXCEPT ![m] = n] /\ turn' = [turn EXCEPT ![m] = to] /\ runs' = runs
    BY <1>5 DEF Becomes
  <2>4. /\ to \in RunRec /\ to.pc = "load" /\ to.inbox = turn[m].inbox /\ to.left = turn[m].left
        /\ to.placed = turn[m].placed /\ to.state = turn[m].state /\ to.sent = turn[m].sent
        /\ to.calls = turn[m].calls /\ to.closed = turn[m].closed /\ to.stop = turn[m].stop
    BY <1>2 DEF RunRec
  <2> HIDE DEF n, to
  <2>5. Life(to)
    BY <1>1, <1>2, <2>4 DEF Life, None
  <2>6. RunOK(to)
    BY <1>2, <2>4, <2>5, SameTranscript
  <2>7. req' \in [Message -> Request] /\ (\A x \in Message \ {m} : req'[x] = req[x]) /\ req'[m] = n
    BY <2>1, <2>2, <2>3
  <2>8. turn' \in [Message -> RunRec] /\ turn'[m] = to /\ \A x \in Message \ {m} : turn'[x] = turn[x]
    BY <1>2, <2>3, <2>4 DEF Types
  <2>9. \A x \in Message :
          /\ RunOK(turn'[x]) /\ turn'[x].inbox = turn[x].inbox /\ turn'[x].left = turn[x].left
          /\ turn'[x].pc = turn[x].pc \/ (x = m /\ turn[x].pc # None /\ turn'[x].pc # None /\ turn[x].pc # "end")
    BY <1>1, <2>4, <2>6, <2>8 DEF TurnsInv, None
  <2>10. /\ req'[m].saved /\ req'[m].pc = req[m].pc /\ req'[m].pc # "persist" /\ req'[m].met = req[m].met
         /\ req'[m].pc = "turn" <=> req[m].pc = "turn"
    BY <1>2, <2>2, <2>7
  <2>11. ~req[m].saved /\ req[m].pc \in {"persist", "turn"} /\ log' = Append(log, ByUser(m)) /\ runs' = runs
    BY <1>2, <1>5, <2>3
  <2> QED
    BY <2>7, <2>8, <2>9, <2>10, <2>11, StoringKeeps
<1> QED
  BY <1>3, <1>4, <1>5 DEF Save

(* What a turn loads: the first Window messages.                           *)
LEMMA LoadedType ==
    ASSUME Types
    PROVE  \E n \in 0..Len(log) :
             /\ n <= Window /\ (Len(log) <= Window => n = Len(log))
             /\ DOMAIN Loaded = 1..n /\ \A i \in 1..n : Loaded[i] = log[i]
             /\ [i \in DOMAIN Loaded |-> Loaded[i].of] \in Seq(Message)
             /\ Len([i \in DOMAIN Loaded |-> Loaded[i].of]) = n
<1>1. Len(log) \in Nat /\ log \in Seq(Entry) /\ \A i \in 1..Len(log) : log[i] \in Entry /\ log[i].of \in Message
  BY EntryType DEF Types
<1> DEFINE n == Min({Window, Len(log)})
<1>2. n \in {Window, Len(log)} /\ n <= Window /\ n <= Len(log)
  <2>1. Window \in Nat
    BY TurnAssumption
  <2>2. \E x \in {Window, Len(log)} : \A y \in {Window, Len(log)} : x =< y
    BY <1>1, <2>1
  <2> QED
    BY <2>2 DEF Min
<1>3. n \in 0..Len(log) /\ (Len(log) <= Window => n = Len(log))
  BY <1>1, <1>2, TurnAssumption
<1>4. Loaded = SubSeq(log, 1, n)
  BY DEF Loaded
<1> HIDE DEF n
<1>5. DOMAIN Loaded = 1..n /\ \A i \in 1..n : Loaded[i] = log[i]
  BY <1>1, <1>3, <1>4
<1> DEFINE s == [i \in DOMAIN Loaded |-> Loaded[i].of]
<1>6. s \in [1..n -> Message]
  <2>1. \A i \in 1..n : Loaded[i].of \in Message
    BY <1>1, <1>3, <1>5
  <2> QED
    BY <1>5, <2>1
<1> HIDE DEF s
<1>7. s \in Seq(Message) /\ Len(s) = n
  BY <1>1, <1>3, <1>6
<1> QED
  BY <1>2, <1>3, <1>5, <1>7 DEF s

LEMMA NothingPlaced ==
    ASSUME NEW r \in RunRec, r.placed = <<>>, r.sent = <<>>
    PROVE  Placing(r)
<1>1. Len(r.state) \in Nat
  BY RunFields
<1>2. Len(r.placed) = 0 /\ Len(r.sent) = 0
  OBVIOUS
<1>3. 1..0 = {}
  OBVIOUS
<1> QED
  BY <1>1, <1>2, <1>3 DEF Placing, InOrder

LEMMA LoadKeeps ==
    ASSUME TurnsInv, NEW m \in Message, Load(m)
    PROVE  TurnsInv'
<1>1. In(m, "load") /\ turn[m].pc = "load" /\ "load" # None
  BY DEF Load, In, None
<1>2. /\ turn[m] \in RunRec /\ RunOK(turn[m]) /\ Life(turn[m]) /\ Types /\ Registered(m) /\ req[m].saved
      /\ turn[m].pc \notin {None, "end"}
  BY <1>1, TurnAt DEF None, Registered
<1>3. CASE Step(m, "fail")
  BY <1>1, <1>2, <1>3, PcMoves DEF Step, Becomes
<1>4. CASE ~turn[m].cancelled
  <2> DEFINE s == [i \in DOMAIN Loaded |-> Loaded[i].of]
  <2>1. s \in Seq(Message)
    BY <1>2, LoadedType
  <2>2. s \in Seq(Piece)
    BY <2>1 DEF Piece
  <2> HIDE DEF s
  <2> DEFINE to == [turn[m] EXCEPT !.pc = "setup", !.state = s]
  <2>3. turn' = [turn EXCEPT ![m] = to] /\ UNCHANGED <<log, runs, req>>
    BY <1>4 DEF Load, Step, Becomes, s
  <2>4. /\ to \in RunRec /\ to.pc = "setup" /\ to.inbox = turn[m].inbox /\ to.left = turn[m].left
        /\ to.placed = turn[m].placed /\ to.sent = turn[m].sent
        /\ to.calls = turn[m].calls /\ to.closed = turn[m].closed /\ to.stop = turn[m].stop
    BY <1>2, <2>2 DEF RunRec
  <2> HIDE DEF to
  <2>5. Life(to) /\ to.placed = <<>> /\ to.sent = <<>>
    BY <1>1, <1>2, <2>4 DEF Life, None
  <2>6. RunOK(to)
    BY <2>4, <2>5, NothingPlaced DEF RunOK
  <2>7. to.pc # None /\ Range(to.inbox) \cup Range(to.left) \subseteq Range(turn[m].inbox) \cup Range(turn[m].left)
    BY <2>4 DEF None
  <2> QED
    BY <1>2, <2>3, <2>6, <2>7, TurnMoves
<1> QED
  BY <1>3, <1>4 DEF Load

LEMMA SetupFailsKeeps ==
    ASSUME TurnsInv, NEW m \in Message, SetupFails(m)
    PROVE  TurnsInv'
<1>1. In(m, "setup") /\ turn[m].pc = "setup" /\ Step(m, "fail") /\ "setup" # None
  BY DEF SetupFails, In, None
<1>2. turn[m].pc \notin {None, "end"} /\ req[m].saved
  BY <1>1, TurnAt DEF None, Registered
<1> QED
  BY <1>1, <1>2, PcMoves DEF Step, Becomes

(* The messages of the inbox are placed at the end of the transcript.      *)
PlacedNow(r) == r.placed \o [k \in DOMAIN r.inbox |-> [at |-> Len(r.state), msg |-> r.inbox[k]]]

LEMMA PlacedNowType ==
    ASSUME NEW r, RunOK(r)
    PROVE  /\ PlacedNow(r) \in Seq(PlacedMsg) /\ Len(PlacedNow(r)) \in Nat /\ Len(r.placed) <= Len(PlacedNow(r))
           /\ \A k \in 1..Len(r.placed) : PlacedNow(r)[k] = r.placed[k]
           /\ \A k \in (Len(r.placed) + 1)..Len(PlacedNow(r)) : PlacedNow(r)[k].at = Len(r.state)
           /\ InOrder(PlacedNow(r), Len(r.state))
<1>1. r.placed \in Seq(PlacedMsg) /\ r.inbox \in Seq(Message) /\ r.state \in Seq(Piece) /\ InOrder(r.placed, Len(r.state))
  BY RunFields DEF RunOK, Placing
<1> DEFINE a == r.placed
           L == Len(r.state)
           b == [k \in DOMAIN r.inbox |-> [at |-> L, msg |-> r.inbox[k]]]
           c == a \o b
<1>2. L \in Nat /\ Len(r.inbox) \in Nat /\ DOMAIN r.inbox = 1..Len(r.inbox) /\ a \in Seq(PlacedMsg) /\ Len(a) \in Nat
  BY <1>1
<1>3. b \in Seq(PlacedMsg) /\ Len(b) = Len(r.inbox) /\ \A k \in 1..Len(b) : b[k].at = L
  <2>1. \A k \in 1..Len(r.inbox) : r.inbox[k] \in Message
    BY <1>1
  <2> HIDE DEF L
  <2>2. \A k \in 1..Len(r.inbox) : [at |-> L, msg |-> r.inbox[k]] \in PlacedMsg
    BY <1>2, <2>1 DEF PlacedMsg
  <2>3. b \in [1..Len(r.inbox) -> PlacedMsg] /\ \A k \in 1..Len(r.inbox) : b[k].at = L
    BY <1>2, <2>2
  <2> HIDE DEF b
  <2> QED
    BY <1>2, <2>3
<1>4. PlacedNow(r) = c
  BY DEF PlacedNow
<1>8. InOrder(a, L)
  BY <1>1
<1>10. a = r.placed /\ L = Len(r.state)
  OBVIOUS
<1> HIDE DEF a, b, L
<1>5. /\ c \in Seq(PlacedMsg) /\ Len(c) = Len(a) + Len(b) /\ Len(c) \in Nat /\ Len(b) \in Nat
      /\ \A k \in 1..(Len(a) + Len(b)) : c[k] = IF k <= Len(a) THEN a[k] ELSE b[k - Len(a)]
  <2>1. Len(b) \in Nat
    BY <1>2, <1>3
  <2>2. /\ a \o b \in Seq(PlacedMsg) /\ Len(a \o b) = Len(a) + Len(b)
        /\ \A k \in 1..(Len(a) + Len(b)) : (a \o b)[k] = IF k <= Len(a) THEN a[k] ELSE b[k - Len(a)]
    BY <1>2, <1>3, ConcatProperties
  <2> QED
    BY <1>2, <2>1, <2>2
<1> HIDE DEF c
<1>6. \A k \in 1..Len(a) : c[k] = a[k]
  BY <1>2, <1>5
<1>7. \A k \in (Len(a) + 1)..Len(c) : c[k].at = L
  <2> SUFFICES ASSUME NEW k \in (Len(a) + 1)..Len(c) PROVE c[k].at = L
    OBVIOUS
  <2>1. k \in 1..(Len(a) + Len(b)) /\ ~(k <= Len(a)) /\ k - Len(a) \in 1..Len(b)
    BY <1>2, <1>5
  <2> QED
    BY <1>3, <1>5, <2>1
<1>9. InOrder(c, L)
  <2> SUFFICES ASSUME NEW k \in 1..Len(c) PROVE c[k].at <= L /\ \A j \in 1..k : c[j].at <= c[k].at
    BY DEF InOrder
  <2>1. \A i \in 1..Len(c) : i \in 1..Len(a) \/ i \in (Len(a) + 1)..Len(c)
    BY <1>2, <1>5
  <2>2. \A i \in 1..Len(a) : c[i].at <= L
    BY <1>6, <1>8 DEF InOrder
  <2>3. CASE k \in 1..Len(a)
    <3>1. \A j \in 1..k : j \in 1..Len(a)
      BY <1>2, <2>3
    <3> QED
      BY <1>6, <1>8, <2>3, <3>1 DEF InOrder
  <2>4. CASE k \in (Len(a) + 1)..Len(c)
    <3>1. \A j \in 1..k : j \in 1..Len(c)
      BY <1>5
    <3>2. c[k].at = L
      BY <1>7, <2>4
    <3>3. \A j \in 1..k : c[j].at <= L
      BY <1>2, <1>7, <2>1, <2>2, <3>1
    <3> QED
      BY <1>2, <3>2, <3>3
  <2> QED
    BY <2>1, <2>3, <2>4
<1> QED
  <2>1. Len(a) <= Len(c)
    BY <1>2, <1>5
  <2> QED
    BY <1>4, <1>5, <1>6, <1>7, <1>9, <1>10, <2>1

(* What the model is sent now begins with what it was sent before.         *)
LEMMA SentGrows ==
    ASSUME NEW r, RunOK(r)
    PROVE  /\ Spliced(r.state, PlacedNow(r)) \in Seq(Piece)
           /\ Len(Spliced(r.state, PlacedNow(r))) = Len(r.state) + Len(PlacedNow(r))
           /\ Len(r.sent) \in Nat /\ Len(r.sent) <= Len(r.state) + Len(PlacedNow(r))
           /\ \A n \in 1..Len(r.sent) : Spliced(r.state, PlacedNow(r))[n] = r.sent[n]
<1>1. /\ r.state \in Seq(Piece) /\ r.placed \in Seq(PlacedMsg) /\ r.sent \in Seq(Piece)
      /\ InOrder(r.placed, Len(r.state)) /\ Len(r.sent) <= Len(r.state) + Len(r.placed)
      /\ \A n \in 1..Len(r.sent) : r.sent[n] = Spliced(r.state, r.placed)[n]
  BY RunFields DEF RunOK, Placing
<1>2. /\ PlacedNow(r) \in Seq(PlacedMsg) /\ Len(r.placed) <= Len(PlacedNow(r)) /\ Len(PlacedNow(r)) \in Nat
      /\ \A k \in 1..Len(r.placed) : PlacedNow(r)[k] = r.placed[k]
      /\ \A k \in (Len(r.placed) + 1)..Len(PlacedNow(r)) : PlacedNow(r)[k].at = Len(r.state)
      /\ InOrder(PlacedNow(r), Len(r.state))
  BY PlacedNowType
<1>3. Len(r.state) \in Nat /\ Len(r.placed) \in Nat /\ Len(r.sent) \in Nat
  BY <1>1
<1>7. PICK a \in Nat, b \in Nat, c \in Nat, d \in Nat :
          a = Len(r.state) /\ b = Len(r.placed) /\ c = Len(r.sent) /\ d = Len(PlacedNow(r))
  BY <1>2, <1>3
<1>8. c <= a + b /\ b <= d /\ c <= a + d
  <2>1. c <= a + b
    BY <1>1, <1>7
  <2>2. b <= d
    BY <1>2, <1>7
  <2> QED
    BY <2>1, <2>2
<1>4. Len(r.state) <= Len(r.state) /\ \A k \in (Len(r.placed) + 1)..Len(PlacedNow(r)) : PlacedNow(r)[k].at >= Len(r.state)
  BY <1>2, <1>3
<1>5. ASSUME NEW n \in 1..Len(r.sent) PROVE Spliced(r.state, PlacedNow(r))[n] = r.sent[n]
  <2>1. n \in 1..(Len(r.state) + Len(r.placed))
    <3>1. n \in 1..c
      BY <1>7
    <3>2. n \in 1..(a + b)
      BY <1>8, <3>1
    <3> QED
      BY <1>7, <3>2
  <2>2. Spliced(r.state, PlacedNow(r))[n] = Spliced(r.state, r.placed)[n]
    BY <1>1, <1>2, <1>4, <2>1, SplicedStays
  <2> QED
    BY <1>1, <2>2
<1>6. Len(r.sent) <= Len(r.state) + Len(PlacedNow(r))
  BY <1>7, <1>8
<1> QED
  BY <1>1, <1>2, <1>3, <1>5, <1>6, SplicedType

LEMMA CallKeeps ==
    ASSUME TurnsInv, NEW m \in Message, Call(m)
    PROVE  TurnsInv'
<1>1. turn[m].pc \in {"setup", "call"} /\ UNCHANGED <<log, req>>
  BY DEF Call, In
<1>2. PICK pc \in {"setup", "call"} : In(m, pc)
  BY <1>1 DEF In
<1>3. /\ turn[m] \in RunRec /\ RunOK(turn[m]) /\ Life(turn[m]) /\ Types /\ Registered(m) /\ req[m].saved
      /\ turn[m].pc \notin {None, "end"}
  BY <1>1, <1>2, TurnAt DEF None, Registered
<1>4. CASE turn[m].cancelled /\ Becomes(m, [turn[m] EXCEPT !.pc = "close", !.err = TRUE])
  <2> DEFINE to == [turn[m] EXCEPT !.pc = "close", !.err = TRUE]
  <2>1. /\ to \in RunRec /\ to.pc = "close" /\ to.inbox = turn[m].inbox /\ to.left = turn[m].left
        /\ to.placed = turn[m].placed /\ to.state = turn[m].state /\ to.sent = turn[m].sent
        /\ to.calls = turn[m].calls /\ to.closed = turn[m].closed /\ to.stop = turn[m].stop
    BY <1>3 DEF RunRec
  <2>2. turn' = [turn EXCEPT ![m] = to] /\ runs' = runs
    BY <1>4 DEF Becomes
  <2> HIDE DEF to
  <2>3. Life(to)
    BY <1>1, <1>3, <2>1 DEF Life, None
  <2>4. RunOK(to) /\ to.pc # None
    BY <1>3, <2>1, <2>3, SameTranscript DEF None
  <2> QED
    BY <1>1, <1>3, <2>1, <2>2, <2>4, TurnMoves
<1>5. CASE Becomes(m, [turn[m] EXCEPT !.pc = "answer", !.calls = @ + 1, !.inbox = <<>>,
                                      !.placed = PlacedNow(turn[m]), !.sent = Spliced(turn[m].state, PlacedNow(turn[m]))])
  <2> DEFINE r == turn[m]
             p == PlacedNow(r)
             t == Spliced(r.state, p)
             to == [r EXCEPT !.pc = "answer", !.calls = r.calls + 1, !.inbox = <<>>, !.placed = p, !.sent = t]
  <2>1. turn' = [turn EXCEPT ![m] = to] /\ runs' = runs
    BY <1>3, <1>5 DEF Becomes, RunRec
  <2>2. p \in Seq(PlacedMsg) /\ Len(p) \in Nat /\ InOrder(p, Len(r.state))
    BY <1>3, PlacedNowType
  <2>3. t \in Seq(Piece) /\ Len(t) = Len(r.state) + Len(p)
    BY <1>3, SentGrows
  <2>4. r.calls + 1 \in 0..MaxCalls
    <3>1. r.calls \in Int /\ r.calls >= 0 /\ (r.calls = 0 \/ r.calls < MaxCalls)
      BY <1>1, <1>3, RunFields DEF Life
    <3> QED
      BY <3>1, TurnAssumption
  <2> HIDE DEF p, t
  <2>5. /\ to \in RunRec /\ to.pc = "answer" /\ to.inbox = <<>> /\ to.left = r.left
        /\ to.placed = p /\ to.state = r.state /\ to.sent = t
        /\ to.closed = r.closed /\ to.stop = r.stop
    <3>1. r \in RunRec /\ r.calls + 1 \in 0..MaxCalls
      BY <1>3, <2>4
    <3>4. PICK none \in Seq(Message) : none = <<>>
      BY EmptySeq
    <3> DEFINE one == [r EXCEPT !.pc = "answer", !.calls = r.calls + 1, !.inbox = none]
    <3>2. /\ one \in RunRec /\ one.pc = "answer" /\ one.inbox = none /\ one.left = r.left
          /\ one.state = r.state /\ one.closed = r.closed /\ one.stop = r.stop
      BY <3>1 DEF RunRec
    <3>3. to = [one EXCEPT !.placed = p, !.sent = t]
      BY <3>1, <3>4 DEF RunRec
    <3> HIDE DEF one, to, r
    <3> QED
      BY <2>2, <2>3, <3>2, <3>3, <3>4 DEF RunRec
  <2>6. IsInjective(<<>>)
    BY DEF IsInjective
  <2> HIDE DEF to
  <2>7. Life(to)
    BY <1>1, <1>3, <2>5, <2>6 DEF Life, None
  <2>8. Placing(to)
    <3>1. t = Spliced(to.state, to.placed)
      BY <2>5 DEF t
    <3>2. Len(to.sent) <= Len(to.state) + Len(to.placed)
      <4>1. Len(r.state) \in Nat
        BY <1>3, RunFields
      <4> QED
        BY <2>2, <2>3, <2>5, <4>1
    <3> QED
      BY <2>2, <2>5, <3>1, <3>2 DEF Placing
  <2>9. RunOK(to) /\ to.pc # None
    BY <2>5, <2>7, <2>8 DEF RunOK, None
  <2>10. Range(to.inbox) \cup Range(to.left) \subseteq Range(r.inbox) \cup Range(r.left)
    BY <2>5 DEF Range
  <2> QED
    BY <1>1, <1>3, <2>1, <2>5, <2>9, <2>10, TurnMoves
<1> QED
  BY <1>4, <1>5 DEF Call, PlacedNow

LEMMA AnswerKeeps ==
    ASSUME TurnsInv, NEW m \in Message, Answer(m)
    PROVE  TurnsInv'
<1>1. In(m, "answer") /\ turn[m].pc = "answer" /\ "answer" # None /\ UNCHANGED <<log, req>>
  BY DEF Answer, In, None
<1>3. /\ turn[m] \in RunRec /\ RunOK(turn[m]) /\ Life(turn[m]) /\ Types /\ Registered(m) /\ req[m].saved
      /\ turn[m].pc \notin {None, "end"}
  BY <1>1, TurnAt DEF None, Registered
<1>4. CASE Becomes(m, [turn[m] EXCEPT !.pc = "close"])
  BY <1>1, <1>3, <1>4, PcMoves DEF Becomes
<1>5. CASE Becomes(m, [turn[m] EXCEPT !.pc = "close", !.err = TRUE])
  <2> DEFINE to == [turn[m] EXCEPT !.pc = "close", !.err = TRUE]
  <2>1. /\ to \in RunRec /\ to.pc = "close" /\ to.inbox = turn[m].inbox /\ to.left = turn[m].left
        /\ to.placed = turn[m].placed /\ to.state = turn[m].state /\ to.sent = turn[m].sent
        /\ to.calls = turn[m].calls /\ to.closed = turn[m].closed /\ to.stop = turn[m].stop
    BY <1>3 DEF RunRec
  <2>2. turn' = [turn EXCEPT ![m] = to] /\ runs' = runs
    BY <1>5 DEF Becomes
  <2> HIDE DEF to
  <2>3. Life(to)
    BY <1>1, <1>3, <2>1 DEF Life, None
  <2>4. RunOK(to) /\ to.pc # None
    BY <1>3, <2>1, <2>3, SameTranscript DEF None
  <2> QED
    BY <1>1, <1>3, <2>1, <2>2, <2>4, TurnMoves
<1>6. CASE MayUseTools(m) /\ Becomes(m, [turn[m] EXCEPT !.pc = "call", !.state = Append(@, "tools")])
  <2> DEFINE r == turn[m]
             s == r.state
             u == Append(s, "tools")
             to == [r EXCEPT !.pc = "call", !.state = u]
  <2>1. turn' = [turn EXCEPT ![m] = to] /\ runs' = runs
    BY <1>3, <1>6 DEF Becomes, RunRec
  <2>2. /\ s \in Seq(Piece) /\ r.placed \in Seq(PlacedMsg) /\ r.sent \in Seq(Piece)
        /\ InOrder(r.placed, Len(s)) /\ Len(r.sent) <= Len(s) + Len(r.placed)
        /\ \A n \in 1..Len(r.sent) : r.sent[n] = Spliced(s, r.placed)[n]
    BY <1>3, RunFields DEF RunOK, Placing
  <2>3. "tools" \in Piece
    BY DEF Piece
  <2> HIDE DEF s
  <2>4. /\ u \in Seq(Piece) /\ Len(s) \in Nat /\ Len(u) = Len(s) + 1 /\ \A i \in 1..Len(s) : u[i] = s[i]
    BY <2>2, <2>3
  <2> HIDE DEF u
  <2>5. /\ to \in RunRec /\ to.pc = "call" /\ to.inbox = r.inbox /\ to.left = r.left
        /\ to.placed = r.placed /\ to.state = u /\ to.sent = r.sent
        /\ to.calls = r.calls /\ to.closed = r.closed /\ to.stop = r.stop
    BY <1>3, <2>4 DEF RunRec
  <2>6. r.calls < MaxCalls
    BY <1>6 DEF MayUseTools
  <2> HIDE DEF to
  <2>7. Life(to)
    BY <1>1, <1>3, <2>5, <2>6 DEF Life, None
  <2>8. Placing(to)
    <3>1. PICK a \in Nat, b \in Nat, c \in Nat : a = Len(s) /\ b = Len(r.placed) /\ c = Len(r.sent)
      BY <2>2
    <3>2. c <= a + b
      BY <2>2, <3>1
    <3>3. InOrder(r.placed, Len(u))
      <4>1. \A k \in 1..Len(r.placed) : r.placed[k].at \in Nat
        BY <2>2, SpotsGrow
      <4> QED
        BY <2>2, <2>4, <4>1 DEF InOrder
    <3>4. c <= (a + 1) + b
      BY <3>2
    <3>5. ASSUME NEW n \in 1..Len(r.sent) PROVE r.sent[n] = Spliced(u, r.placed)[n]
      <4>1. n \in 1..(Len(s) + Len(r.placed))
        <5>1. n \in 1..c
          BY <3>1
        <5>2. n \in 1..(a + b)
          BY <3>2, <5>1
        <5> QED
          BY <3>1, <5>2
      <4>2. Len(s) <= Len(u) /\ Len(r.placed) <= Len(r.placed)
        BY <2>4, <3>1
      <4>3. \A k \in (Len(r.placed) + 1)..Len(r.placed) : r.placed[k].at >= Len(s)
        BY <3>1
      <4>4. Spliced(u, r.placed)[n] = Spliced(s, r.placed)[n]
        BY <2>2, <2>4, <3>3, <4>1, <4>2, <4>3, SplicedStays
      <4> QED
        BY <2>2, <4>4
    <3> QED
      BY <2>4, <2>5, <3>1, <3>3, <3>4, <3>5 DEF Placing
  <2>9. RunOK(to) /\ to.pc # None
    BY <2>5, <2>7, <2>8 DEF RunOK, None
  <2> QED
    BY <1>1, <1>3, <2>1, <2>5, <2>9, TurnMoves
<1> QED
  BY <1>4, <1>5, <1>6 DEF Answer

LEMMA CloseKeeps ==
    ASSUME TurnsInv, NEW m \in Message, Close(m)
    PROVE  TurnsInv'
<1>1. In(m, "close") /\ turn[m].pc = "close" /\ "close" # None /\ UNCHANGED <<log, req>>
  BY DEF Close, In, None
<1>2. /\ turn[m] \in RunRec /\ RunOK(turn[m]) /\ Life(turn[m]) /\ Types /\ Registered(m) /\ req[m].saved
      /\ turn[m].pc \notin {None, "end"}
  BY <1>1, TurnAt DEF None, Registered
<1> DEFINE v == Verdict(turn[m])
           to == [turn[m] EXCEPT !.pc = "store", !.closed = TRUE, !.left = turn[m].inbox, !.inbox = <<>>, !.stop = v]
<1>3. turn' = [turn EXCEPT ![m] = to] /\ runs' = runs
  BY DEF Close, Becomes
<1>4. v \in Stop
  BY DEF Verdict, Stop
<1> HIDE DEF v
<1>5. /\ to \in RunRec /\ to.pc = "store" /\ to.inbox = <<>> /\ to.left = turn[m].inbox
      /\ to.placed = turn[m].placed /\ to.state = turn[m].state /\ to.sent = turn[m].sent
      /\ to.calls = turn[m].calls /\ to.closed /\ to.stop = v
  <2> DEFINE r == turn[m]
             one == [r EXCEPT !.pc = "store", !.closed = TRUE, !.stop = v]
  <2>1. r \in RunRec /\ r.inbox \in Seq(Message)
    BY <1>2, RunFields
  <2>2. /\ one \in RunRec /\ one.pc = "store" /\ one.closed /\ one.stop = v /\ one.calls = r.calls
        /\ one.placed = r.placed /\ one.state = r.state /\ one.sent = r.sent
    BY <1>4, <2>1 DEF RunRec
  <2>4. PICK none \in Seq(Message) : none = <<>>
    BY EmptySeq
  <2>3. to = [one EXCEPT !.left = r.inbox, !.inbox = none]
    BY <2>1, <2>4 DEF RunRec
  <2>5. PICK inbox \in Seq(Message) : inbox = r.inbox
    BY <2>1
  <2>6. to = [one EXCEPT !.left = inbox, !.inbox = none]
    BY <2>3, <2>5
  <2> HIDE DEF one, to, r
  <2>7. /\ to \in RunRec /\ to.pc = "store" /\ to.inbox = none /\ to.left = inbox
        /\ to.placed = r.placed /\ to.state = r.state /\ to.sent = r.sent
        /\ to.calls = r.calls /\ to.closed /\ to.stop = v
    BY <2>2, <2>6 DEF RunRec
  <2> QED
    BY <2>4, <2>5, <2>7 DEF r
<1>6. IsInjective(<<>>)
  BY DEF IsInjective
<1> HIDE DEF to
<1>7. Life(to)
  BY <1>1, <1>2, <1>4, <1>5, <1>6 DEF Life, None, Stop
<1>8. RunOK(to) /\ to.pc # None
  BY <1>2, <1>5, <1>7, SameTranscript DEF None
<1>9. Range(to.inbox) \cup Range(to.left) \subseteq Range(turn[m].inbox) \cup Range(turn[m].left)
  BY <1>5 DEF Range
<1> QED
  BY <1>1, <1>2, <1>3, <1>5, <1>8, <1>9, TurnMoves

LEMMA ReplyType ==
    ASSUME TurnsInv, NEW m \in Message, NEW stop \in Stop
    PROVE  /\ Reply(m, stop) \in Entry /\ Reply(m, stop).role = "assistant" /\ Reply(m, stop).of = m
           /\ Reply(m, stop).read = Message \cap Range(turn[m].sent) /\ Reply(m, stop).stop = stop
           /\ Reply(m, stop).hist = Cardinality({i \in DOMAIN turn[m].state : turn[m].state[i] # "tools"})
<1> DEFINE s == turn[m].state
           words == {i \in DOMAIN s : s[i] # "tools"}
<1>1. s \in Seq(Piece)
  BY RunFields DEF TurnsInv, Types
<1>2. Len(s) \in Nat /\ DOMAIN s = 1..Len(s)
  BY <1>1
<1>3. IsFiniteSet(1..Len(s)) /\ words \in SUBSET (1..Len(s))
  BY <1>2, FS_Interval
<1> HIDE DEF words
<1>4. Cardinality(words) \in Nat
  BY <1>3, FS_Subset, FS_CardinalityType
<1> QED
  BY <1>4 DEF Reply, Entry, words

LEMMA StoreKeeps ==
    ASSUME TurnsInv, NEW m \in Message, Store(m)
    PROVE  TurnsInv'
<1>1. turn[m].pc \in {"store", "fail"} /\ UNCHANGED req
  BY DEF Store, In
<1>2. PICK pc \in {"store", "fail"} : In(m, pc) /\ turn[m].pc = pc /\ pc # None
  BY <1>1 DEF In, None
<1>3. /\ turn[m] \in RunRec /\ RunOK(turn[m]) /\ Life(turn[m]) /\ Types /\ Registered(m) /\ req[m].saved
      /\ turn[m].pc \notin {None, "end"} /\ req[m].pc = "turn"
  BY <1>1, <1>2, TurnAt DEF None, Registered
<1>4. CASE log' = log /\ Becomes(m, [turn[m] EXCEPT !.pc = "end", !.stop = "lost"])
  <2> DEFINE to == [turn[m] EXCEPT !.pc = "end", !.stop = "lost"]
  <2>1. /\ to \in RunRec /\ to.pc = "end" /\ to.inbox = turn[m].inbox /\ to.left = turn[m].left
        /\ to.placed = turn[m].placed /\ to.state = turn[m].state /\ to.sent = turn[m].sent
        /\ to.calls = turn[m].calls /\ to.closed = turn[m].closed
    BY <1>3 DEF RunRec
  <2>2. turn' = [turn EXCEPT ![m] = to] /\ runs' = runs
    BY <1>4 DEF Becomes
  <2> HIDE DEF to
  <2>3. Life(to)
    BY <1>1, <1>3, <2>1 DEF Life, None
  <2>4. RunOK(to) /\ to.pc # None
    BY <1>3, <2>1, <2>3, SameTranscript DEF None
  <2> QED
    BY <1>1, <1>3, <1>4, <2>1, <2>2, <2>4, TurnMoves
<1>5. CASE /\ log' = Append(log, Reply(m, IF In(m, "fail") THEN "error" ELSE turn[m].stop))
           /\ Becomes(m, [turn[m] EXCEPT !.pc = "end"])
  <2> DEFINE to == [turn[m] EXCEPT !.pc = "end"]
             stop == IF In(m, "fail") THEN "error" ELSE turn[m].stop
             e == Reply(m, stop)
  <2>1. /\ to \in RunRec /\ to.pc = "end" /\ to.inbox = turn[m].inbox /\ to.left = turn[m].left
        /\ to.placed = turn[m].placed /\ to.state = turn[m].state /\ to.sent = turn[m].sent
        /\ to.calls = turn[m].calls /\ to.closed = turn[m].closed /\ to.stop = turn[m].stop
    BY <1>3 DEF RunRec
  <2>2. turn' = [turn EXCEPT ![m] = to] /\ runs' = runs
    BY <1>5 DEF Becomes
  <2> HIDE DEF to
  <2>3. Life(to)
    BY <1>1, <1>3, <2>1 DEF Life, None
  <2>4. RunOK(to) /\ to.pc # None
    BY <1>3, <2>1, <2>3, SameTranscript DEF None
  <2>5. stop \in Stop
    BY <1>3, RunFields DEF Life, Stop
  <2> HIDE DEF stop
  <2>6. e \in Entry /\ e.role = "assistant" /\ e.of = m
    BY <2>5, ReplyType
  <2>7. log' = Append(log, e)
    BY <1>5 DEF stop
  <2> HIDE DEF e
  <2>8. /\ log' \in Seq(Entry) /\ DOMAIN log = 1..Len(log) /\ Len(log) \in Nat /\ DOMAIN log' = 1..(Len(log) + 1)
        /\ log'[Len(log) + 1] = e /\ \A i \in 1..Len(log) : log'[i] = log[i]
    BY <1>3, <2>6, <2>7 DEF Types
  <2>9. \A i \in DOMAIN log' : i \in DOMAIN log \/ i = Len(log) + 1
    BY <2>8
  <2>10. turn' \in [Message -> RunRec] /\ turn'[m] = to /\ \A x \in Message \ {m} : turn'[x] = turn[x]
    BY <1>3, <2>1, <2>2 DEF Types
  <2>11. Types'
    BY <1>1, <1>3, <2>2, <2>8, <2>10 DEF Types
  <2>12. ASSUME NEW x \in Message PROVE RunOK(turn'[x]) /\ Registered(x)' /\ Asked(x)'
    <3>1. RunOK(turn[x]) /\ Registered(x) /\ Asked(x)
      BY DEF TurnsInv
    <3>2. RunOK(turn'[x]) /\ turn'[x].inbox = turn[x].inbox /\ turn'[x].left = turn[x].left
          /\ (turn'[x].pc = turn[x].pc \/ (turn'[x].pc = "end" /\ x = m))
      BY <2>1, <2>4, <2>10, <3>1
    <3>3. Registered(x)'
      BY <1>1, <1>3, <2>2, <3>1, <3>2 DEF Registered, At, None
    <3>4. Asked(x)'
      <4>1. \A i \in DOMAIN log : i \in DOMAIN log' /\ log'[i] = log[i]
        BY <2>8
      <4>2. Stored(x) => Stored(x)'
        BY <4>1 DEF Stored, ByUser
      <4> QED
        BY <1>1, <3>1, <4>2 DEF Asked
    <3> QED
      BY <3>2, <3>3, <3>4
  <2>13. LogOK'
    <3>1. \A i \in DOMAIN log : log[i].of \in Message /\ log'[i] = log[i]
      BY <1>3, <2>8, EntryType
    <3>2. LogOK /\ \A i \in DOMAIN log : ~(log[i].role = "assistant" /\ log[i].of = m)
      <4>1. ~Ended(m) /\ turn[m].pc # "end"
        BY <1>3 DEF Ended
      <4> QED
        BY <4>1, NoReplyYet DEF TurnsInv
    <3>3. ASSUME NEW i \in DOMAIN log', log'[i].role = "user" PROVE log'[i] = ByUser(log'[i].of) /\ req'[log'[i].of].saved
      <4>1. i \in DOMAIN log
        BY <2>6, <2>8, <2>9, <3>3
      <4> QED
        BY <1>1, <3>1, <3>2, <3>3, <4>1 DEF LogOK
    <3>4. ASSUME NEW i \in DOMAIN log', log'[i].role = "assistant"
          PROVE  turn'[log'[i].of].pc = "end" \/ req'[log'[i].of].pc \in {"done", "lost"}
      <4>1. CASE i = Len(log) + 1
        BY <2>1, <2>6, <2>8, <2>10, <4>1
      <4>2. CASE i \in DOMAIN log
        BY <1>1, <2>10, <3>1, <3>2, <3>4, <4>2 DEF LogOK, Ended
      <4> QED
        BY <2>9, <4>1, <4>2
    <3>5. ASSUME NEW i \in DOMAIN log', NEW j \in DOMAIN log', log'[i].role = log'[j].role, log'[i].of = log'[j].of
          PROVE  i = j
      <4>1. CASE i \in DOMAIN log /\ j \in DOMAIN log
        BY <3>1, <3>2, <3>5, <4>1 DEF LogOK
      <4>2. CASE i = Len(log) + 1 /\ j \in DOMAIN log
        BY <2>6, <2>8, <3>1, <3>2, <3>5, <4>2
      <4>3. CASE i \in DOMAIN log /\ j = Len(log) + 1
        BY <2>6, <2>8, <3>1, <3>2, <3>5, <4>3
      <4> QED
        BY <2>9, <4>1, <4>2, <4>3
    <3> QED
      BY <3>3, <3>4, <3>5 DEF LogOK, Ended
  <2> QED
    BY <2>11, <2>12, <2>13 DEF TurnsInv
<1> QED
  BY <1>4, <1>5 DEF Store

LEMMA ReleaseKeeps ==
    ASSUME TurnsInv, NEW m \in Message, Release(m)
    PROVE  TurnsInv'
<1>1. In(m, "end") /\ turn[m].pc = "end" /\ "end" # None /\ turn' = [turn EXCEPT ![m] = NoRun] /\ UNCHANGED log
  BY DEF Release, In, None
<1>2. /\ turn[m] \in RunRec /\ RunOK(turn[m]) /\ Types /\ Registered(m) /\ Asked(m) /\ req[m].pc = "turn" /\ runs = m
  BY <1>1, TurnAt
<1>3. runs' = None
  BY <1>2 DEF Release, Unregistered
<1> DEFINE left == turn[m].left \o turn[m].inbox
           ended == IF turn[m].stop = "lost" THEN "lost" ELSE "done"
<1>4. req' = [n \in Message |->
                 IF n = m THEN [req[n] EXCEPT !.pc = ended]
                 ELSE IF left # <<>> /\ n = Last(left)
                 THEN [req[n] EXCEPT !.pc = "acquire", !.follows = TRUE] ELSE req[n]]
  BY DEF Release
<1>5. left # <<>> => Last(left) \in Message /\ req[Last(left)].pc = "steered"
  <2> SUFFICES ASSUME left # <<>> PROVE Last(left) \in Message /\ req[Last(left)].pc = "steered"
    OBVIOUS
  <2>1. turn[m].left \in Seq(Message) /\ turn[m].inbox \in Seq(Message)
    BY <1>2, RunFields
  <2>2. left \in Seq(Message) /\ Range(left) = Range(turn[m].left) \cup Range(turn[m].inbox)
    BY <2>1, ConcatProperties, RangeConcatenation
  <2> HIDE DEF left
  <2>3. Len(left) \in 1..Len(left) /\ DOMAIN left = 1..Len(left) /\ left[Len(left)] \in Message
    BY <2>2, EmptySeq
  <2>4. Last(left) \in Range(left) /\ Last(left) \in Message
    BY <2>3 DEF Last, Range
  <2> QED
    BY <1>2, <2>2, <2>4 DEF Registered, At
<1> HIDE DEF left
<1>6. ended \in {"lost", "done"}
  OBVIOUS
<1> HIDE DEF ended
<1>7. \A x \in Message : req[x] \in Request
  BY <1>2 DEF Types
<1>8. ASSUME NEW x \in Message
      PROVE  /\ req'[x] \in Request /\ req'[x].saved = req[x].saved /\ req'[x].pc # "turn"
             /\ req'[x].met = req[x].met
             /\ req'[x].pc = req[x].pc \/ req'[x].pc \in {"lost", "done", "acquire"}
             /\ x = m => req'[x].pc \in {"lost", "done"}
             /\ Ended(x) => req'[x].pc = req[x].pc
  <2>1. req[x].pc = "turn" => x = m
    BY <1>1, Alone DEF At
  <2>2. CASE x = m
    <3>1. req'[x] = [req[x] EXCEPT !.pc = ended]
      BY <1>4, <2>2
    <3>2. req'[x] \in Request /\ req'[x].pc = ended /\ req'[x].saved = req[x].saved /\ req'[x].met = req[x].met
      BY <1>6, <1>7, <3>1 DEF Request, Returned
    <3> QED
      BY <1>2, <1>6, <2>2, <3>2 DEF Ended
  <2>3. CASE x # m /\ left # <<>> /\ x = Last(left)
    <3>1. req'[x] = [req[x] EXCEPT !.pc = "acquire", !.follows = TRUE]
      BY <1>4, <2>3
    <3>2. req'[x] \in Request /\ req'[x].pc = "acquire" /\ req'[x].saved = req[x].saved /\ req'[x].met = req[x].met
      BY <1>7, <3>1 DEF Request
    <3> QED
      BY <1>5, <2>3, <3>2 DEF Ended
  <2>4. CASE x # m /\ ~(left # <<>> /\ x = Last(left))
    <3>1. req'[x] = req[x]
      BY <1>4, <2>4
    <3> QED
      BY <1>7, <2>1, <2>4, <3>1
  <2> QED
    BY <2>2, <2>3, <2>4
<1>9. turn' \in [Message -> RunRec] /\ turn'[m] = NoRun /\ \A x \in Message \ {m} : turn'[x] = turn[x]
  BY <1>1, <1>2, NoRunOK DEF Types
<1>10. \A x \in Message : turn'[x] = NoRun
  BY <1>1, <1>9, Alone
<1>11. Types'
  <2>1. req' \in [Message -> Request]
    BY <1>4, <1>8
  <2> QED
    BY <1>1, <1>2, <1>3, <1>9, <2>1 DEF Types
<1>12. ASSUME NEW x \in Message PROVE RunOK(turn'[x]) /\ Registered(x)' /\ Asked(x)'
  <2>1. Asked(x)
    BY DEF TurnsInv
  <2>2. RunOK(turn'[x])
    BY <1>10, NoRunOK
  <2>3. Registered(x)'
    BY <1>8, <1>10, NoRunOK DEF Registered, At, Range
  <2>4. Asked(x)'
    BY <1>1, <1>8, <2>1 DEF Asked, Stored
  <2> QED
    BY <2>2, <2>3, <2>4
<1>13. LogOK'
  <2>1. LogOK
    BY DEF TurnsInv
  <2>2. \A i \in DOMAIN log : log[i].of \in Message
    BY <1>2, EntryType
  <2>3. ASSUME NEW i \in DOMAIN log, log[i].role = "assistant" PROVE Ended(log[i].of)'
    <3>1. PICK x \in Message : x = log[i].of
      BY <2>2
    <3>2. turn[x].pc = "end" \/ Ended(x)
      BY <2>1, <2>3, <3>1 DEF LogOK
    <3>3. turn[x].pc = "end" => x = m
      BY <1>1, Alone, NoRunOK
    <3> QED
      BY <1>1, <1>8, <3>1, <3>2, <3>3 DEF Ended
  <2> QED
    BY <1>1, <1>8, <2>1, <2>2, <2>3 DEF LogOK
<1> QED
  BY <1>11, <1>12, <1>13 DEF TurnsInv

-----------------------------------------------------------------------------
LEMMA SendKeeps ==
    ASSUME TurnsInv, NEW m \in Message, Send(m)
    PROVE  TurnsInv'
BY CallerTo DEF Send, At

LEMMA WaitedKeeps ==
    ASSUME TurnsInv, NEW m \in Message, Waited(m)
    PROVE  TurnsInv'
BY CallerTo DEF Waited, At

LEMMA TurnsInvStep ==
    ASSUME TurnsInv, [Next]_vars
    PROVE  TurnsInv'
<1>1. ASSUME NEW m \in Message, CallStep(m) PROVE TurnsInv'
  BY <1>1, AcquireKeeps, InterruptKeeps, PersistKeeps, PushKeeps, WaitedKeeps DEF CallStep
<1>2. ASSUME NEW m \in Message, TurnStep(m) PROVE TurnsInv'
  BY <1>2, SaveKeeps, LoadKeeps, SetupFailsKeeps, CallKeeps, AnswerKeeps, CloseKeeps, StoreKeeps, ReleaseKeeps DEF TurnStep
<1>3. CASE UNCHANGED vars
  <2>1. log' = log /\ runs' = runs /\ turn' = turn /\ req' = req
    BY <1>3 DEF vars
  <2>2. Types' /\ LogOK'
    BY <2>1 DEF TurnsInv, Types, LogOK, Ended
  <2>3. ASSUME NEW x \in Message PROVE RunOK(turn'[x]) /\ Registered(x)' /\ Asked(x)'
    BY <2>1 DEF TurnsInv, Registered, Asked, At, Stored
  <2> QED
    BY <2>2, <2>3 DEF TurnsInv
<1> QED
  BY <1>1, <1>2, <1>3, SendKeeps, LeaveKeeps DEF Next

LEMMA TurnsInvAlways == Spec => []TurnsInv
<1>1. Init => TurnsInv
  <2> SUFFICES ASSUME Init PROVE TurnsInv
    OBVIOUS
  <2>1. log = <<>> /\ DOMAIN log = {} /\ runs = None /\ \A x \in Message : turn[x] = NoRun
    BY DEF Init
  <2>2. \A x \in Message : req[x].pc = "idle" /\ ~req[x].saved
    BY DEF Init
  <2>3. Types
    <3>1. req \in [Message -> Request]
      BY DEF Init, Request
    <3>2. turn \in [Message -> RunRec]
      BY NoRunOK DEF Init
    <3> QED
      BY <2>1, <3>1, <3>2 DEF Types
  <2>4. ASSUME NEW x \in Message PROVE RunOK(turn[x]) /\ Registered(x) /\ Asked(x)
    BY <2>1, <2>2, NoRunOK DEF Registered, Asked, At, Range
  <2>5. LogOK
    BY <2>1 DEF LogOK
  <2> QED
    BY <2>3, <2>4, <2>5 DEF TurnsInv
<1>2. TurnsInv /\ [Next]_vars => TurnsInv'
  BY TurnsInvStep
<1> QED
  BY <1>1, <1>2, PTL DEF Spec

LEMMA TurnsTyped == TurnsInv => TypeOK
<1> SUFFICES ASSUME TurnsInv PROVE TypeOK
  OBVIOUS
<1>1. Types
  BY DEF TurnsInv
<1>2. ASSUME NEW m \in Message
      PROVE  /\ turn[m].calls \in 0..MaxCalls
             /\ turn[m].pc # None <=> At(m, "turn")
             /\ IsInjective(turn[m].inbox \o turn[m].left)
  <2>1. /\ turn[m] \in RunRec /\ Life(turn[m]) /\ Registered(m)
        /\ turn[m].inbox \in Seq(Message) /\ turn[m].left \in Seq(Message)
    BY <1>1, RunFields DEF TurnsInv, Types, RunOK
  <2>2. turn[m].inbox \o turn[m].left \in {turn[m].inbox, turn[m].left}
    <3>1. turn[m].inbox = <<>> \/ turn[m].left = <<>>
      BY <2>1 DEF Life
    <3> QED
      BY <2>1, <3>1, ConcatEmptySeq
  <2>3. IsInjective(turn[m].inbox \o turn[m].left)
    BY <2>1, <2>2 DEF Life
  <2> QED
    BY <2>1, <2>3, RunFields DEF Registered
<1>3. \A i \in DOMAIN log : log[i].stop \in {None, "end_turn", "interrupted", "error"}
  BY <1>1, EntryType DEF Stop
<1> QED
  BY <1>1, <1>2, <1>3 DEF TypeOK, Types

(* However many clients there are and whatever fails, a message is stored  *)
(* once: by its request, its own turn, or a follow-up's (RunInput.preSaved). *)
THEOREM StoredAtMostOnce == Spec => []StoredOnce
<1>1. TurnsInv => StoredOnce
  BY DEF TurnsInv, LogOK, StoredOnce
<1> QED
  BY <1>1, TurnsInvAlways, PTL

-----------------------------------------------------------------------------
(* What the model is sent.                                                 *)

LEMMA PrefixOfSelf ==
    ASSUME NEW s \in Seq(Piece)
    PROVE  IsPrefix(s, s)
BY DEF IsPrefix

LEMMA PrefixByElements ==
    ASSUME NEW s \in Seq(Piece), NEW t \in Seq(Piece), Len(s) <= Len(t), \A i \in 1..Len(s) : t[i] = s[i]
    PROVE  IsPrefix(s, t)
<1>1. Len(s) \in Nat /\ Len(t) \in Nat
  OBVIOUS
<1>2. \A i \in 1..Len(s) : s[i] \in Piece /\ t[i] \in Piece
  OBVIOUS
<1>3. /\ SubSeq(s, 1, Len(s)) \in Seq(Piece) /\ Len(SubSeq(s, 1, Len(s))) = Len(s)
      /\ \A i \in 1..Len(s) : SubSeq(s, 1, Len(s))[i] = s[i]
  BY <1>1, <1>2
<1>4. /\ SubSeq(t, 1, Len(s)) \in Seq(Piece) /\ Len(SubSeq(t, 1, Len(s))) = Len(s)
      /\ \A i \in 1..Len(s) : SubSeq(t, 1, Len(s))[i] = t[i]
  BY <1>1, <1>2
<1>5. SubSeq(s, 1, Len(s)) = SubSeq(t, 1, Len(s))
  BY <1>3, <1>4, SeqEqual
<1> QED
  BY <1>5 DEF IsPrefix

(* What a step of m does to what a turn holds, has sent and has come to.   *)
SameRun(x) ==
    /\ turn'[x].pc = turn[x].pc /\ turn'[x].state = turn[x].state /\ turn'[x].sent = turn[x].sent
    /\ turn'[x].err = turn[x].err /\ turn'[x].stop = turn[x].stop

LEMMA CallersLeaveRuns ==
    ASSUME TurnsInv, NEW m \in Message,
           Send(m) \/ Leave(m) \/ (Acquire(m) /\ ~Free) \/ Interrupt(m) \/ Persist(m) \/ Push(m) \/ Waited(m),
           NEW x \in Message
    PROVE  SameRun(x)
<1>1. turn \in [Message -> RunRec] /\ \A y \in Message : turn[y] \in RunRec
  BY DEF TurnsInv, Types
<1>2. CASE turn' = turn
  BY <1>2 DEF SameRun
<1>3. CASE turn' = [turn EXCEPT ![m].cancelled = TRUE]
  BY <1>1, <1>3 DEF SameRun, RunRec
<1>4. CASE turn' = [turn EXCEPT ![req[m].met] = [@ EXCEPT !.interrupted = TRUE, !.cancelled = TRUE]]
  BY <1>1, <1>4 DEF SameRun, RunRec
<1>5. CASE turn' = [turn EXCEPT ![req[m].met].inbox = Append(@, m)]
  BY <1>1, <1>5 DEF SameRun, RunRec
<1> QED
  BY <1>2, <1>3, <1>4, <1>5 DEF Send, Leave, Acquire, Interrupt, Persist, Push, Waited

(* What a turn sends next.                                                 *)
SentNext(x) == turn'[x].sent = Spliced(turn[x].state, PlacedNow(turn[x]))

LEMMA SentStays ==
    ASSUME TurnsInv, Next, NEW x \in Message, turn'[x].pc # None
    PROVE  turn'[x].sent = turn[x].sent \/ SentNext(x)
<1>1. turn \in [Message -> RunRec] /\ \A y \in Message : turn[y] \in RunRec
  BY DEF TurnsInv, Types
<1>2. ASSUME NEW m \in Message,
             Send(m) \/ Leave(m) \/ (Acquire(m) /\ ~Free) \/ Interrupt(m) \/ Persist(m) \/ Push(m) \/ Waited(m)
      PROVE  turn'[x].sent = turn[x].sent
  BY <1>2, CallersLeaveRuns DEF SameRun
<1>3. ASSUME NEW m \in Message, Acquire(m), Free PROVE turn'[x].sent = turn[x].sent
  <2>1. turn' = [turn EXCEPT ![m] = [NoRun EXCEPT !.pc = "save"]] /\ req[m].pc = "acquire"
    BY <1>3 DEF Acquire, At
  <2>2. turn[m] = NoRun
    BY <2>1 DEF TurnsInv, Registered, RunOK, Life, At
  <2> QED
    BY <1>1, <2>1, <2>2, NoRunOK DEF RunRec
<1>4. ASSUME NEW m \in Message, NEW r, Becomes(m, r), r.sent = turn[m].sent PROVE turn'[x].sent = turn[x].sent
  BY <1>1, <1>4 DEF Becomes
<1>5. ASSUME NEW m \in Message, NEW pc, Step(m, pc) PROVE turn'[x].sent = turn[x].sent
  <2>1. [turn[m] EXCEPT !.pc = pc].sent = turn[m].sent
    BY <1>1 DEF RunRec
  <2> QED
    BY <1>4, <1>5, <2>1 DEF Step
<1>6. ASSUME NEW m \in Message, Save(m) \/ Load(m) PROVE turn'[x].sent = turn[x].sent
  <2> DEFINE Y == [i \in DOMAIN Loaded |-> Loaded[i].of]
  <2>1. [turn[m] EXCEPT !.pc = "load"].sent = turn[m].sent
    BY <1>1 DEF RunRec
  <2>2. [turn[m] EXCEPT !.pc = "setup", !.state = Y].sent = turn[m].sent
    BY <1>1 DEF RunRec
  <2>3. \/ \E pc \in {"load", "end", "fail"} : Step(m, pc)
        \/ Becomes(m, [turn[m] EXCEPT !.pc = "load"])
        \/ Becomes(m, [turn[m] EXCEPT !.pc = "setup", !.state = Y])
    BY <1>6 DEF Save, Load
  <2> QED
    BY <1>4, <1>5, <2>1, <2>2, <2>3
<1>7. ASSUME NEW m \in Message, SetupFails(m) PROVE turn'[x].sent = turn[x].sent
  BY <1>5, <1>7 DEF SetupFails
<1>8. ASSUME NEW m \in Message, Call(m) PROVE turn'[x].sent = turn[x].sent \/ SentNext(x)
  <2>1. CASE Becomes(m, [turn[m] EXCEPT !.pc = "close", !.err = TRUE])
    BY <1>1, <2>1 DEF Becomes, RunRec
  <2>2. CASE Becomes(m, [turn[m] EXCEPT !.pc = "answer", !.calls = @ + 1, !.inbox = <<>>,
                                        !.placed = PlacedNow(turn[m]), !.sent = Spliced(turn[m].state, PlacedNow(turn[m]))])
    <3>1. x = m => turn'[m].sent = Spliced(turn[m].state, PlacedNow(turn[m]))
      BY <1>1, <2>2 DEF Becomes, RunRec
    <3>2. x # m => turn'[x] = turn[x]
      BY <1>1, <2>2 DEF Becomes
    <3> QED
      BY <3>1, <3>2 DEF SentNext
  <2> QED
    BY <1>8, <2>1, <2>2 DEF Call, PlacedNow
<1>9. ASSUME NEW m \in Message, Answer(m) PROVE turn'[x].sent = turn[x].sent
  <2>1. [turn[m] EXCEPT !.pc = "close"].sent = turn[m].sent
    BY <1>1 DEF RunRec
  <2>2. [turn[m] EXCEPT !.pc = "call", !.state = Append(@, "tools")].sent = turn[m].sent
    BY <1>1 DEF RunRec
  <2>3. [turn[m] EXCEPT !.pc = "close", !.err = TRUE].sent = turn[m].sent
    BY <1>1 DEF RunRec
  <2> QED
    BY <1>4, <1>9, <2>1, <2>2, <2>3 DEF Answer
<1>10. ASSUME NEW m \in Message, Close(m) PROVE turn'[x].sent = turn[x].sent
  BY <1>1, <1>10 DEF Close, Becomes, RunRec
<1>11. ASSUME NEW m \in Message, Store(m) PROVE turn'[x].sent = turn[x].sent
  <2>1. [turn[m] EXCEPT !.pc = "end"].sent = turn[m].sent
    BY <1>1 DEF RunRec
  <2>2. [turn[m] EXCEPT !.pc = "end", !.stop = "lost"].sent = turn[m].sent
    BY <1>1 DEF RunRec
  <2> QED
    BY <1>4, <1>11, <2>1, <2>2 DEF Store
<1>12. ASSUME NEW m \in Message, Release(m) PROVE turn'[x].sent = turn[x].sent
  <2>1. turn' = [turn EXCEPT ![m] = NoRun]
    BY <1>12 DEF Release
  <2> QED
    BY <1>1, <2>1, NoRunOK
<1> QED
  BY <1>2, <1>3, <1>6, <1>7, <1>8, <1>9, <1>10, <1>11, <1>12 DEF Next, CallStep, TurnStep

(* Within a turn what the model is sent only grows: a message that came in *)
(* while the turn ran keeps the place the model first saw it at            *)
(* (steerer.apply), however many calls and tools follow.                   *)
THEOREM TranscriptOnlyGrows == Spec => TranscriptGrows
<1>1. ASSUME TurnsInv, TurnsInv', [Next]_vars
      PROVE  [\A m \in Message : turn'[m].pc # None => IsPrefix(turn[m].sent, turn'[m].sent)]_vars
  <2> SUFFICES ASSUME Next, NEW m \in Message, turn'[m].pc # None PROVE IsPrefix(turn[m].sent, turn'[m].sent)
    BY <1>1
  <2>1. turn[m] \in RunRec /\ RunOK(turn[m]) /\ turn[m].sent \in Seq(Piece)
    BY <1>1, RunFields DEF TurnsInv, Types
  <2>2. CASE turn'[m].sent = turn[m].sent
    BY <2>1, <2>2, PrefixOfSelf
  <2>3. CASE SentNext(m)
    <3> DEFINE s == turn[m].sent
               t == Spliced(turn[m].state, PlacedNow(turn[m]))
    <3>1. t \in Seq(Piece) /\ Len(s) <= Len(t) /\ \A n \in 1..Len(s) : t[n] = s[n]
      BY <2>1, SentGrows
    <3>2. IsPrefix(s, t)
      BY <2>1, <3>1, PrefixByElements
    <3> QED
      BY <2>3, <3>2 DEF SentNext
  <2> QED
    BY <1>1, <2>2, <2>3, SentStays
<1> QED
  BY <1>1, TurnsInvAlways, PTL DEF Spec, TranscriptGrows

-----------------------------------------------------------------------------
(* What a turn reads.                                                      *)

(* The session, with a message and a reply for each turn, fits in what a   *)
(* turn loads of it.                                                       *)
Roomy == IsFiniteSet(Message) /\ 2 * Cardinality(Message) <= Window

LEMMA LogFits ==
    ASSUME TurnsInv, Roomy
    PROVE  Len(log) <= Window
<1>1. /\ Len(log) \in Nat /\ DOMAIN log = 1..Len(log)
      /\ \A i \in 1..Len(log) : log[i].of \in Message /\ log[i].role \in {"user", "assistant"}
  BY EntryType DEF TurnsInv
<1> DEFINE Role == {"user", "assistant"}
           f == [i \in 1..Len(log) |-> <<log[i].role, log[i].of>>]
<1>2. f \in [1..Len(log) -> Role \X Message]
  BY <1>1
<1>3. \A i, j \in 1..Len(log) : f[i] = f[j] => i = j
  BY <1>1 DEF TurnsInv, LogOK
<1>4. f \in Injection(1..Len(log), Role \X Message)
  BY <1>2, <1>3 DEF Injection, IsInjective
<1>5. IsFiniteSet(Role) /\ Cardinality(Role) = 2
  <2>1. IsFiniteSet({"user"}) /\ Cardinality({"user"}) = 1
    BY FS_Singleton
  <2>2. IsFiniteSet({"user"} \cup {"assistant"}) /\ Cardinality({"user"} \cup {"assistant"}) = Cardinality({"user"}) + 1
    BY <2>1, FS_AddElement
  <2>3. {"user"} \cup {"assistant"} = Role
    OBVIOUS
  <2> QED
    BY <2>1, <2>2, <2>3
<1> HIDE DEF Role, f
<1>6. Cardinality(Message) \in Nat
  BY FS_CardinalityType DEF Roomy
<1>7. IsFiniteSet(Role \X Message) /\ Cardinality(Role \X Message) = 2 * Cardinality(Message)
  BY <1>5, FS_Product DEF Roomy
<1>8. Cardinality(1..Len(log)) <= Cardinality(Role \X Message)
  BY <1>4, <1>7, FS_Injection
<1>9. Cardinality(1..Len(log)) = Len(log)
  BY <1>1, FS_Interval
<1> QED
  BY <1>1, <1>6, <1>7, <1>8, <1>9, TurnAssumption DEF Roomy

Words(s) == Cardinality({i \in DOMAIN s : s[i] # "tools"})

LEMMA WordsOfMessages ==
    ASSUME NEW s \in Seq(Message)
    PROVE  Words(s) = Len(s)
<1>1. Len(s) \in Nat /\ DOMAIN s = 1..Len(s) /\ \A i \in 1..Len(s) : s[i] # "tools"
  BY NoneIsNoMessage
<1>2. {i \in DOMAIN s : s[i] # "tools"} = 1..Len(s)
  BY <1>1
<1>3. Cardinality(1..Len(s)) = Len(s)
  BY <1>1, FS_Interval
<1> QED
  BY <1>2, <1>3 DEF Words

LEMMA ToolsAreNoWords ==
    ASSUME NEW s \in Seq(Piece)
    PROVE  Words(Append(s, "tools")) = Words(s) /\ Range(s) \subseteq Range(Append(s, "tools"))
<1> DEFINE t == Append(s, "tools")
<1>1. "tools" \in Piece
  BY DEF Piece
<1>2. /\ Len(s) \in Nat /\ DOMAIN s = 1..Len(s) /\ DOMAIN t = 1..(Len(s) + 1)
      /\ t[Len(s) + 1] = "tools" /\ \A i \in 1..Len(s) : t[i] = s[i]
  BY <1>1
<1> HIDE DEF t
<1>3. {i \in DOMAIN t : t[i] # "tools"} = {i \in DOMAIN s : s[i] # "tools"}
  BY <1>2
<1>4. Range(s) \subseteq Range(t)
  BY <1>2 DEF Range
<1> QED
  BY <1>3, <1>4 DEF Words, t

(* The turn r of m, once it has loaded its history, has its own message in *)
(* it, and has sent it when the model answers; and the history goes as far *)
(* as the last reply of the session.                                       *)
Held == {"setup", "call", "answer", "close", "store"}
Read(m, r) ==
    /\ r.pc \in Held => m \in Range(r.state)
    /\ r.pc = "answer" \/ (r.pc = "close" /\ ~r.err) \/ (r.pc = "store" /\ r.stop = "end_turn") => m \in Range(r.sent)
Knows(l, r) ==
    r.pc \in Held => \A i \in DOMAIN l : l[i].role = "assistant" => i <= Words(r.state)

ReadsInv ==
    /\ \A m \in Message : Read(m, turn[m]) /\ Knows(log, turn[m])
    /\ SeesEarlierReplies /\ OwnMessageRead

NoReplyAdded == log' = log \/ \E m \in Message : log' = Append(log, ByUser(m))

LEMMA OldReplies ==
    ASSUME Types, NoReplyAdded
    PROVE  /\ \A r : Knows(log, r) => Knows(log', r)
           /\ SeesEarlierReplies => SeesEarlierReplies'
           /\ OwnMessageRead => OwnMessageRead'
<1>1. CASE log' = log
  BY <1>1 DEF SeesEarlierReplies, OwnMessageRead
<1>2. CASE \E m \in Message : log' = Append(log, ByUser(m))
  <2>1. PICK m \in Message : log' = Append(log, ByUser(m))
    BY <1>2
  <2>2. /\ ByUser(m) \in Entry /\ ByUser(m).role = "user" /\ ByUser(m).stop = None
    BY ByUserType
  <2>3. /\ DOMAIN log = 1..Len(log) /\ Len(log) \in Nat /\ DOMAIN log' = 1..(Len(log) + 1)
        /\ log'[Len(log) + 1] = ByUser(m) /\ \A i \in 1..Len(log) : log'[i] = log[i]
    BY <2>1, <2>2 DEF Types
  <2>4. \A i \in DOMAIN log' : (i \in DOMAIN log /\ log'[i] = log[i]) \/ log'[i] = ByUser(m)
    BY <2>3
  <2>5. \A i \in DOMAIN log' : log'[i].role = "assistant" => i \in DOMAIN log /\ log'[i] = log[i]
    BY <2>2, <2>4
  <2>6. \A i \in DOMAIN log' : log'[i].stop = "end_turn" => i \in DOMAIN log /\ log'[i] = log[i]
    BY <2>2, <2>4 DEF None
  <2>7. \A r : Knows(log, r) => Knows(log', r)
    BY <2>5 DEF Knows
  <2>8. SeesEarlierReplies => SeesEarlierReplies'
    BY <2>5 DEF SeesEarlierReplies
  <2>9. OwnMessageRead => OwnMessageRead'
    BY <2>6 DEF OwnMessageRead
  <2> QED
    BY <2>7, <2>8, <2>9
<1> QED
  BY <1>1, <1>2 DEF NoReplyAdded

(* A step of a request that leaves every turn where it is.                 *)
LEMMA CallersReadOn ==
    ASSUME TurnsInv, ReadsInv, NoReplyAdded, \A x \in Message : SameRun(x)
    PROVE  ReadsInv'
<1>1. SeesEarlierReplies' /\ OwnMessageRead'
  BY OldReplies DEF TurnsInv, ReadsInv
<1>2. ASSUME NEW x \in Message PROVE Read(x, turn'[x]) /\ Knows(log', turn'[x])
  <2>1. Read(x, turn[x]) /\ Knows(log', turn[x])
    BY OldReplies DEF TurnsInv, ReadsInv
  <2>2. SameRun(x)
    OBVIOUS
  <2> QED
    BY <2>1, <2>2 DEF SameRun, Read, Knows
<1> QED
  BY <1>1, <1>2 DEF ReadsInv

(* A step of the turn of m, after which it is r.                           *)
LEMMA TurnReadsOn ==
    ASSUME TurnsInv, ReadsInv, NEW m \in Message, turn[m].pc # None, NEW r, turn' = [turn EXCEPT ![m] = r],
           Read(m, r), Knows(log', r), SeesEarlierReplies', OwnMessageRead'
    PROVE  ReadsInv'
<1>1. turn'[m] = r /\ \A x \in Message \ {m} : turn'[x] = NoRun
  BY Alone DEF TurnsInv, Types
<1>2. ASSUME NEW x \in Message \ {m} PROVE Read(x, turn'[x]) /\ Knows(log', turn'[x])
  BY <1>1, NoRunOK DEF Read, Knows, Held, None
<1> QED
  BY <1>1, <1>2 DEF ReadsInv

LEMMA NotHeld ==
    ASSUME NEW m, NEW l, NEW r, r.pc \in {None, "save", "load", "fail", "end"}
    PROVE  Read(m, r) /\ Knows(l, r)
BY DEF Read, Knows, Held, None

(* A step of the turn of m that stores no reply.                           *)
LEMMA ReadsOn ==
    ASSUME TurnsInv, ReadsInv, NEW m \in Message, turn[m].pc # None, NEW r, turn' = [turn EXCEPT ![m] = r],
           Read(m, r), Knows(log, r), NoReplyAdded
    PROVE  ReadsInv'
<1>1. SeesEarlierReplies' /\ OwnMessageRead' /\ Knows(log', r)
  BY OldReplies DEF TurnsInv, ReadsInv
<1> QED
  BY <1>1, TurnReadsOn

LEMMA SaveReads ==
    ASSUME TurnsInv, ReadsInv, NEW m \in Message, Save(m)
    PROVE  ReadsInv'
<1>1. turn[m] \in RunRec /\ turn[m].pc # None
  BY DEF TurnsInv, Types, Save, In, None
<1>2. \E pc \in {"load", "end"} : turn' = [turn EXCEPT ![m] = [turn[m] EXCEPT !.pc = pc]]
  BY DEF Save, Step, Becomes
<1>3. PICK pc \in {"load", "end"} : turn' = [turn EXCEPT ![m] = [turn[m] EXCEPT !.pc = pc]]
  BY <1>2
<1> DEFINE to == [turn[m] EXCEPT !.pc = pc]
<1>4. turn' = [turn EXCEPT ![m] = to] /\ to.pc = pc
  BY <1>1, <1>3 DEF RunRec
<1> HIDE DEF to
<1>5. Read(m, to) /\ Knows(log, to)
  BY <1>4, NotHeld
<1>6. NoReplyAdded
  BY DEF Save, Step, NoReplyAdded
<1> QED
  BY <1>1, <1>4, <1>5, <1>6, ReadsOn

LEMMA SetupFailsReads ==
    ASSUME TurnsInv, ReadsInv, NEW m \in Message, SetupFails(m)
    PROVE  ReadsInv'
<1> DEFINE to == [turn[m] EXCEPT !.pc = "fail"]
<1>1. turn[m] \in RunRec /\ turn[m].pc # None
  BY DEF TurnsInv, Types, SetupFails, In, None
<1>2. turn' = [turn EXCEPT ![m] = to] /\ NoReplyAdded
  BY DEF SetupFails, Step, Becomes, NoReplyAdded
<1>3. to.pc = "fail"
  BY <1>1 DEF RunRec
<1> HIDE DEF to
<1>4. Read(m, to) /\ Knows(log, to)
  BY <1>3, NotHeld
<1> QED
  BY <1>1, <1>2, <1>4, ReadsOn

(* The history holds every message and reply there is.                     *)
LEMMA LoadReads ==
    ASSUME TurnsInv, ReadsInv, Roomy, NEW m \in Message, Load(m)
    PROVE  ReadsInv'
<1>1. turn[m] \in RunRec /\ turn[m].pc = "load" /\ turn[m].pc # None /\ NoReplyAdded
  BY DEF TurnsInv, Types, Load, Step, In, None, NoReplyAdded
<1>2. CASE Step(m, "fail")
  <2> DEFINE to == [turn[m] EXCEPT !.pc = "fail"]
  <2>1. turn' = [turn EXCEPT ![m] = to]
    BY <1>2 DEF Step, Becomes
  <2>2. to.pc = "fail"
    BY <1>1 DEF RunRec
  <2> HIDE DEF to
  <2>3. Read(m, to) /\ Knows(log, to)
    BY <2>2, NotHeld
  <2> QED
    BY <1>1, <2>1, <2>3, ReadsOn
<1>3. CASE ~turn[m].cancelled
  <2> DEFINE s == [i \in DOMAIN Loaded |-> Loaded[i].of]
             to == [turn[m] EXCEPT !.pc = "setup", !.state = s]
  <2>1. turn' = [turn EXCEPT ![m] = to]
    BY <1>3 DEF Load, Step, Becomes
  <2>2. to.pc = "setup" /\ to.state = s
    BY <1>1 DEF RunRec
  <2>3. PICK n \in 0..Len(log) :
             /\ (Len(log) <= Window => n = Len(log))
             /\ DOMAIN Loaded = 1..n /\ \A i \in 1..n : Loaded[i] = log[i]
             /\ s \in Seq(Message) /\ Len(s) = n
    BY LoadedType DEF TurnsInv
  <2>4. n = Len(log) /\ DOMAIN log = 1..Len(log)
    BY <2>3, LogFits, EntryType DEF TurnsInv
  <2>5. DOMAIN s = DOMAIN log /\ \A i \in DOMAIN log : s[i] = log[i].of
    BY <2>3, <2>4
  <2> HIDE DEF s
  <2>6. Stored(m)
    <3>1. req[m].saved => Stored(m)
      BY DEF TurnsInv, Asked
    <3>2. req[m].saved
      BY <1>1 DEF TurnsInv, Registered, None
    <3> QED
      BY <3>1, <3>2
  <2>7. m \in Range(s)
    BY <2>5, <2>6 DEF Stored, ByUser, Range
  <2>8. Words(s) = Len(log)
    BY <2>3, <2>4, WordsOfMessages
  <2> HIDE DEF to
  <2>9. Read(m, to) /\ Knows(log, to)
    <3>1. Read(m, to)
      BY <2>2, <2>7 DEF Read
    <3>2. Knows(log, to)
      BY <2>2, <2>3, <2>4, <2>8 DEF Knows
    <3> QED
      BY <3>1, <3>2
  <2> QED
    BY <1>1, <2>1, <2>9, ReadsOn
<1> QED
  BY <1>2, <1>3 DEF Load

(* The model is sent what the turn holds, its own message with it.         *)
LEMMA CallReads ==
    ASSUME TurnsInv, ReadsInv, NEW m \in Message, Call(m)
    PROVE  ReadsInv'
<1>1. /\ turn[m] \in RunRec /\ RunOK(turn[m]) /\ turn[m].pc # None /\ NoReplyAdded
      /\ Read(m, turn[m]) /\ Knows(log, turn[m]) /\ turn[m].pc \in Held
  BY DEF TurnsInv, Types, ReadsInv, Call, In, None, NoReplyAdded, Held
<1>2. CASE Becomes(m, [turn[m] EXCEPT !.pc = "close", !.err = TRUE])
  <2> DEFINE to == [turn[m] EXCEPT !.pc = "close", !.err = TRUE]
  <2>1. turn' = [turn EXCEPT ![m] = to]
    BY <1>2 DEF Becomes
  <2>2. to.pc = "close" /\ to.err /\ to.state = turn[m].state
    BY <1>1 DEF RunRec
  <2> HIDE DEF to
  <2>3. Read(m, to) /\ Knows(log, to)
    BY <1>1, <2>2 DEF Read, Knows
  <2> QED
    BY <1>1, <2>1, <2>3, ReadsOn
<1>3. CASE Becomes(m, [turn[m] EXCEPT !.pc = "answer", !.calls = @ + 1, !.inbox = <<>>,
                                      !.placed = PlacedNow(turn[m]), !.sent = Spliced(turn[m].state, PlacedNow(turn[m]))])
  <2> DEFINE r == turn[m]
             p == PlacedNow(r)
             t == Spliced(r.state, p)
             to == [r EXCEPT !.pc = "answer", !.calls = @ + 1, !.inbox = <<>>, !.placed = p, !.sent = t]
  <2>1. turn' = [turn EXCEPT ![m] = to]
    BY <1>3 DEF Becomes
  <2>2. to.pc = "answer" /\ to.state = r.state /\ to.sent = t
    BY <1>1 DEF RunRec
  <2> HIDE DEF to
  <2>3. m \in Range(t)
    <3>1. r.state \in Seq(Piece) /\ p \in Seq(PlacedMsg) /\ InOrder(p, Len(r.state))
      BY <1>1, RunFields, PlacedNowType
    <3>2. PICK i \in 1..Len(r.state) : r.state[i] = m
      BY <1>1, <3>1 DEF Read, Range
    <3> HIDE DEF p, r
    <3> QED
      BY <3>1, <3>2, SplicedKeeps
  <2>4. Read(m, to)
    BY <1>1, <2>2, <2>3 DEF Read
  <2>5. Knows(log, to)
    BY <1>1, <2>2 DEF Knows
  <2> QED
    BY <1>1, <2>1, <2>4, <2>5, ReadsOn
<1> QED
  BY <1>2, <1>3 DEF Call, PlacedNow

LEMMA AnswerReads ==
    ASSUME TurnsInv, ReadsInv, NEW m \in Message, Answer(m)
    PROVE  ReadsInv'
<1>1. /\ turn[m] \in RunRec /\ turn[m].pc = "answer" /\ turn[m].pc # None /\ NoReplyAdded
      /\ Read(m, turn[m]) /\ Knows(log, turn[m])
  BY DEF TurnsInv, Types, ReadsInv, Answer, In, None, NoReplyAdded
<1>2. m \in Range(turn[m].sent) /\ m \in Range(turn[m].state)
  BY <1>1 DEF Read, Held
<1>3. CASE \E to : /\ turn' = [turn EXCEPT ![m] = to] /\ to.pc = "close"
                   /\ to.state = turn[m].state /\ to.sent = turn[m].sent
  <2>1. PICK to : /\ turn' = [turn EXCEPT ![m] = to] /\ to.pc = "close"
                  /\ to.state = turn[m].state /\ to.sent = turn[m].sent
    BY <1>3
  <2>2. Read(m, to) /\ Knows(log, to)
    BY <1>1, <1>2, <2>1 DEF Read, Knows, Held
  <2> QED
    BY <1>1, <2>1, <2>2, ReadsOn
<1>4. CASE Becomes(m, [turn[m] EXCEPT !.pc = "close"])
  <2> DEFINE to == [turn[m] EXCEPT !.pc = "close"]
  <2>1. to.pc = "close" /\ to.state = turn[m].state /\ to.sent = turn[m].sent
    BY <1>1 DEF RunRec
  <2> QED
    BY <1>3, <1>4, <2>1 DEF Becomes
<1>5. CASE Becomes(m, [turn[m] EXCEPT !.pc = "close", !.err = TRUE])
  <2> DEFINE to == [turn[m] EXCEPT !.pc = "close", !.err = TRUE]
  <2>1. to.pc = "close" /\ to.state = turn[m].state /\ to.sent = turn[m].sent
    BY <1>1 DEF RunRec
  <2> QED
    BY <1>3, <1>5, <2>1 DEF Becomes
<1>6. CASE Becomes(m, [turn[m] EXCEPT !.pc = "call", !.state = Append(@, "tools")])
  <2> DEFINE u == Append(turn[m].state, "tools")
             to == [turn[m] EXCEPT !.pc = "call", !.state = u]
  <2>1. turn' = [turn EXCEPT ![m] = to]
    BY <1>1, <1>6 DEF Becomes, RunRec
  <2>2. to.pc = "call" /\ to.state = u
    BY <1>1 DEF RunRec
  <2>3. Words(u) = Words(turn[m].state) /\ m \in Range(u)
    BY <1>1, <1>2, RunFields, ToolsAreNoWords
  <2> HIDE DEF to, u
  <2>4. Read(m, to)
    BY <2>2, <2>3 DEF Read
  <2>5. Knows(log, to)
    BY <1>1, <2>2, <2>3 DEF Knows, Held
  <2> QED
    BY <1>1, <2>1, <2>4, <2>5, ReadsOn
<1> QED
  BY <1>4, <1>5, <1>6 DEF Answer

LEMMA CloseReads ==
    ASSUME TurnsInv, ReadsInv, NEW m \in Message, Close(m)
    PROVE  ReadsInv'
<1> DEFINE v == Verdict(turn[m])
           to == [turn[m] EXCEPT !.pc = "store", !.closed = TRUE, !.left = turn[m].inbox, !.inbox = <<>>, !.stop = v]
<1>1. /\ turn[m] \in RunRec /\ turn[m].pc = "close" /\ turn[m].pc # None /\ NoReplyAdded
      /\ Read(m, turn[m]) /\ Knows(log, turn[m])
  BY DEF TurnsInv, Types, ReadsInv, Close, In, None, NoReplyAdded
<1>2. turn' = [turn EXCEPT ![m] = to]
  BY DEF Close, Becomes
<1>3. to.pc = "store" /\ to.state = turn[m].state /\ to.sent = turn[m].sent /\ to.stop = v
  BY <1>1 DEF RunRec
<1>4. v = "end_turn" => ~turn[m].err
  BY DEF Verdict
<1> HIDE DEF to, v
<1>5. Read(m, to)
  BY <1>1, <1>3, <1>4 DEF Read, Held
<1>6. Knows(log, to)
  BY <1>1, <1>3 DEF Knows, Held
<1> QED
  BY <1>1, <1>2, <1>5, <1>6, ReadsOn

(* The reply of a turn that reached the model has every earlier one in its *)
(* history.                                                                *)
LEMMA StoreReads ==
    ASSUME TurnsInv, ReadsInv, NEW m \in Message, Store(m)
    PROVE  ReadsInv'
<1>1. /\ turn[m] \in RunRec /\ turn[m].pc \in {"store", "fail"} /\ turn[m].pc # None /\ Life(turn[m])
      /\ Read(m, turn[m]) /\ Knows(log, turn[m]) /\ Types
  BY DEF TurnsInv, Types, RunOK, ReadsInv, Store, In, None
<1>2. CASE log' = log /\ Becomes(m, [turn[m] EXCEPT !.pc = "end", !.stop = "lost"])
  <2> DEFINE to == [turn[m] EXCEPT !.pc = "end", !.stop = "lost"]
  <2>1. turn' = [turn EXCEPT ![m] = to] /\ NoReplyAdded
    BY <1>2 DEF Becomes, NoReplyAdded
  <2>2. to.pc = "end"
    BY <1>1 DEF RunRec
  <2> HIDE DEF to
  <2>3. Read(m, to) /\ Knows(log, to)
    BY <2>2, NotHeld
  <2> QED
    BY <1>1, <2>1, <2>3, ReadsOn
<1>3. CASE /\ log' = Append(log, Reply(m, IF In(m, "fail") THEN "error" ELSE turn[m].stop))
           /\ Becomes(m, [turn[m] EXCEPT !.pc = "end"])
  <2> DEFINE to == [turn[m] EXCEPT !.pc = "end"]
             stop == IF In(m, "fail") THEN "error" ELSE turn[m].stop
             e == Reply(m, stop)
  <2>1. turn' = [turn EXCEPT ![m] = to]
    BY <1>3 DEF Becomes
  <2>2. to.pc = "end"
    BY <1>1 DEF RunRec
  <2> HIDE DEF to
  <2>3. Read(m, to) /\ Knows(log', to)
    BY <2>2, NotHeld
  <2>4. stop \in Stop
    BY <1>1, RunFields DEF Life, Stop
  <2>5. stop = "end_turn" => turn[m].pc = "store" /\ turn[m].stop = "end_turn"
    BY <1>1 DEF In
  <2> HIDE DEF stop
  <2>6. /\ e \in Entry /\ e.role = "assistant" /\ e.of = m
        /\ e.read = Message \cap Range(turn[m].sent) /\ e.stop = stop /\ e.hist = Words(turn[m].state)
    BY <2>4, ReplyType DEF Words
  <2>7. log' = Append(log, e)
    BY <1>3 DEF stop
  <2> HIDE DEF e
  <2>8. /\ DOMAIN log = 1..Len(log) /\ Len(log) \in Nat /\ DOMAIN log' = 1..(Len(log) + 1)
        /\ log'[Len(log) + 1] = e /\ \A i \in 1..Len(log) : log'[i] = log[i]
    BY <1>1, <2>6, <2>7 DEF Types
  <2>9. \A i \in DOMAIN log' : (i \in DOMAIN log /\ log'[i] = log[i]) \/ (i = Len(log) + 1 /\ log'[i] = e)
    BY <2>8
  <2>10. e.stop = "end_turn" => m \in e.read
    BY <1>1, <2>5, <2>6 DEF Read
  <2>11. e.read # {} => \A i \in DOMAIN log : log[i].role = "assistant" => e.hist >= i
    <3>1. CASE turn[m].pc = "fail"
      <4>1. turn[m].sent = <<>>
        BY <1>1, <3>1 DEF Life
      <4>2. e.read = {}
        BY <2>6, <4>1 DEF Range
      <4> QED
        BY <4>2
    <3>2. CASE turn[m].pc = "store"
      <4>1. e.hist \in Nat
        BY <2>6 DEF Entry
      <4>2. \A i \in DOMAIN log : log[i].role = "assistant" => i <= Words(turn[m].state)
        BY <1>1, <3>2 DEF Knows, Held
      <4> QED
        BY <2>6, <2>8, <4>1, <4>2
    <3> QED
      BY <1>1, <3>1, <3>2
  <2>12. OwnMessageRead'
    <3> SUFFICES ASSUME NEW i \in DOMAIN log', log'[i].stop = "end_turn" PROVE log'[i].of \in log'[i].read
      BY DEF OwnMessageRead
    <3>1. CASE i \in DOMAIN log /\ log'[i] = log[i]
      BY <3>1 DEF ReadsInv, OwnMessageRead
    <3>2. CASE log'[i] = e
      BY <2>6, <2>10, <3>2
    <3> QED
      BY <2>9, <3>1, <3>2
  <2>13. SeesEarlierReplies'
    <3> SUFFICES ASSUME NEW i \in DOMAIN log', NEW j \in DOMAIN log', i < j, log'[i].role = "assistant",
                        log'[j].role = "assistant", log'[j].read # {}
                 PROVE  log'[j].hist >= i
      BY DEF SeesEarlierReplies
    <3>1. i \in DOMAIN log /\ log'[i] = log[i]
      BY <2>8
    <3>2. CASE j \in DOMAIN log /\ log'[j] = log[j]
      BY <3>1, <3>2 DEF ReadsInv, SeesEarlierReplies
    <3>3. CASE log'[j] = e
      BY <2>11, <3>1, <3>3
    <3> QED
      BY <2>9, <3>2, <3>3
  <2> QED
    BY <1>1, <2>1, <2>3, <2>12, <2>13, TurnReadsOn
<1> QED
  BY <1>2, <1>3 DEF Store

LEMMA ReleaseReads ==
    ASSUME TurnsInv, ReadsInv, NEW m \in Message, Release(m)
    PROVE  ReadsInv'
<1>1. turn[m].pc # None /\ turn' = [turn EXCEPT ![m] = NoRun] /\ NoReplyAdded
  BY DEF Release, In, None, NoReplyAdded
<1>2. Read(m, NoRun) /\ Knows(log, NoRun)
  BY NoRunOK, NotHeld
<1> QED
  BY <1>1, <1>2, ReadsOn

LEMMA RequestsReadOn ==
    ASSUME TurnsInv, ReadsInv, NEW m \in Message, Send(m) \/ Leave(m) \/ CallStep(m)
    PROVE  ReadsInv'
<1>1. CASE Acquire(m) /\ Free
  <2> DEFINE to == [NoRun EXCEPT !.pc = "save"]
  <2>1. turn' = [turn EXCEPT ![m] = to] /\ log' = log
    BY <1>1 DEF Acquire
  <2>2. to.pc = "save"
    BY DEF NoRun
  <2> HIDE DEF to
  <2>3. Read(m, to) /\ Knows(log, to)
    BY <2>2, NotHeld
  <2>4. turn \in [Message -> RunRec]
    BY DEF TurnsInv, Types
  <2>5. turn'[m] = to /\ \A x \in Message \ {m} : turn'[x] = turn[x]
    BY <2>1, <2>4
  <2> QED
    BY <2>1, <2>3, <2>5 DEF ReadsInv, SeesEarlierReplies, OwnMessageRead
<1>2. CASE ~(Acquire(m) /\ Free)
  <2>1. Send(m) \/ Leave(m) \/ (Acquire(m) /\ ~Free) \/ Interrupt(m) \/ Persist(m) \/ Push(m) \/ Waited(m)
    BY <1>2 DEF CallStep
  <2>2. \A x \in Message : SameRun(x)
    BY <2>1, CallersLeaveRuns
  <2>3. NoReplyAdded
    BY <2>1 DEF Send, Leave, Acquire, Interrupt, Persist, Push, Waited, NoReplyAdded
  <2> QED
    BY <2>2, <2>3, CallersReadOn
<1> QED
  BY <1>1, <1>2

(* What the session stores of its turns is a conversation: every turn that *)
(* reached the model had the earlier replies in its history, since turns   *)
(* run one at a time (runRegistry), and one that ended normally read its   *)
(* own message.  Hypothesis: the session fits in a turn's window of 500.   *)
THEOREM TranscriptIsSound ==
    ASSUME Roomy
    PROVE  Spec => []TranscriptSound
<1>1. Init => ReadsInv
  <2> SUFFICES ASSUME Init PROVE ReadsInv
    OBVIOUS
  <2>1. DOMAIN log = {} /\ \A x \in Message : turn[x] = NoRun
    BY DEF Init
  <2>2. \A x \in Message : Read(x, turn[x]) /\ Knows(log, turn[x])
    BY <2>1, NoRunOK, NotHeld
  <2> QED
    BY <2>1, <2>2 DEF ReadsInv, SeesEarlierReplies, OwnMessageRead
<1>2. ReadsInv /\ TurnsInv /\ [Next]_vars => ReadsInv'
  <2> SUFFICES ASSUME ReadsInv, TurnsInv, [Next]_vars PROVE ReadsInv'
    OBVIOUS
  <2>1. ASSUME NEW m \in Message, TurnStep(m) PROVE ReadsInv'
    BY <2>1, SaveReads, LoadReads, SetupFailsReads, CallReads, AnswerReads, CloseReads, StoreReads, ReleaseReads DEF TurnStep
  <2>2. CASE UNCHANGED vars
    BY <2>2 DEF vars, ReadsInv, SeesEarlierReplies, OwnMessageRead
  <2> QED
    BY <2>1, <2>2, RequestsReadOn DEF Next
<1>3. TurnsInv /\ ReadsInv => TranscriptSound
  <2>1. TurnsInv => StoredOnce
    BY DEF TurnsInv, LogOK, StoredOnce
  <2> QED
    BY <2>1, TurnsTyped DEF ReadsInv, TranscriptSound
<1> QED
  BY <1>1, <1>2, <1>3, TurnsInvAlways, PTL DEF Spec
=============================================================================
