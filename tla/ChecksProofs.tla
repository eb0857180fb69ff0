------------------------------ MODULE ChecksProofs ------------------------------
(***************************************************************************)
(* Theorems about Checks, for any runs, requests, documents, steps and     *)
(* bounds, however tasks and requests die: a run that one evaluates at a   *)
(* time never shows a result older than what it was asked for, and has     *)
(* every document under the contract that was chosen, or under the one the *)
(* steps tell.  And about CheckExpr, for any types, documents and values:  *)
(* what is missing decides nothing, rows add up to the outcome, and a      *)
(* verdict is not turned round by a value that is filled in.               *)
(***************************************************************************)
EXTENDS Checks, CheckExpr, SequenceTheorems, FiniteSetTheorems, WellFoundedInduction, TLAPS

-----------------------------------------------------------------------------
(* Types.                                                                  *)

Chosen == Contract \cup {BySteps, None}
Answers == [DOMAIN Steps -> IF "ai" \in ToSet(Steps) THEN Contract \cup {None, Unsure} ELSE {Unsure}]
Places == {Absent} \cup {Place(choice, says, answers) :
                            choice \in Chosen, says \in [DOMAIN Steps -> [Contract -> Verdict]], answers \in Answers}
Results == [seen : Nat, links : [Doc -> Chosen], world : SUBSET Worlds, place : [Doc -> Places]]
Statuses == {"none", "pending", "running", "done", "failed", "deleted"}
RunRow == [status : Statuses, asked : Nat, result : Results]
Pcs == {"none", "load", "view", "links", "store", "queued", "build", "built", "not built", "insert"}
AtRow == [pc : Pcs, run : Run, try : Nat, asked : Nat, seen : Nat, world : SUBSET Worlds, links : [Doc -> Chosen]]

TypeInv ==
    /\ run \in [Run -> RunRow]
    /\ sheet \in [Run -> {"none", "pending", "done", "failed", "deleted"}]
    /\ world \in Worlds /\ links \in [Doc -> Chosen]
    /\ at \in [Actor -> AtRow]
    /\ used \in [req : Nat, change : Nat]

Active(a) == at[a].pc # "none"

(* What an actor at work knows: nothing newer than there is; and once it   *)
(* has seen the values, nothing older than it was asked for, nor than its  *)
(* run's last evaluation was.                                              *)
Fits(a) ==
    /\ at[a].asked <= used.change /\ at[a].seen <= used.change
    /\ at[a].pc \in {"links", "store"} => at[a].seen >= at[a].asked /\ at[a].seen >= run[at[a].run].asked
    /\ a \in Run => at[a].run = a /\ at[a].pc # "insert"
    /\ sheet[at[a].run] # "none"

Sane(r) ==
    /\ run[r].asked <= used.change /\ run[r].result.seen <= used.change
    /\ sheet[r] = "none" => run[r].status = "none"
    /\ run[r].status = "done" => run[r].result.seen >= run[r].asked

(* One at a time works on a run, but for the request that inserts it.      *)
Alone == \A a, b \in Actor : Active(a) /\ Active(b) /\ at[a].run = at[b].run /\ a # b => at[a].pc = "insert" \/ at[b].pc = "insert"

FreshInv ==
    /\ \A a \in Actor : Active(a) => Fits(a)
    /\ \A r \in Run : Sane(r)
    /\ Alone

LEMMA IdleType == Run # {} => Idle \in AtRow /\ Idle.pc = "none"
<1> SUFFICES ASSUME Run # {} PROVE Idle \in AtRow /\ Idle.pc = "none"
  OBVIOUS
<1>1. PICK r \in Run : r = CHOOSE q \in Run : TRUE
  OBVIOUS
<1>2. Idle = [pc |-> "none", run |-> r, try |-> 0, asked |-> 0, seen |-> 0, world |-> {}, links |-> [d \in Doc |-> BySteps]]
  BY <1>1 DEF Idle
<1> QED
  BY <1>2 DEF AtRow, Pcs, Chosen

LEMMA NoRunType == NoRun \in RunRow /\ NoRun.status = "none" /\ NoRun.asked = 0 /\ NoRun.result.seen = 0
<1>1. NoResult \in Results /\ NoResult.seen = 0
  BY DEF NoResult, Results, Chosen, Places
<1> QED
  BY <1>1 DEF NoRun, RunRow, Statuses

LEMMA ActorFields ==
    ASSUME TypeInv, NEW a \in Actor
    PROVE  /\ at[a] \in AtRow /\ at[a].run \in Run /\ at[a].asked \in Nat /\ at[a].seen \in Nat /\ at[a].try \in Nat /\ at[a].pc \in Pcs
           /\ at[a].world \subseteq Worlds /\ at[a].links \in [Doc -> Chosen]
<1>1. at[a] \in AtRow
  BY DEF TypeInv
<1> QED
  BY <1>1 DEF AtRow

LEMMA RunFields ==
    ASSUME TypeInv, NEW r \in Run
    PROVE  /\ run[r] \in RunRow /\ run[r].asked \in Nat /\ run[r].result.seen \in Nat /\ used.change \in Nat
           /\ run[r].status \in Statuses /\ run[r].result \in Results
<1>1. run[r] \in RunRow /\ used.change \in Nat
  BY DEF TypeInv
<1> QED
  BY <1>1 DEF RunRow, Results

(* SetStatus touches the status of a run that is there.                    *)
LEMMA StatusKeeps ==
    ASSUME TypeInv, FreshInv, NEW r \in Run, NEW to \in Statuses \ {"done", "none"}, SetStatus(r, to) \/ UNCHANGED run
    PROVE  /\ run' \in [Run -> RunRow]
           /\ \A k \in Run : /\ run'[k].asked = run[k].asked /\ run'[k].result = run[k].result
                             /\ run'[k].status = "done" => run[k].status = "done"
                             /\ run[k].status = "none" => run'[k].status = "none"
<1>1. CASE UNCHANGED run
  BY <1>1 DEF TypeInv
<1>2. CASE Exists(r) /\ run' = [run EXCEPT ![r].status = to]
  <2>1. run[r] \in RunRow
    BY RunFields
  <2>2. PICK x : x = [run[r] EXCEPT !.status = to]
    OBVIOUS
  <2>3. x \in RunRow /\ x.asked = run[r].asked /\ x.result = run[r].result /\ x.status = to
    BY <2>1, <2>2 DEF RunRow
  <2>4. run' = [run EXCEPT ![r] = x]
    BY <1>2, <2>2
  <2>5. run' \in [Run -> RunRow] /\ \A k \in Run : run'[k] = IF k = r THEN x ELSE run[k]
    BY <2>3, <2>4 DEF TypeInv
  <2>6. run[r].status # "none"
    BY <1>2 DEF Exists
  <2> QED
    BY <2>3, <2>5, <2>6
<1> QED
  BY <1>1, <1>2 DEF SetStatus

(* A step of one actor, or of none.                                        *)
LEMMA FreshMoves ==
    ASSUME TypeInv, TypeInv', FreshInv, NEW a \in Actor,
           \A b \in Actor : b # a => at'[b] = at[b],
           used'.change >= used.change,
           \A r \in Run : Sane(r)',
           \A r \in Run : sheet'[r] = "none" => sheet[r] = "none",
           \A r \in Run : run'[r].asked <= run[r].asked \/ \A b \in Actor : b # a /\ Active(b) /\ at[b].run = r => at[b].pc = "insert",
           Active(a)' => Fits(a)',
           Active(a)' => \/ Active(a) /\ at'[a].run = at[a].run /\ (at[a].pc = "insert" => at'[a].pc = "insert")
                         \/ \A b \in Actor : b # a /\ Active(b) => at[b].run # at'[a].run
    PROVE  FreshInv'
<1>1. ASSUME NEW b \in Actor, Active(b)' PROVE Fits(b)'
  <2>1. CASE b = a
    BY <1>1, <2>1
  <2>2. CASE b # a
    <3>1. at'[b] = at[b] /\ Fits(b)
      BY <1>1, <2>2 DEF FreshInv, Active
    <3>2. at[b].run \in Run /\ at[b].asked \in Nat /\ at[b].seen \in Nat /\ used.change \in Nat /\ used'.change \in Nat
      BY ActorFields DEF TypeInv
    <3>3. run[at[b].run].asked \in Nat /\ run'[at[b].run].asked \in Nat
      BY <3>2, RunFields DEF TypeInv, RunRow
    <3>4. at[b].asked <= used'.change /\ at[b].seen <= used'.change
      BY <3>1, <3>2 DEF Fits
    <3>5. at[b].pc \in {"links", "store"} => at[b].seen >= at[b].asked /\ at[b].seen >= run'[at[b].run].asked
      <4>1. ASSUME at[b].pc \in {"links", "store"} PROVE run'[at[b].run].asked <= run[at[b].run].asked
        BY <1>1, <2>2, <3>1, <3>2, <4>1 DEF Active
      <4> QED
        BY <3>1, <3>2, <3>3, <4>1 DEF Fits
    <3> QED
      BY <3>1, <3>2, <3>4, <3>5 DEF Fits
  <2> QED
    BY <2>1, <2>2
<1>2. ASSUME NEW b \in Actor, NEW c \in Actor, Active(b)', Active(c)', at'[b].run = at'[c].run, b # c
      PROVE  at'[b].pc = "insert" \/ at'[c].pc = "insert"
  <2>1. CASE b # a /\ c # a
    BY <1>2, <2>1 DEF FreshInv, Alone, Active
  <2>2. ASSUME NEW o \in Actor, o # a, Active(o)', Active(a)', at'[o].run = at'[a].run PROVE at'[o].pc = "insert" \/ at'[a].pc = "insert"
    <3>1. at'[o] = at[o] /\ Active(o)
      BY <2>2 DEF Active
    <3>2. Active(a) /\ at'[a].run = at[a].run /\ (at[a].pc = "insert" => at'[a].pc = "insert")
      BY <2>2, <3>1
    <3> QED
      BY <2>2, <3>1, <3>2 DEF FreshInv, Alone
  <2> QED
    BY <1>2, <2>1, <2>2
<1> QED
  BY <1>1, <1>2 DEF FreshInv, Alone

(* A step that evaluates nothing.                                          *)
Kept ==
    /\ used'.change >= used.change
    /\ \A k \in Run : /\ run'[k].asked <= run[k].asked /\ run'[k].result.seen <= run[k].result.seen
                      /\ run'[k].status = "done" => run[k].status = "done" /\ run'[k].asked = run[k].asked /\ run'[k].result.seen = run[k].result.seen
                      /\ sheet'[k] = "none" => sheet[k] = "none" /\ (run[k].status = "none" => run'[k].status = "none")

(* What the actor is at after it.                                          *)
Lands(a, x) ==
    x.pc # "none" =>
        /\ x.asked <= used'.change /\ x.seen <= used'.change
        /\ x.pc \in {"links", "store"} => x.seen >= x.asked /\ x.seen >= run[x.run].asked
        /\ a \in Run => x.run = a /\ x.pc # "insert"
        /\ sheet[x.run] # "none"
        /\ \/ Active(a) /\ at[a].run = x.run /\ (at[a].pc = "insert" => x.pc = "insert")
           \/ \A b \in Actor : b # a /\ Active(b) => at[b].run # x.run

LEMMA KeptSteps ==
    ASSUME TypeInv, TypeInv', FreshInv, Kept, NEW a \in Actor, NEW x \in AtRow, at' = [at EXCEPT ![a] = x], Lands(a, x)
    PROVE  FreshInv'
<1>1. at'[a] = x /\ \A b \in Actor : b # a => at'[b] = at[b]
  BY DEF TypeInv
<1>2. ASSUME NEW r \in Run PROVE Sane(r)'
  <2>1. Sane(r) /\ used'.change \in Nat /\ run'[r].asked \in Nat /\ run'[r].result.seen \in Nat
    BY DEF FreshInv, TypeInv, RunRow, Results
  <2> QED
    BY <2>1, RunFields DEF Sane, Kept
<1>3. x.run \in Run /\ x.asked \in Nat /\ x.seen \in Nat
  BY DEF AtRow
<1>4. Active(a)' => Fits(a)'
  <2>1. run[x.run].asked \in Nat /\ run'[x.run].asked \in Nat /\ run'[x.run].asked <= run[x.run].asked /\ (sheet'[x.run] = "none" => sheet[x.run] = "none")
    BY <1>3, RunFields DEF Kept, TypeInv, RunRow
  <2> QED
    BY <1>1, <1>3, <2>1 DEF Active, Fits, Lands
<1>5. Active(a)' => \/ Active(a) /\ at'[a].run = at[a].run /\ (at[a].pc = "insert" => at'[a].pc = "insert")
                    \/ \A b \in Actor : b # a /\ Active(b) => at[b].run # at'[a].run
  BY <1>1 DEF Active, Lands
<1>6. (\A r \in Run : sheet'[r] = "none" => sheet[r] = "none") /\ (\A r \in Run : run'[r].asked <= run[r].asked) /\ used'.change >= used.change
  BY DEF Kept
<1> QED
  BY <1>1, <1>2, <1>4, <1>5, <1>6, FreshMoves

LEMMA AtType ==
    ASSUME TypeInv, NEW a \in Actor, NEW x \in AtRow, at' = [at EXCEPT ![a] = x]
    PROVE  at' \in [Actor -> AtRow]
BY DEF TypeInv

(* An actor that goes on with what it knows, or stops.                     *)
LEMMA GoesOn ==
    ASSUME Run # {}, TypeInv, FreshInv, NEW a \in Actor, NEW pc \in Pcs \ {"none", "insert"}, Active(a), at[a].pc # "insert",
           (Goto(a, pc) /\ (pc \in {"links", "store"} => at[a].pc \in {"links", "store"})) \/ Stop(a),
           used'.change \in Nat, used'.change >= used.change
    PROVE  \E x \in AtRow : at' = [at EXCEPT ![a] = x] /\ Lands(a, x)
<1>1. at[a] \in AtRow /\ Fits(a)
  BY ActorFields DEF FreshInv
<1>2. CASE Goto(a, pc) /\ (pc \in {"links", "store"} => at[a].pc \in {"links", "store"})
  <2>1. PICK x : x = [at[a] EXCEPT !.pc = pc]
    OBVIOUS
  <2>2. x \in AtRow /\ x.pc = pc /\ x.run = at[a].run /\ x.asked = at[a].asked /\ x.seen = at[a].seen
    BY <1>1, <2>1 DEF AtRow
  <2>3. at' = [at EXCEPT ![a] = x]
    BY <1>2, <2>1 DEF Goto
  <2>4. at[a].asked <= used'.change /\ at[a].seen <= used'.change
    <3>1. at[a].asked \in Nat /\ at[a].seen \in Nat /\ used.change \in Nat
      BY ActorFields DEF TypeInv
    <3> QED
      BY <1>1, <3>1 DEF Fits
  <2>5. pc \in {"links", "store"} => at[a].seen >= at[a].asked /\ at[a].seen >= run[at[a].run].asked
    BY <1>1, <1>2 DEF Fits
  <2>6. (a \in Run => at[a].run = a) /\ sheet[at[a].run] # "none"
    BY <1>1 DEF Fits
  <2> QED
    BY <2>2, <2>3, <2>4, <2>5, <2>6 DEF Lands
<1>3. CASE Stop(a)
  BY <1>3, IdleType DEF Stop, Lands
<1> QED
  BY <1>2, <1>3

(* A step that gives a run a status, and it is not "done", or none.        *)
LEMMA StatusSteps ==
    ASSUME TypeInv, FreshInv, NEW a \in Actor, NEW x \in AtRow, at' = [at EXCEPT ![a] = x], Lands(a, x),
           NEW r \in Run, NEW to \in Statuses \ {"done", "none"}, SetStatus(r, to) \/ UNCHANGED run,
           used' \in [req : Nat, change : Nat], used'.change >= used.change,
           sheet' \in [Run -> {"none", "pending", "done", "failed", "deleted"}],
           \A k \in Run : sheet'[k] = "none" => sheet[k] = "none",
           world' \in Worlds, links' \in [Doc -> Chosen]
    PROVE  TypeInv' /\ FreshInv'
<1>1. /\ run' \in [Run -> RunRow]
      /\ \A k \in Run : /\ run'[k].asked = run[k].asked /\ run'[k].result = run[k].result
                        /\ run'[k].status = "done" => run[k].status = "done"
                        /\ run[k].status = "none" => run'[k].status = "none"
  BY StatusKeeps
<1>2. TypeInv'
  BY <1>1, AtType DEF TypeInv
<1>3. Kept
  BY <1>1, RunFields DEF Kept
<1> QED
  BY <1>2, <1>3, KeptSteps

LEMMA EvalSteps ==
    ASSUME Run # {}, TypeInv, FreshInv, NEW a \in Actor, Load(a) \/ Breaks(a) \/ View(a) \/ ReadLinks(a)
    PROVE  TypeInv' /\ FreshInv'
<1>1. at[a] \in AtRow /\ at[a].run \in Run /\ Active(a) /\ Fits(a)
  BY ActorFields DEF Active, Load, Breaks, View, ReadLinks, FreshInv
<1>2. sheet' = sheet /\ world' = world /\ links' = links /\ used' = used
  BY DEF Load, Breaks, View, ReadLinks
<1>3. used'.change \in Nat /\ used'.change >= used.change /\ used' \in [req : Nat, change : Nat]
      /\ sheet' \in [Run -> {"none", "pending", "done", "failed", "deleted"}] /\ world' \in Worlds /\ links' \in [Doc -> Chosen]
  BY <1>2 DEF TypeInv
<1>4. ASSUME NEW x \in AtRow, at' = [at EXCEPT ![a] = x], Lands(a, x), NEW r \in Run, NEW to \in Statuses \ {"done", "none"},
             SetStatus(r, to) \/ UNCHANGED run
      PROVE  TypeInv' /\ FreshInv'
  BY <1>2, <1>3, <1>4, StatusSteps
<1>5. ASSUME GiveUp(a), at[a].pc # "insert" PROVE TypeInv' /\ FreshInv'
  <2>1. PICK x \in AtRow : at' = [at EXCEPT ![a] = x] /\ Lands(a, x)
    <3>1. PICK pc \in Pcs \ {"none", "insert"} : pc = "load"
      BY DEF Pcs
    <3>2. Stop(a)
      BY <1>5 DEF GiveUp
    <3> QED
      BY <1>1, <1>3, <1>5, <3>1, <3>2, GoesOn
  <2>2. PICK r \in Run : r = IF a \in Run THEN a ELSE at[a].run
    BY <1>1
  <2>3. SetStatus(r, "failed") \/ UNCHANGED run
    BY <1>5, <2>2 DEF GiveUp
  <2>4. PICK to \in Statuses \ {"done", "none"} : to = "failed"
    BY DEF Statuses
  <2> QED
    BY <1>4, <2>1, <2>3, <2>4
<1>6. CASE Load(a)
  <2>1. at[a].pc = "load"
    BY <1>6 DEF Load
  <2>2. CASE SetStatus(at[a].run, "running") /\ Goto(a, "view")
    <3>1. PICK x \in AtRow : at' = [at EXCEPT ![a] = x] /\ Lands(a, x)
      <4>1. PICK pc \in Pcs \ {"none", "insert"} : pc = "view"
        BY DEF Pcs
      <4>2. Goto(a, pc) /\ pc \notin {"links", "store"}
        BY <2>2, <4>1
      <4> QED
        BY <1>1, <1>3, <2>1, <4>1, <4>2, GoesOn
    <3>2. PICK to \in Statuses \ {"done", "none"} : to = "running"
      BY DEF Statuses
    <3> QED
      BY <1>1, <1>4, <2>2, <3>1, <3>2
  <2> QED
    BY <1>5, <1>6, <2>1, <2>2 DEF Load
<1>7. CASE Breaks(a)
  BY <1>5, <1>7 DEF Breaks
<1>8. CASE View(a)
  <2>1. PICK w \in SUBSET Worlds : w = IF sheet[at[a].run] = "done" THEN {world} ELSE {}
    BY DEF TypeInv
  <2>2. PICK n \in Nat : n = used.change
    BY DEF TypeInv
  <2>3. PICK x : x = [at[a] EXCEPT !.pc = "links", !.seen = n, !.world = w]
    OBVIOUS
  <2>4. x \in AtRow /\ x.pc = "links" /\ x.seen = n /\ x.run = at[a].run /\ x.asked = at[a].asked
    BY <1>1, <2>3 DEF AtRow, Pcs
  <2>5. at' = [at EXCEPT ![a] = x] /\ UNCHANGED run
    BY <1>8, <2>1, <2>2, <2>3 DEF View
  <2>6. run[at[a].run].asked <= n /\ at[a].asked <= n
    BY <1>1, <2>2 DEF FreshInv, Sane, Fits
  <2>7. at[a].pc = "view"
    BY <1>8 DEF View
  <2>8. Lands(a, x)
    BY <1>1, <1>2, <2>2, <2>4, <2>6, <2>7, RunFields, ActorFields DEF Lands, Fits
  <2>9. PICK to : to \in Statuses \ {"done", "none"}
    BY DEF Statuses
  <2> QED
    BY <1>1, <1>4, <2>4, <2>5, <2>8, <2>9
<1>9. CASE ReadLinks(a)
  <2>1. PICK x : x = [at[a] EXCEPT !.pc = "store", !.links = links]
    OBVIOUS
  <2>2. x \in AtRow /\ x.pc = "store" /\ x.seen = at[a].seen /\ x.run = at[a].run /\ x.asked = at[a].asked
    BY <1>1, <2>1 DEF AtRow, Pcs, TypeInv
  <2>3. at' = [at EXCEPT ![a] = x] /\ UNCHANGED run /\ at[a].pc = "links"
    BY <1>9, <2>1 DEF ReadLinks
  <2>4. Lands(a, x)
    BY <1>1, <1>2, <2>2, <2>3 DEF Lands, Fits
  <2>5. PICK to : to \in Statuses \ {"done", "none"}
    BY DEF Statuses
  <2> QED
    BY <1>1, <1>4, <2>2, <2>3, <2>4, <2>5
<1> QED
  BY <1>6, <1>7, <1>8, <1>9

(* The result is stored: nobody else has seen the values for this run.     *)
LEMMA StoreSteps ==
    ASSUME Run # {}, TypeInv, FreshInv, NEW a \in Actor, NEW answers \in Answer, Store(a, answers)
    PROVE  TypeInv' /\ FreshInv'
<1>1. at[a] \in AtRow /\ at[a].run \in Run /\ Active(a) /\ Fits(a) /\ at[a].pc = "store"
  BY ActorFields DEF Active, Store, FreshInv
<1>2. PICK r \in Run : r = at[a].run
  BY <1>1
<1>3. PICK place \in [Doc -> Places] :
        place = [d \in Doc |-> IF at[a].world = {} THEN Absent
                               ELSE LET w == CHOOSE w \in at[a].world : TRUE IN Place(at[a].links[d], w[d], answers[d])]
  <2>1. ASSUME NEW d \in Doc, at[a].world # {}
        PROVE  LET w == CHOOSE w \in at[a].world : TRUE IN Place(at[a].links[d], w[d], answers[d]) \in Places
    <3>1. PICK v \in at[a].world : v = CHOOSE w \in at[a].world : TRUE
      BY <2>1
    <3>2. v[d] \in [DOMAIN Steps -> [Contract -> Verdict]]
      BY <1>1, <3>1, ActorFields, ChecksAssumption DEF World
    <3>3. answers[d] \in Answers /\ at[a].links[d] \in Chosen
      BY <1>1, ActorFields DEF Answer, Answers
    <3>4. Place(at[a].links[d], v[d], answers[d]) \in Places
      BY <3>2, <3>3 DEF Places
    <3> QED
      BY <3>1, <3>4
  <2>2. Absent \in Places
    BY DEF Places
  <2> QED
    BY <2>1, <2>2
<1>4. PICK n : n = Larger(run[r].asked, at[a].asked)
  OBVIOUS
<1>5. n \in Nat /\ n <= at[a].seen /\ at[a].seen <= used.change /\ at[a].seen \in Nat /\ used.change \in Nat
  BY <1>1, <1>2, <1>4, RunFields, ActorFields DEF Larger, Fits
<1>6. PICK row : row = [status |-> "done", asked |-> n,
                        result |-> [seen |-> at[a].seen, links |-> at[a].links, world |-> at[a].world, place |-> place]]
  OBVIOUS
<1>7. row \in RunRow /\ row.status = "done" /\ row.asked = n /\ row.result.seen = at[a].seen
  BY <1>1, <1>3, <1>5, <1>6, ActorFields DEF RunRow, Results, Statuses
<1>8. run' = IF Exists(r) THEN [run EXCEPT ![r] = row] ELSE run
  <2>1. run' = IF ~Exists(r) THEN run
               ELSE [run EXCEPT ![r] = [status |-> "done", asked |-> Larger(@.asked, at[a].asked),
                           result |-> [seen |-> at[a].seen, links |-> at[a].links, world |-> at[a].world, place |-> place]]]
    BY <1>2, <1>3 DEF Store
  <2> QED
    BY <1>4, <1>6, <2>1
<1>9. run' \in [Run -> RunRow] /\ \A k \in Run : run'[k] = run[k] \/ (k = r /\ run'[k] = row /\ Exists(r))
  BY <1>7, <1>8 DEF TypeInv
<1>10. at' = [at EXCEPT ![a] = Idle] /\ UNCHANGED <<sheet, world, links, used>>
  BY DEF Store, Stop
<1>11. TypeInv' /\ at'[a] = Idle /\ \A b \in Actor : b # a => at'[b] = at[b]
  BY <1>9, <1>10, AtType, IdleType DEF TypeInv
<1>12. ~Active(a)'
  BY <1>11, IdleType DEF Active
<1>13. ASSUME NEW k \in Run PROVE Sane(k)'
  <2>1. Sane(k)
    BY DEF FreshInv
  <2>2. CASE run'[k] = run[k]
    BY <1>10, <2>1, <2>2 DEF Sane
  <2>3. CASE k = r /\ run'[k] = row /\ Exists(r)
    <3>1. sheet[r] # "none"
      BY <1>1, <1>2 DEF Fits
    <3> QED
      BY <1>5, <1>7, <1>10, <2>3, <3>1 DEF Sane
  <2> QED
    BY <1>9, <2>2, <2>3
<1>14. ASSUME NEW k \in Run PROVE run'[k].asked <= run[k].asked \/ \A b \in Actor : b # a /\ Active(b) /\ at[b].run = k => at[b].pc = "insert"
  <2>1. CASE run'[k] = run[k]
    BY <2>1, RunFields
  <2>2. CASE k = r
    BY <1>1, <1>2, <2>2 DEF FreshInv, Alone
  <2> QED
    BY <1>9, <2>1, <2>2
<1>15. (\A k \in Run : sheet'[k] = "none" => sheet[k] = "none") /\ used'.change >= used.change
  BY <1>5, <1>10
<1> QED
  BY <1>11, <1>12, <1>13, <1>14, <1>15, FreshMoves

LEMMA TaskSteps ==
    ASSUME Run # {}, TypeInv, FreshInv, NEW r \in Run,
           TaskStart(r) \/ Built(r) \/ (\E last \in BOOLEAN : NotBuilt(r, last)) \/ AfterBuild(r) \/ TryAgain(r)
    PROVE  TypeInv' /\ FreshInv'
<1>1. r \in Actor /\ at[r] \in AtRow /\ Active(r) /\ Fits(r) /\ at[r].pc \notin {"insert", "none", "links", "store"}
  BY ActorFields DEF Actor, Active, TaskStart, Built, NotBuilt, AfterBuild, TryAgain, FreshInv
<1>2. world' = world /\ links' = links /\ used' \in [req : Nat, change : Nat] /\ used'.change \in Nat /\ used'.change >= used.change
  <2>1. used \in [req : Nat, change : Nat]
    BY DEF TypeInv
  <2>2. used' = used \/ used' = [used EXCEPT !.change = used.change + 1]
    BY DEF TaskStart, Built, NotBuilt, AfterBuild, TryAgain, Changed
  <2>3. world' = world /\ links' = links
    BY DEF TaskStart, Built, NotBuilt, AfterBuild, TryAgain
  <2>4. used' \in [req : Nat, change : Nat] /\ used'.change \in Nat /\ used'.change >= used.change
    BY <2>1, <2>2
  <2> QED
    BY <2>3, <2>4
<1>3. sheet' \in [Run -> {"none", "pending", "done", "failed", "deleted"}] /\ \A k \in Run : sheet'[k] = "none" => sheet[k] = "none"
  BY DEF TypeInv, TaskStart, Built, NotBuilt, AfterBuild, TryAgain
<1>4. world' \in Worlds /\ links' \in [Doc -> Chosen]
  BY <1>2 DEF TypeInv
<1>5. ASSUME NEW x \in AtRow, at' = [at EXCEPT ![r] = x], Lands(r, x), SetStatus(r, "failed") \/ UNCHANGED run
      PROVE  TypeInv' /\ FreshInv'
  <2>1. PICK to \in Statuses \ {"done", "none"} : to = "failed"
    BY DEF Statuses
  <2> QED
    BY <1>1, <1>2, <1>3, <1>4, <1>5, <2>1, StatusSteps
<1>6. ASSUME NEW pc, Goto(r, pc) \/ Stop(r), pc \in {"build", "built", "not built"}, SetStatus(r, "failed") \/ UNCHANGED run PROVE TypeInv' /\ FreshInv'
  <2>1. pc \in Pcs \ {"none", "insert"} /\ pc \notin {"links", "store"}
    BY <1>6 DEF Pcs
  <2>2. PICK x \in AtRow : at' = [at EXCEPT ![r] = x] /\ Lands(r, x)
    BY <1>1, <1>2, <1>6, <2>1, GoesOn
  <2> QED
    BY <1>5, <1>6, <2>2
<1>7. CASE TaskStart(r)
  BY <1>6, <1>7 DEF TaskStart
<1>8. CASE Built(r)
  BY <1>6, <1>8 DEF Built
<1>9. CASE \E last \in BOOLEAN : NotBuilt(r, last)
  BY <1>6, <1>9 DEF NotBuilt
<1>10. CASE AfterBuild(r)
  <2>1. CASE at' = [at EXCEPT ![r].pc = "load", ![r].asked = used.change] /\ UNCHANGED run /\ used' = used
    <3>1. PICK n \in Nat : n = used.change
      BY DEF TypeInv
    <3>2. PICK x : x = [at[r] EXCEPT !.pc = "load", !.asked = n]
      OBVIOUS
    <3>3. x \in AtRow /\ x.pc = "load" /\ x.asked = n /\ x.run = at[r].run /\ x.seen = at[r].seen
      BY <1>1, <3>2 DEF AtRow, Pcs
    <3>4. at' = [at EXCEPT ![r] = x]
      BY <2>1, <3>1, <3>2
    <3>5. Lands(r, x)
      BY <1>1, <2>1, <3>1, <3>3 DEF Lands, Fits
    <3> QED
      BY <1>5, <2>1, <3>3, <3>4, <3>5
  <2>2. CASE SetStatus(r, "failed") /\ Stop(r)
    BY <1>6, <2>2
  <2> QED
    BY <1>10, <2>1, <2>2 DEF AfterBuild
<1>11. CASE TryAgain(r)
  <2>1. PICK n : n = at[r].try + 1
    OBVIOUS
  <2>2. PICK x : x = IF at[r].try < MaxTry THEN [Idle EXCEPT !.pc = "queued", !.run = r, !.try = n] ELSE Idle
    OBVIOUS
  <2>3. n \in Nat /\ Idle \in AtRow
    BY <1>1, <2>1, ActorFields, IdleType
  <2>4. x \in AtRow /\ at' = [at EXCEPT ![r] = x]
    BY <1>11, <2>1, <2>2, <2>3 DEF AtRow, Pcs, TryAgain, Retry
  <2>5. x.pc # "none" => x.pc = "queued" /\ x.run = r /\ x.asked = 0 /\ x.seen = 0
    BY <2>2, <2>3, IdleType DEF AtRow, Idle
  <2>6. Lands(r, x)
    BY <1>1, <1>2, <2>5 DEF Lands, Fits
  <2> QED
    BY <1>5, <1>11, <2>4, <2>6 DEF TryAgain
<1> QED
  BY <1>7, <1>8, <1>9, <1>10, <1>11

LEMMA Deaths ==
    ASSUME Run # {}, TypeInv, FreshInv, NEW a \in Actor, Dies(a)
    PROVE  TypeInv' /\ FreshInv'
<1>1. at[a] \in AtRow /\ at[a].run \in Run /\ Active(a) /\ Fits(a) /\ used.change \in Nat
  BY ActorFields DEF Dies, Active, FreshInv, TypeInv
<1>2. PICK n \in Nat : n = at[a].try + 1
  BY ActorFields
<1>3. PICK x : x = IF a \in Run /\ at[a].try < MaxTry THEN [Idle EXCEPT !.pc = "queued", !.run = a, !.try = n] ELSE Idle
  OBVIOUS
<1>4. x \in AtRow
  BY <1>3, IdleType DEF AtRow, Pcs
<1>5. at' = [at EXCEPT ![a] = x]
  BY <1>2, <1>3 DEF Dies, Retry, Stop
<1>6. x.pc # "none" => x.pc = "queued" /\ x.run = a /\ x.asked = 0 /\ x.seen = 0 /\ a \in Run
  BY <1>3, IdleType DEF AtRow, Idle
<1>7. UNCHANGED <<run, sheet, world, links, used>>
  BY DEF Dies
<1>8. Lands(a, x)
  BY <1>1, <1>6, <1>7 DEF Lands, Fits
<1>9. PICK to : to \in Statuses \ {"done", "none"}
  BY DEF Statuses
<1>10. used' \in [req : Nat, change : Nat] /\ used'.change >= used.change /\ sheet' \in [Run -> {"none", "pending", "done", "failed", "deleted"}]
       /\ world' \in Worlds /\ links' \in [Doc -> Chosen] /\ \A k \in Run : sheet'[k] = "none" => sheet[k] = "none"
  BY <1>1, <1>7 DEF TypeInv
<1> QED
  BY <1>1, <1>4, <1>5, <1>7, <1>8, <1>9, <1>10, StatusSteps

-----------------------------------------------------------------------------
(* Requests.                                                               *)

LEMMA Still ==
    ASSUME Run # {}, TypeInv, TypeInv', FreshInv, Kept, at' = at
    PROVE  FreshInv'
<1>1. PICK a \in Actor : TRUE
  BY DEF Actor
<1>2. PICK x \in AtRow : x = at[a]
  BY <1>1, ActorFields
<1>3. at' = [at EXCEPT ![a] = x]
  BY <1>2 DEF TypeInv
<1>4. Lands(a, x)
  <2>1. Active(a) => Fits(a)
    BY DEF FreshInv
  <2>2. used'.change >= used.change /\ used.change \in Nat /\ used'.change \in Nat /\ at[a].asked \in Nat /\ at[a].seen \in Nat
    BY ActorFields DEF Kept, TypeInv
  <2> QED
    BY <1>2, <2>1, <2>2 DEF Lands, Fits, Active
<1> QED
  BY <1>2, <1>3, <1>4, KeptSteps

(* A request comes to a run nobody works on.                               *)
LEMMA Comes ==
    ASSUME ~Overlap, Run # {}, TypeInv, FreshInv, NEW q \in Req, NEW r \in Run, NEW n \in Nat, Free(r), run[r].status # "none",
           at' = [at EXCEPT ![q] = [Idle EXCEPT !.pc = "load", !.run = r, !.asked = n]], n <= used'.change,
           used' \in [req : Nat, change : Nat], used'.change >= used.change,
           UNCHANGED <<run, sheet, world>>, links' \in [Doc -> Chosen]
    PROVE  TypeInv' /\ FreshInv'
<1>1. PICK x : x = [Idle EXCEPT !.pc = "load", !.run = r, !.asked = n]
  OBVIOUS
<1>2. x \in AtRow /\ x.pc = "load" /\ x.run = r /\ x.asked = n /\ x.seen = 0
  BY <1>1, IdleType DEF AtRow, Pcs, Idle
<1>3. q \in Actor /\ q \notin Run
  BY ChecksAssumption DEF Actor
<1>4. at' = [at EXCEPT ![q] = x]
  BY <1>1
<1>5. TypeInv'
  BY <1>2, <1>3, <1>4, AtType DEF TypeInv
<1>6. Kept
  BY RunFields DEF Kept
<1>7. \A b \in Actor : Active(b) => at[b].run # r
  BY DEF Free, Active
<1>8. sheet[r] # "none"
  BY DEF FreshInv, Sane
<1>9. used'.change \in Nat
  BY DEF TypeInv
<1>10. Lands(q, x)
  BY <1>2, <1>3, <1>7, <1>8, <1>9 DEF Lands
<1> QED
  BY <1>2, <1>3, <1>4, <1>5, <1>6, <1>10, KeptSteps

LEMMA Spending ==
    ASSUME TypeInv, NEW n \in {0, 1}, Spend(n)
    PROVE  used' \in [req : Nat, change : Nat] /\ used'.change = used.change + n /\ used.change \in Nat /\ used'.change >= used.change
BY DEF Spend, TypeInv

LEMMA AskSteps ==
    ASSUME ~Overlap, Run # {}, TypeInv, FreshInv, NEW q \in Req, NEW r \in Run,
           Rerun(q, r) \/ \E d \in Doc, choice \in Contract \cup {BySteps, None} : SetLink(q, r, d, choice)
    PROVE  TypeInv' /\ FreshInv'
<1>1. CASE Rerun(q, r)
  <2>1. PICK n \in Nat : n = used.change
    BY DEF TypeInv
  <2>2. used' \in [req : Nat, change : Nat] /\ used'.change >= used.change /\ used'.change = n
    BY <1>1, <2>1, Spending DEF Rerun
  <2>3. links' \in [Doc -> Chosen] /\ run[r].status # "none" /\ Free(r) /\ UNCHANGED <<run, sheet, world>>
    BY <1>1 DEF Rerun, TypeInv
  <2>4. at' = [at EXCEPT ![q] = [Idle EXCEPT !.pc = "load", !.run = r, !.asked = n]] /\ n <= used'.change
    BY <1>1, <2>1, <2>2 DEF Rerun
  <2> QED
    BY <2>2, <2>3, <2>4, Comes
<1>2. ASSUME NEW d \in Doc, NEW choice \in Contract \cup {BySteps, None}, SetLink(q, r, d, choice) PROVE TypeInv' /\ FreshInv'
  <2>1. PICK n \in Nat : n = used.change + 1
    BY DEF TypeInv
  <2>2. used' \in [req : Nat, change : Nat] /\ used'.change >= used.change /\ used'.change = n
    BY <1>2, <2>1, Spending DEF SetLink
  <2>3. links' \in [Doc -> Chosen] /\ run[r].status # "none" /\ Free(r) /\ UNCHANGED <<run, sheet, world>>
    BY <1>2 DEF SetLink, TypeInv, Exists, Chosen
  <2>4. at' = [at EXCEPT ![q] = [Idle EXCEPT !.pc = "load", !.run = r, !.asked = n]] /\ n <= used'.change
    BY <1>2, <2>1, <2>2 DEF SetLink
  <2> QED
    BY <2>2, <2>3, <2>4, Comes
<1> QED
  BY <1>1, <1>2

LEMMA DeleteSteps ==
    ASSUME Run # {}, TypeInv, FreshInv,
           \/ \E r \in Run : DeleteCheck(r) \/ DeleteSheet(r)
           \/ \E w \in Worlds : Correct(w)
           \/ DeleteRuleset
    PROVE  TypeInv' /\ FreshInv'
<1>1. at' = at /\ links' = links
  BY DEF DeleteCheck, DeleteSheet, Correct, DeleteRuleset
<1>2. used' \in [req : Nat, change : Nat] /\ used'.change >= used.change
  <2>1. Spend(0) \/ Spend(1)
    BY DEF DeleteCheck, DeleteSheet, Correct, DeleteRuleset
  <2> QED
    BY <2>1, Spending
<1>3. world' \in Worlds
  BY DEF DeleteCheck, DeleteSheet, Correct, DeleteRuleset, TypeInv
<1>4. PICK row \in RunRow : row = [NoRun EXCEPT !.status = "deleted"] /\ row.status = "deleted" /\ row.asked = 0 /\ row.result.seen = 0
  <2>1. PICK row : row = [NoRun EXCEPT !.status = "deleted"]
    OBVIOUS
  <2>2. row \in RunRow /\ row.status = "deleted" /\ row.asked = NoRun.asked /\ row.result = NoRun.result
    BY <2>1, NoRunType DEF RunRow, Statuses
  <2> QED
    BY <2>1, <2>2, NoRunType
<1>5. run' = run \/ \E r \in Run : Exists(r) /\ run' = [run EXCEPT ![r] = row]
  BY <1>4 DEF DeleteCheck, DeleteSheet, Correct, DeleteRuleset
<1>6. run' \in [Run -> RunRow] /\ \A k \in Run : run'[k] = run[k] \/ (Exists(k) /\ run'[k] = row)
  BY <1>5 DEF TypeInv
<1>7. sheet' \in [Run -> {"none", "pending", "done", "failed", "deleted"}] /\ \A k \in Run : sheet'[k] = "none" => sheet[k] = "none"
  BY DEF TypeInv, DeleteCheck, DeleteSheet, Correct, DeleteRuleset
<1>8. TypeInv'
  BY <1>1, <1>2, <1>3, <1>6, <1>7 DEF TypeInv
<1>9. Kept
  <2>1. ASSUME NEW k \in Run
        PROVE  /\ run'[k].asked <= run[k].asked /\ run'[k].result.seen <= run[k].result.seen
               /\ run'[k].status = "done" => run[k].status = "done" /\ run'[k].asked = run[k].asked /\ run'[k].result.seen = run[k].result.seen
               /\ run[k].status = "none" => run'[k].status = "none"
    <3>1. run[k].asked \in Nat /\ run[k].result.seen \in Nat
      BY RunFields
    <3>2. CASE run'[k] = run[k]
      BY <3>1, <3>2
    <3>3. CASE Exists(k) /\ run'[k] = row
      BY <1>4, <3>1, <3>3 DEF Exists
    <3> QED
      BY <1>6, <3>2, <3>3
  <2> QED
    BY <1>2, <1>7, <2>1 DEF Kept
<1> QED
  BY <1>1, <1>8, <1>9, Still

(* The run is inserted: its sheet is there, so it is there for Sane.       *)
LEMMA InsertSteps ==
    ASSUME Run # {}, TypeInv, FreshInv, NEW q \in Req, Insert(q)
    PROVE  TypeInv' /\ FreshInv'
<1>1. q \in Actor /\ at[q].run \in Run /\ Active(q) /\ Fits(q)
  BY ActorFields DEF Actor, Insert, Active, FreshInv
<1>2. PICK r \in Run : r = at[q].run
  BY <1>1
<1>3. run[r] \in RunRow
  BY RunFields
<1>4. PICK row \in RunRow : row = [run[r] EXCEPT !.status = "pending"] /\ row.status = "pending" /\ row.asked = run[r].asked /\ row.result = run[r].result
  <2>1. PICK row : row = [run[r] EXCEPT !.status = "pending"]
    OBVIOUS
  <2>2. row \in RunRow /\ row.status = "pending" /\ row.asked = run[r].asked /\ row.result = run[r].result
    BY <1>3, <2>1 DEF RunRow, Statuses
  <2> QED
    BY <2>1, <2>2
<1>5. run' = run \/ run' = [run EXCEPT ![r] = row]
  BY <1>2, <1>4 DEF Insert
<1>6. run' \in [Run -> RunRow] /\ \A k \in Run : run'[k] = run[k] \/ (k = r /\ run'[k] = row)
  BY <1>5 DEF TypeInv
<1>7. at' = [at EXCEPT ![q] = Idle] /\ UNCHANGED <<sheet, world, links, used>>
  BY DEF Insert, Stop
<1>8. TypeInv' /\ at'[q] = Idle /\ \A b \in Actor : b # q => at'[b] = at[b]
  BY <1>1, <1>6, <1>7, AtType, IdleType DEF TypeInv
<1>9. ~Active(q)'
  BY <1>8, IdleType DEF Active
<1>10. ASSUME NEW k \in Run PROVE Sane(k)' /\ run'[k].asked <= run[k].asked
  <2>1. Sane(k) /\ run[k].asked \in Nat
    BY RunFields DEF FreshInv
  <2>2. CASE run'[k] = run[k]
    BY <1>7, <2>1, <2>2 DEF Sane
  <2>3. CASE k = r /\ run'[k] = row
    <3>1. sheet[r] # "none"
      BY <1>1, <1>2 DEF Fits
    <3>2. row.status = "pending" /\ row.asked = run[k].asked /\ row.result.seen = run[k].result.seen
      BY <1>4, <2>3
    <3> QED
      BY <1>7, <2>1, <2>3, <3>1, <3>2 DEF Sane
  <2> QED
    BY <1>6, <2>2, <2>3
<1>11. (\A k \in Run : sheet'[k] = "none" => sheet[k] = "none") /\ used'.change >= used.change
  BY <1>7 DEF TypeInv
<1> QED
  BY <1>1, <1>8, <1>9, <1>10, <1>11, FreshMoves

(* Two come to work on a new run: its task, and the request that inserts   *)
(* it.                                                                     *)
LEMMA CreateSteps ==
    ASSUME Run # {}, TypeInv, FreshInv, NEW q \in Req, NEW r \in Run, Create(q, r)
    PROVE  TypeInv' /\ FreshInv'
<1>1. q \in Actor /\ r \in Actor /\ q # r /\ q \notin Run
  BY ChecksAssumption DEF Actor
<1>2. PICK x : x = [Idle EXCEPT !.pc = "queued", !.run = r]
  OBVIOUS
<1>3. PICK y : y = [Idle EXCEPT !.pc = "insert", !.run = r]
  OBVIOUS
<1>4. x \in AtRow /\ x.pc = "queued" /\ x.run = r /\ x.asked = 0 /\ x.seen = 0
  BY <1>2, IdleType DEF AtRow, Pcs, Idle
<1>5. y \in AtRow /\ y.pc = "insert" /\ y.run = r /\ y.asked = 0 /\ y.seen = 0
  BY <1>3, IdleType DEF AtRow, Pcs, Idle
<1>6. at' = [at EXCEPT ![r] = x, ![q] = y] /\ sheet' = [sheet EXCEPT ![r] = "pending"] /\ UNCHANGED <<run, world, links, used>> /\ sheet[r] = "none"
  BY <1>2, <1>3 DEF Create
<1>7. at'[r] = x /\ at'[q] = y /\ \A b \in Actor \ {q, r} : at'[b] = at[b]
  BY <1>1, <1>6 DEF TypeInv
<1>8. at' \in [Actor -> AtRow]
  BY <1>1, <1>4, <1>5, <1>6 DEF TypeInv
<1>9. TypeInv'
  BY <1>6, <1>8 DEF TypeInv
<1>10. used'.change = used.change /\ used.change \in Nat /\ \A k \in Run : sheet'[k] = "none" => sheet[k] = "none" /\ k # r
  BY <1>6 DEF TypeInv
<1>11. \A b \in Actor : Active(b) => at[b].run # r
  BY <1>6 DEF FreshInv, Fits
<1>12. ASSUME NEW b \in Actor, Active(b)' PROVE Fits(b)'
  <2>1. sheet'[r] = "pending"
    BY <1>6 DEF TypeInv
  <2>2. CASE b = r
    BY <1>4, <1>7, <1>10, <2>1, <2>2 DEF Fits
  <2>3. CASE b = q
    BY <1>1, <1>5, <1>7, <1>10, <2>1, <2>3 DEF Fits
  <2>4. CASE b \notin {q, r}
    <3>1. at'[b] = at[b] /\ Fits(b) /\ at[b].run \in Run
      BY <1>7, <1>12, <2>4, ActorFields DEF FreshInv, Active
    <3> QED
      BY <1>6, <1>10, <3>1 DEF Fits
  <2> QED
    BY <2>2, <2>3, <2>4
<1>13. ASSUME NEW k \in Run PROVE Sane(k)'
  <2>1. Sane(k)
    BY DEF FreshInv
  <2> QED
    BY <1>6, <1>10, <2>1 DEF Sane
<1>14. ASSUME NEW b \in Actor, NEW c \in Actor, Active(b)', Active(c)', at'[b].run = at'[c].run, b # c
       PROVE  at'[b].pc = "insert" \/ at'[c].pc = "insert"
  <2>1. CASE b = q \/ c = q
    BY <1>5, <1>7, <2>1
  <2>2. CASE b \notin {q, r} /\ c \notin {q, r}
    BY <1>7, <1>14, <2>2 DEF FreshInv, Alone, Active
  <2>3. ASSUME NEW o \in Actor \ {q, r}, Active(o)', at'[o].run = at'[r].run PROVE FALSE
    BY <1>4, <1>7, <1>11, <2>3 DEF Active
  <2> QED
    BY <1>14, <2>1, <2>2, <2>3
<1> QED
  BY <1>9, <1>12, <1>13, <1>14 DEF FreshInv, Alone

-----------------------------------------------------------------------------

LEMMA FreshInit == Run # {} /\ Init => TypeInv /\ FreshInv
<1> SUFFICES ASSUME Run # {}, Init PROVE TypeInv /\ FreshInv
  OBVIOUS
<1>1. TypeInv
  BY IdleType, NoRunType DEF Init, TypeInv, Chosen
<1>2. \A a \in Actor : ~Active(a)
  BY IdleType DEF Init, Active
<1>3. \A r \in Run : Sane(r)
  BY NoRunType DEF Init, Sane
<1> QED
  BY <1>1, <1>2, <1>3 DEF FreshInv, Alone

LEMMA FreshStep == ~Overlap /\ Run # {} /\ TypeInv /\ FreshInv /\ [Next]_vars => TypeInv' /\ FreshInv'
<1> SUFFICES ASSUME ~Overlap, Run # {}, TypeInv, FreshInv, [Next]_vars PROVE TypeInv' /\ FreshInv'
  OBVIOUS
<1>1. ASSUME NEW a \in Actor, Evaluate(a) \/ Breaks(a) PROVE TypeInv' /\ FreshInv'
  BY <1>1, EvalSteps, StoreSteps DEF Evaluate
<1>2. ASSUME NEW a \in Actor, Dies(a) PROVE TypeInv' /\ FreshInv'
  BY <1>2, Deaths
<1>3. ASSUME NEW r \in Run, Task(r) \/ TryAgain(r) PROVE TypeInv' /\ FreshInv'
  BY <1>3, TaskSteps DEF Task
<1>4. ASSUME NEW q \in Req, Insert(q) PROVE TypeInv' /\ FreshInv'
  BY <1>4, InsertSteps
<1>5. ASSUME NEW q \in Req, NEW r \in Run, Create(q, r) PROVE TypeInv' /\ FreshInv'
  BY <1>5, CreateSteps
<1>6. ASSUME NEW q \in Req, NEW r \in Run, Rerun(q, r) \/ \E d \in Doc, choice \in Contract \cup {BySteps, None} : SetLink(q, r, d, choice)
      PROVE  TypeInv' /\ FreshInv'
  BY <1>6, AskSteps
<1>7. CASE \/ \E r \in Run : DeleteCheck(r) \/ DeleteSheet(r)
           \/ \E w \in Worlds : Correct(w)
           \/ DeleteRuleset
  BY <1>7, DeleteSteps
<1>8. CASE UNCHANGED vars
  <2>1. Kept
    BY <1>8, RunFields DEF Kept, vars, TypeInv
  <2>2. TypeInv' /\ at' = at
    BY <1>8 DEF TypeInv, vars
  <2> QED
    BY <2>1, <2>2, Still
<1> QED
  BY <1>1, <1>2, <1>3, <1>4, <1>5, <1>6, <1>7, <1>8 DEF Next

(* A run never shows a result older than what its last evaluation was      *)
(* asked for, whoever dies and whatever is deleted or corrected in between *)
(* (sheets/checks.go, runCheck), as long as one at a time evaluates it.    *)
THEOREM FreshAlways == ASSUME ~Overlap PROVE Spec => []Fresh
<1>1. CASE Run = {}
  <2>1. Fresh
    BY <1>1 DEF Fresh
  <2>2. []Fresh
    BY <2>1, PTL
  <2> QED
    BY <2>2
<1>2. CASE Run # {}
  <2>1. Init => TypeInv /\ FreshInv
    BY <1>2, FreshInit
  <2>2. TypeInv /\ FreshInv /\ [Next]_vars => TypeInv' /\ FreshInv'
    BY <1>2, FreshStep
  <2>3. TypeInv /\ FreshInv => Fresh
    BY DEF FreshInv, Sane, Fresh
  <2> QED
    BY <2>1, <2>2, <2>3, PTL DEF Spec
<1> QED
  BY <1>1, <1>2

-----------------------------------------------------------------------------
(* What holds of 0, and of a number when it holds of the one before.       *)

LEMMA UpToN ==
    ASSUME NEW N \in Nat, NEW S, 0 \in S, \A n \in 1..N : n - 1 \in S => n \in S
    PROVE  0..N \subseteq S
<1> DEFINE bad == (0..N) \ S
<1> SUFFICES ASSUME bad # {} PROVE FALSE
  OBVIOUS
<1>1. bad \subseteq Nat
  OBVIOUS
<1>2. PICK n \in bad : \A m \in bad : ~(<<m, n>> \in OpToRel(<, Nat))
  BY <1>1, NatLessThanWellFounded, WFMin
<1>3. n \in 1..N /\ n - 1 \in 0..N /\ n \in Nat /\ n - 1 \in Nat /\ n - 1 < n
  <2>1. n \in 0..N /\ n \notin S
    BY <1>2
  <2>2. n # 0
    BY <2>1
  <2> QED
    BY ONLY <2>1, <2>2, N \in Nat
<1>4. n - 1 \notin bad
  BY <1>2, <1>3 DEF OpToRel
<1> QED
  BY <1>2, <1>3, <1>4

-----------------------------------------------------------------------------
(* The contract of a document.                                             *)

Says == [DOMAIN Steps -> [Contract -> Verdict]]
Looking == [cands : SUBSET Contract, sure : BOOLEAN, over : BOOLEAN]
AtFirst == [cands |-> Contract, sure |-> FALSE, over |-> Contract = {}]
OneStep(f, i, says, answers) == IF f.over THEN f ELSE IF Steps[i] = "ai" THEN Pick(f, answers[i]) ELSE Narrow(f, says[i])
Search(g, says, answers, n) == g = [i \in 0..n |-> IF i = 0 THEN AtFirst ELSE OneStep(g[i - 1], i, says, answers)]

LEMMA SearchExists == ASSUME NEW N \in Nat, NEW says, NEW answers PROVE \E g : Search(g, says, answers, N)
<1> DEFINE S == {n \in 0..N : \E g : Search(g, says, answers, n)}
<1>1. 0 \in S
  <2> DEFINE g == [i \in 0..0 |-> AtFirst]
  <2>1. \A i \in 0..0 : i = 0
    OBVIOUS
  <2>2. g = [i \in 0..0 |-> IF i = 0 THEN AtFirst ELSE OneStep(g[i - 1], i, says, answers)]
    BY <2>1
  <2> HIDE DEF g
  <2>3. Search(g, says, answers, 0)
    BY <2>2 DEF Search
  <2> QED
    BY <2>3
<1>2. ASSUME NEW n \in 1..N, n - 1 \in S PROVE n \in S
  <2>1. PICK g : Search(g, says, answers, n - 1)
    BY <1>2
  <2> DEFINE h == [i \in 0..n |-> IF i = n THEN OneStep(g[n - 1], n, says, answers) ELSE g[i]]
             v(i) == IF i = 0 THEN AtFirst ELSE OneStep(h[i - 1], i, says, answers)
  <2>2. \A i \in 0..n - 1 : g[i] = IF i = 0 THEN AtFirst ELSE OneStep(g[i - 1], i, says, answers)
    BY <2>1 DEF Search
  <2>3. ASSUME NEW i \in 0..n PROVE h[i] = v(i)
    <3>1. i # 0 => i - 1 \in 0..n /\ i - 1 # n /\ h[i - 1] = g[i - 1]
      OBVIOUS
    <3>2. CASE i = n
      <4>1. h[i] = OneStep(g[i - 1], i, says, answers) /\ i # 0
        BY <3>2
      <4> QED
        BY <3>1, <4>1
    <3>3. CASE i # n
      <4>1. i \in 0..n - 1 /\ h[i] = g[i]
        BY <3>3
      <4> QED
        BY <2>2, <3>1, <4>1
    <3> QED
      BY <3>2, <3>3
  <2>4. h = [i \in 0..n |-> v(i)]
    BY <2>3
  <2> HIDE DEF h
  <2>5. Search(h, says, answers, n)
    BY <2>4 DEF Search
  <2> QED
    BY <2>5
<1> HIDE DEF S
<1>3. 0..N \subseteq S
  BY <1>1, <1>2, UpToN
<1> QED
  BY <1>3 DEF S

(* What holds of the first, and is kept by every step, holds of the last.  *)
LEMMA CandidatesFound ==
    ASSUME NEW says, NEW answers
    PROVE  \E g : Search(g, says, answers, Len(Steps)) /\ Candidates(says, answers) = g[Len(Steps)].cands
<1> DEFINE P(g) == g = [i \in 0..Len(Steps) |->
                          IF i = 0 THEN [cands |-> Contract, sure |-> FALSE, over |-> Contract = {}]
                          ELSE IF g[i - 1].over THEN g[i - 1]
                          ELSE IF Steps[i] = "ai" THEN Pick(g[i - 1], answers[i]) ELSE Narrow(g[i - 1], says[i])]
           c == CHOOSE g : P(g)
<1>1. Len(Steps) \in Nat
  BY ChecksAssumption
<1>2. \A g : Search(g, says, answers, Len(Steps)) <=> P(g)
  BY DEF Search, AtFirst, OneStep
<1>3. PICK g : P(g)
  BY <1>1, <1>2, SearchExists
<1>4. P(c)
  BY <1>3
<1>5. Candidates(says, answers) = c[Len(Steps)].cands
  BY DEF Candidates
<1> HIDE DEF P, c
<1> QED
  BY <1>2, <1>4, <1>5

LEMMA LookingType ==
    ASSUME NEW f \in Looking, NEW i \in DOMAIN Steps, NEW says \in Says, NEW answers
    PROVE  OneStep(f, i, says, answers) \in Looking
<1>1. PICK C \in SUBSET Contract, s \in BOOLEAN, o \in BOOLEAN : f = [cands |-> C, sure |-> s, over |-> o]
  BY DEF Looking
<1>2. Narrow(f, says[i]) \in Looking
  <2> DEFINE pass == {c \in C : says[i][c] = "pass"}
             unknown == {c \in C : says[i][c] = "unknown"}
             left == IF pass # {} THEN pass ELSE unknown
             sure == pass # {} \/ (s /\ unknown # C)
             over == left = {} \/ (Cardinality(left) = 1 /\ sure)
  <2>1. left \subseteq Contract /\ sure \in BOOLEAN /\ over \in BOOLEAN
    OBVIOUS
  <2>2. Narrow(f, says[i]) = [cands |-> left, sure |-> sure, over |-> over]
    BY <1>1 DEF Narrow
  <2> HIDE DEF left, sure, over
  <2> QED
    BY <2>1, <2>2 DEF Looking
<1>3. Pick(f, answers[i]) \in Looking
  <2> DEFINE none == [f EXCEPT !.cands = {}, !.over = TRUE]
             one == [f EXCEPT !.cands = {answers[i]}, !.sure = FALSE]
             same == [f EXCEPT !.sure = f.sure /\ answers[i] # Unsure]
  <2>1. none \in Looking
    <3>1. [f EXCEPT !.cands = {}] \in Looking
      BY DEF Looking
    <3>2. [[f EXCEPT !.cands = {}] EXCEPT !.over = TRUE] \in Looking
      BY <3>1 DEF Looking
    <3>3. none = [[f EXCEPT !.cands = {}] EXCEPT !.over = TRUE]
      OBVIOUS
    <3> QED
      BY <3>2, <3>3
  <2>2. answers[i] \in f.cands => one \in Looking
    BY DEF Looking
  <2>3. same \in Looking
    BY DEF Looking
  <2>4. Pick(f, answers[i]) = IF Cardinality(f.cands) < 2 THEN f
                              ELSE CASE answers[i] = None -> none [] answers[i] \in f.cands -> one [] OTHER -> same
    BY Zenon DEF Pick
  <2> HIDE DEF none, one, same
  <2> QED
    BY <2>1, <2>2, <2>3, <2>4
<1> QED
  BY <1>2, <1>3 DEF OneStep

LEMMA LinkType == ASSUME NEW says \in Says, NEW answers PROVE Candidates(says, answers) \subseteq Contract
<1> DEFINE N == Len(Steps)
<1>1. N \in Nat /\ DOMAIN Steps = 1..N
  BY ChecksAssumption
<1>2. PICK g : Search(g, says, answers, N) /\ Candidates(says, answers) = g[N].cands
  BY CandidatesFound
<1> DEFINE S == {n \in 0..N : g[n] \in Looking}
<1>3. 0 \in S
  BY <1>1, <1>2 DEF Search, AtFirst, Looking
<1>4. ASSUME NEW n \in 1..N, n - 1 \in S PROVE n \in S
  <2>1. n \in 0..N /\ n # 0 /\ g[n - 1] \in Looking
    BY <1>4
  <2>2. g[n] = OneStep(g[n - 1], n, says, answers)
    BY <1>2, <2>1 DEF Search
  <2> QED
    BY <1>1, <2>1, <2>2, LookingType
<1> HIDE DEF S
<1>5. 0..N \subseteq S
  BY <1>1, <1>3, <1>4, UpToN
<1> QED
  BY <1>1, <1>2, <1>5 DEF S, Looking

(* Steps of formulas alone.  The contracts that remain beat the others as  *)
(* far as was read, and are alike so far while the search goes on; one     *)
(* that beats every other and fails no step is never lost.                 *)
Alike(says, n, c, b) == \A j \in 1..n : says[j][c] = says[j][b]
Ahead(says, n, c, b) == \E i \in 1..n : Rank(says[i][c]) > Rank(says[i][b]) /\ Alike(says, i - 1, c, b)
Clear(says, c) == Beats(says, c) /\ \A i \in DOMAIN Steps : says[i][c] # "fail"
Best(f, says, n) ==
    /\ f.cands \subseteq Contract
    /\ \A c \in f.cands, b \in Contract \ f.cands : Ahead(says, n, c, b)
    /\ ~f.over => \A c, b \in f.cands : Alike(says, n, c, b)
    /\ f.over => f.cands = {} \/ \E c : f.cands = {c}
    /\ \A c \in Contract : Clear(says, c) => c \in f.cands

LEMMA Ranks == ASSUME NEW u \in Verdict, NEW v \in Verdict
               PROVE  /\ Rank(u) \in Nat /\ (u = v => ~(Rank(u) > Rank(v)))
                      /\ u = "pass" /\ v # "pass" => Rank(u) > Rank(v)
                      /\ u = "unknown" /\ v = "fail" => Rank(u) > Rank(v)
BY DEF Rank, Verdict

(* Two that are alike so far: the one the next step says more of is ahead, *)
(* and the other does not beat it.                                         *)
LEMMA NextTells ==
    ASSUME NEW says \in Says, NEW n \in DOMAIN Steps, NEW c \in Contract, NEW b \in Contract,
           Alike(says, n - 1, c, b), Rank(says[n][c]) > Rank(says[n][b])
    PROVE  Ahead(says, n, c, b) /\ ~Clear(says, b)
<1>1. Len(Steps) \in Nat /\ DOMAIN Steps = 1..Len(Steps) /\ n \in 1..n
  BY ChecksAssumption
<1>2. Ahead(says, n, c, b)
  BY <1>1 DEF Ahead
<1>3. ASSUME Clear(says, b) PROVE FALSE
  <2>1. PICK i \in DOMAIN Steps : Rank(says[i][b]) > Rank(says[i][c]) /\ \A j \in 1..i - 1 : says[j][b] = says[j][c]
    <3>1. \A v \in Verdict : ~(Rank(v) > Rank(v))
      BY Ranks
    <3>2. b # c
      BY <3>1 DEF Says
    <3> QED
      BY <1>3, <3>2 DEF Clear, Beats, Better
  <2>2. says[i][b] \in Verdict /\ says[i][c] \in Verdict /\ says[n][b] \in Verdict /\ says[n][c] \in Verdict
    BY DEF Says
  <2>3. i = n
    <3>1. ~(i < n)
      <4>1. i < n => i \in 1..n - 1
        BY <1>1
      <4> QED
        BY <2>1, <2>2, <4>1, Ranks DEF Alike
    <3>2. ~(n < i)
      <4>1. n < i => n \in 1..i - 1
        BY <1>1
      <4> QED
        BY <2>1, <2>2, <4>1, Ranks
    <3> QED
      BY <1>1, <3>1, <3>2
  <2>4. Rank(says[n][b]) \in Nat /\ Rank(says[n][c]) \in Nat
    BY <2>2, Ranks
  <2> QED
    BY <2>1, <2>3, <2>4
<1> QED
  BY <1>2, <1>3

LEMMA BestStep ==
    ASSUME IsFiniteSet(Contract), "ai" \notin ToSet(Steps), NEW says \in Says, NEW answers, NEW n \in DOMAIN Steps,
           NEW f, Best(f, says, n - 1)
    PROVE  Best(OneStep(f, n, says, answers), says, n)
<1>1. Len(Steps) \in Nat /\ DOMAIN Steps = 1..Len(Steps) /\ n \in 1..n /\ n \in Nat /\ n - 1 \in Nat
  BY ChecksAssumption
<1>2. Steps[n] # "ai"
  BY DEF ToSet
<1>3. \A c, b : Ahead(says, n - 1, c, b) => Ahead(says, n, c, b)
  <2>1. 1..n - 1 \subseteq 1..n
    BY <1>1
  <2> QED
    BY <2>1 DEF Ahead
<1>4. CASE f.over
  <2>1. OneStep(f, n, says, answers) = f
    BY <1>4 DEF OneStep
  <2> QED
    BY <1>3, <1>4, <2>1 DEF Best
<1>5. CASE ~f.over
  <2> DEFINE pass == {c \in f.cands : says[n][c] = "pass"}
             unknown == {c \in f.cands : says[n][c] = "unknown"}
             left == IF pass # {} THEN pass ELSE unknown
             sure == pass # {} \/ (f.sure /\ unknown # f.cands)
             over == left = {} \/ (Cardinality(left) = 1 /\ sure)
  <2>1. OneStep(f, n, says, answers) = [cands |-> left, sure |-> sure, over |-> over]
    BY <1>2, <1>5 DEF OneStep, Narrow
  <2>2. f.cands \subseteq Contract /\ \A c, b \in f.cands : Alike(says, n - 1, c, b)
    BY <1>5 DEF Best
  <2>3. \A c \in Contract : says[n][c] \in Verdict
    BY DEF Says
  <2>4. \A c \in left, b \in f.cands \ left : Rank(says[n][c]) > Rank(says[n][b])
    <3> SUFFICES ASSUME NEW c \in left, NEW b \in f.cands \ left PROVE Rank(says[n][c]) > Rank(says[n][b])
      OBVIOUS
    <3>1. says[n][c] \in Verdict /\ says[n][b] \in Verdict
      BY <2>2, <2>3
    <3>2. (says[n][c] = "pass" /\ says[n][b] # "pass") \/ (says[n][c] = "unknown" /\ says[n][b] = "fail")
      BY <3>1 DEF Verdict
    <3> QED
      BY <3>1, <3>2, Ranks
  <2>5. left \subseteq f.cands /\ (left = {} => \A c \in f.cands : says[n][c] = "fail") /\ \A c, b \in left : says[n][c] = says[n][b]
    BY <2>2, <2>3 DEF Verdict
  <2>6. over => left = {} \/ \E c : left = {c}
    <3>1. IsFiniteSet(left)
      BY <2>2, <2>5, FS_Subset
    <3> QED
      BY <3>1, FS_Singleton
  <2>7. \A c \in left, b \in Contract \ left : Ahead(says, n, c, b)
    <3> SUFFICES ASSUME NEW c \in left, NEW b \in Contract \ left PROVE Ahead(says, n, c, b)
      OBVIOUS
    <3>1. c \in f.cands /\ c \in Contract
      BY <2>2, <2>5
    <3>2. CASE b \in f.cands
      BY <2>2, <2>4, <3>1, <3>2, NextTells
    <3>3. CASE b \notin f.cands
      BY <1>3, <3>1, <3>3 DEF Best
    <3> QED
      BY <3>2, <3>3
  <2>8. \A c, b \in left : Alike(says, n, c, b)
    <3> SUFFICES ASSUME NEW c \in left, NEW b \in left, NEW j \in 1..n PROVE says[j][c] = says[j][b]
      BY DEF Alike
    <3>1. j = n \/ j \in 1..n - 1
      BY <1>1
    <3> QED
      BY <2>2, <2>5, <3>1 DEF Alike
  <2>9. \A c \in Contract : Clear(says, c) => c \in left
    <3> SUFFICES ASSUME NEW c \in Contract, Clear(says, c), c \notin left PROVE FALSE
      OBVIOUS
    <3>1. c \in f.cands /\ says[n][c] # "fail"
      BY DEF Best, Clear
    <3>2. PICK b : b \in left
      BY <2>5, <3>1
    <3> QED
      BY <2>2, <2>4, <2>5, <3>1, <3>2, NextTells
  <2> HIDE DEF left, sure, over
  <2>10. PICK h : h = OneStep(f, n, says, answers)
    OBVIOUS
  <2>11. h.cands = left /\ (h.over <=> over)
    BY <2>1, <2>10
  <2> QED
    BY <2>2, <2>5, <2>6, <2>7, <2>8, <2>9, <2>10, <2>11 DEF Best
<1> QED
  BY <1>4, <1>5

LEMMA BestFound ==
    ASSUME IsFiniteSet(Contract), "ai" \notin ToSet(Steps), NEW says \in Says, NEW answers
    PROVE  \E f : Best(f, says, Len(Steps)) /\ Candidates(says, answers) = f.cands
<1> DEFINE N == Len(Steps)
<1>1. N \in Nat /\ DOMAIN Steps = 1..N
  BY ChecksAssumption
<1>2. PICK g : Search(g, says, answers, N) /\ Candidates(says, answers) = g[N].cands
  BY CandidatesFound
<1> DEFINE S == {n \in 0..N : Best(g[n], says, n)}
<1>3. 0 \in S
  <2>1. g[0] = AtFirst
    BY <1>1, <1>2 DEF Search
  <2>2. PICK h : h = g[0]
    OBVIOUS
  <2>3. h.cands = Contract /\ (h.over <=> Contract = {})
    <3> DEFINE over == Contract = {}
    <3>1. h = [cands |-> Contract, sure |-> FALSE, over |-> over]
      BY <2>1, <2>2 DEF AtFirst
    <3> HIDE DEF over
    <3>2. h.cands = Contract /\ h.over = over
      BY <3>1
    <3> QED
      BY <3>2 DEF over
  <2>4. Best(h, says, 0)
    BY <2>3 DEF Best, Alike
  <2> QED
    BY <1>1, <2>2, <2>4
<1>4. ASSUME NEW n \in 1..N, n - 1 \in S PROVE n \in S
  <2>1. n \in 0..N /\ n # 0 /\ Best(g[n - 1], says, n - 1)
    BY <1>4
  <2>2. g[n] = OneStep(g[n - 1], n, says, answers)
    BY <1>2, <2>1 DEF Search
  <2> QED
    BY <1>1, <2>1, <2>2, BestStep
<1> HIDE DEF S
<1>5. 0..N \subseteq S
  BY <1>1, <1>3, <1>4, UpToN
<1> QED
  BY <1>1, <1>2, <1>5 DEF S

(* Where a document is: under the contract that was chosen; else only      *)
(* under one that beats every other, and under it when it fails no step.   *)
LEMMA LinkFinds ==
    ASSUME IsFiniteSet(Contract), "ai" \notin ToSet(Steps), NEW says \in Says, NEW answers
    PROVE  /\ Link(says, answers) # None => Beats(says, Link(says, answers))
           /\ \A c \in Contract : Clear(says, c) => Link(says, answers) = c
<1>1. PICK f : Best(f, says, Len(Steps)) /\ Candidates(says, answers) = f.cands
  BY BestFound
<1>2. Len(Steps) \in Nat /\ DOMAIN Steps = 1..Len(Steps)
  BY ChecksAssumption
<1>3. IsFiniteSet(f.cands)
  BY <1>1, FS_Subset DEF Best
<1>4. Cardinality(f.cands) = 1 <=> \E c : f.cands = {c}
  BY <1>3, FS_Singleton
<1>5. Link(says, answers) = IF Cardinality(f.cands) = 1 THEN CHOOSE c \in f.cands : TRUE ELSE None
  BY <1>1 DEF Link
<1>6. ASSUME Link(says, answers) # None PROVE Beats(says, Link(says, answers))
  <2>1. PICK c : f.cands = {c}
    BY <1>4, <1>5, <1>6
  <2>2. Link(says, answers) = c /\ c \in Contract
    BY <1>1, <1>4, <1>5, <2>1 DEF Best
  <2>3. \A b \in Contract \ {c} : Better(says, c, b)
    BY <1>1, <1>2, <2>1 DEF Best, Ahead, Alike, Better
  <2> QED
    BY <2>2, <2>3 DEF Beats
<1>7. ASSUME NEW c \in Contract, Clear(says, c) PROVE Link(says, answers) = c
  <2>1. c \in f.cands
    BY <1>1, <1>7 DEF Best
  <2>2. ASSUME NEW b \in f.cands, b # c PROVE FALSE
    <3>1. b \in Contract
      BY <1>1 DEF Best
    <3>2. PICK i \in DOMAIN Steps : Rank(says[i][c]) > Rank(says[i][b])
      BY <1>7, <2>2, <3>1 DEF Clear, Beats, Better
    <3>3. ~f.over
      BY <1>1, <2>1, <2>2 DEF Best
    <3>4. says[i][c] = says[i][b]
      BY <1>1, <1>2, <2>1, <3>3 DEF Best, Alike
    <3>5. says[i][c] \in Verdict
      BY DEF Says
    <3> QED
      BY <3>2, <3>4, <3>5, Ranks
  <2>3. f.cands = {c}
    BY <2>1, <2>2
  <2> QED
    BY <1>4, <1>5, <2>3
<1> QED
  BY <1>6, <1>7

-----------------------------------------------------------------------------
(* The result of a run is what the steps, the answers of the AI and the    *)
(* user's choices say of one state of the values.  Every actor knows one   *)
(* state of them at most.                                                  *)
GoodResult(z) ==
    \/ z.world = {} /\ \A d \in Doc : z.place[d] = Absent
    \/ \E w \in Worlds, answers \in Answer : z.world = {w} /\ \A d \in Doc : z.place[d] = Place(z.links[d], w[d], answers[d])
GoodRow == {x \in RunRow : GoodResult(x.result)}
GoodAt == {x \in AtRow : x.try <= MaxTry /\ (x.world = {} \/ \E w \in Worlds : x.world = {w})}

LinkInv ==
    /\ run \in [Run -> GoodRow]
    /\ sheet \in [Run -> {"none", "pending", "done", "failed", "deleted"}]
    /\ world \in Worlds /\ links \in [Doc -> Chosen]
    /\ at \in [Actor -> GoodAt]
    /\ used \in [req : Nat, change : Nat]

LEMMA LinkTypes == LinkInv => TypeInv
<1>1. GoodRow \subseteq RunRow /\ GoodAt \subseteq AtRow
  BY DEF GoodRow, GoodAt
<1> QED
  BY <1>1 DEF LinkInv, TypeInv

LEMMA IdleGood == Run # {} => Idle \in GoodAt /\ Idle.try = 0 /\ Idle.world = {}
<1> SUFFICES ASSUME Run # {} PROVE Idle \in GoodAt /\ Idle.try = 0 /\ Idle.world = {}
  OBVIOUS
<1>1. Idle \in AtRow /\ Idle.try = 0 /\ Idle.world = {}
  BY IdleType DEF Idle
<1> QED
  BY <1>1, ChecksAssumption DEF GoodAt

LEMMA NoRunGood ==
    ASSUME NEW to \in Statuses
    PROVE  NoRun \in GoodRow /\ [NoRun EXCEPT !.status = to] \in GoodRow
<1>1. NoRun \in RunRow /\ NoRun.result = NoResult
  BY NoRunType DEF NoRun
<1>2. GoodResult(NoResult)
  BY DEF NoResult, GoodResult
<1>3. PICK x : x = [NoRun EXCEPT !.status = to]
  OBVIOUS
<1>4. x \in RunRow /\ x.result = NoRun.result
  BY <1>1, <1>3 DEF RunRow
<1> QED
  BY <1>1, <1>2, <1>3, <1>4 DEF GoodRow

(* One actor and one run move at a time.                                   *)
LEMMA LinkMoves ==
    ASSUME LinkInv,
           at' = at \/ \E a \in Actor, x \in GoodAt : at' = [at EXCEPT ![a] = x],
           run' = run \/ \E r \in Run, row \in GoodRow : run' = [run EXCEPT ![r] = row],
           sheet' \in [Run -> {"none", "pending", "done", "failed", "deleted"}],
           world' \in Worlds, links' \in [Doc -> Chosen], used' \in [req : Nat, change : Nat]
    PROVE  LinkInv'
<1>1. at' \in [Actor -> GoodAt]
  BY DEF LinkInv
<1>2. run' \in [Run -> GoodRow]
  BY DEF LinkInv
<1> QED
  BY <1>1, <1>2 DEF LinkInv

LEMMA StatusGood ==
    ASSUME LinkInv, NEW r \in Run, NEW to \in Statuses, SetStatus(r, to)
    PROVE  run' = run \/ \E row \in GoodRow : run' = [run EXCEPT ![r] = row]
<1>1. run[r] \in GoodRow
  BY DEF LinkInv
<1>2. PICK x : x = [run[r] EXCEPT !.status = to]
  OBVIOUS
<1>3. x \in RunRow /\ x.result = run[r].result
  BY <1>1, <1>2 DEF GoodRow, RunRow
<1>4. x \in GoodRow
  BY <1>1, <1>3 DEF GoodRow
<1>5. run' = run \/ run' = [run EXCEPT ![r] = x]
  BY <1>2 DEF SetStatus
<1> QED
  BY <1>4, <1>5

LEMMA GotoGood ==
    ASSUME LinkInv, NEW a \in Actor, NEW pc \in Pcs, Goto(a, pc)
    PROVE  \E x \in GoodAt : at' = [at EXCEPT ![a] = x]
<1>1. at[a] \in GoodAt
  BY DEF LinkInv
<1>2. PICK x : x = [at[a] EXCEPT !.pc = pc]
  OBVIOUS
<1>3. x \in AtRow /\ x.try = at[a].try /\ x.world = at[a].world
  BY <1>1, <1>2 DEF GoodAt, AtRow
<1>4. x \in GoodAt
  BY <1>1, <1>3 DEF GoodAt
<1>5. at' = [at EXCEPT ![a] = x]
  BY <1>2 DEF Goto
<1> QED
  BY <1>4, <1>5

(* What a request or a task starts with.                                   *)
LEMMA StartGood ==
    ASSUME Run # {}, NEW r \in Run, NEW pc \in Pcs, NEW n \in Nat, NEW k \in 0..MaxTry
    PROVE  /\ [Idle EXCEPT !.pc = pc, !.run = r] \in GoodAt
           /\ [Idle EXCEPT !.pc = pc, !.run = r, !.try = k] \in GoodAt
           /\ [Idle EXCEPT !.pc = pc, !.run = r, !.asked = n] \in GoodAt
<1>1. Idle \in AtRow /\ Idle.try = 0 /\ Idle.world = {} /\ MaxTry \in Nat
  BY IdleType, IdleGood, ChecksAssumption
<1>2. PICK x : x = [Idle EXCEPT !.pc = pc, !.run = r]
  OBVIOUS
<1>3. PICK y : y = [Idle EXCEPT !.pc = pc, !.run = r, !.try = k]
  OBVIOUS
<1>4. PICK z : z = [Idle EXCEPT !.pc = pc, !.run = r, !.asked = n]
  OBVIOUS
<1>5. x \in AtRow /\ x.try = 0 /\ x.world = {}
  BY <1>1, <1>2 DEF AtRow
<1>6. y \in AtRow /\ y.try = k /\ y.world = {}
  <2>1. k \in Nat
    BY <1>1
  <2> QED
    BY <1>1, <1>3, <2>1 DEF AtRow
<1>7. z \in AtRow /\ z.try = 0 /\ z.world = {}
  BY <1>1, <1>4 DEF AtRow
<1>8. x \in GoodAt /\ y \in GoodAt /\ z \in GoodAt
  BY <1>1, <1>5, <1>6, <1>7 DEF GoodAt
<1> QED
  BY <1>2, <1>3, <1>4, <1>8

LEMMA LinkEval ==
    ASSUME Run # {}, LinkInv, NEW a \in Actor, Load(a) \/ Breaks(a) \/ View(a) \/ ReadLinks(a)
    PROVE  LinkInv'
<1>1. at[a] \in AtRow /\ at[a] \in GoodAt /\ at[a].run \in Run
  BY LinkTypes, ActorFields DEF LinkInv
<1>2. UNCHANGED <<sheet, world, links, used>>
  BY DEF Load, Breaks, View, ReadLinks
<1>3. ASSUME at' = at \/ \E x \in GoodAt : at' = [at EXCEPT ![a] = x],
             run' = run \/ \E r \in Run, row \in GoodRow : run' = [run EXCEPT ![r] = row]
      PROVE  LinkInv'
  BY <1>2, <1>3, LinkMoves DEF LinkInv
<1>4. {"failed", "running"} \subseteq Statuses /\ {"view", "links", "store"} \subseteq Pcs
  BY DEF Statuses, Pcs
<1>5. ASSUME GiveUp(a) PROVE LinkInv'
  <2>1. run' = run \/ \E r \in Run, row \in GoodRow : run' = [run EXCEPT ![r] = row]
    BY <1>4, <1>5, StatusGood DEF GiveUp
  <2> QED
    BY <1>3, <1>5, <2>1, IdleGood DEF GiveUp, Stop
<1>6. CASE Load(a)
  <2>1. CASE SetStatus(at[a].run, "running") /\ Goto(a, "view")
    <3>1. run' = run \/ \E r \in Run, row \in GoodRow : run' = [run EXCEPT ![r] = row]
      BY <1>1, <1>4, <2>1, StatusGood
    <3>2. \E x \in GoodAt : at' = [at EXCEPT ![a] = x]
      BY <1>4, <2>1, GotoGood
    <3> QED
      BY <1>3, <3>1, <3>2
  <2> QED
    BY <1>5, <1>6, <2>1 DEF Load
<1>7. CASE Breaks(a)
  BY <1>5, <1>7 DEF Breaks
<1>8. CASE View(a)
  <2>1. PICK w \in SUBSET Worlds : w = IF sheet[at[a].run] = "done" THEN {world} ELSE {}
    BY DEF LinkInv
  <2>2. PICK n \in Nat : n = used.change
    BY DEF LinkInv
  <2>3. PICK x : x = [at[a] EXCEPT !.pc = "links", !.seen = n, !.world = w]
    OBVIOUS
  <2>4. x \in AtRow /\ x.try = at[a].try /\ x.world = w
    BY <1>1, <2>3 DEF AtRow, Pcs
  <2>5. w = {} \/ \E v \in Worlds : w = {v}
    BY <2>1 DEF LinkInv
  <2>6. x \in GoodAt
    BY <1>1, <2>4, <2>5 DEF GoodAt
  <2>7. at' = [at EXCEPT ![a] = x] /\ UNCHANGED run
    BY <1>8, <2>1, <2>2, <2>3 DEF View
  <2> QED
    BY <1>3, <2>6, <2>7
<1>9. CASE ReadLinks(a)
  <2>1. PICK x : x = [at[a] EXCEPT !.pc = "store", !.links = links]
    OBVIOUS
  <2>2. x \in AtRow /\ x.try = at[a].try /\ x.world = at[a].world
    BY <1>1, <2>1 DEF AtRow, Pcs, LinkInv
  <2>3. x \in GoodAt
    BY <1>1, <2>2 DEF GoodAt
  <2>4. at' = [at EXCEPT ![a] = x] /\ UNCHANGED run
    BY <1>9, <2>1 DEF ReadLinks
  <2> QED
    BY <1>3, <2>3, <2>4
<1> QED
  BY <1>6, <1>7, <1>8, <1>9

LEMMA LinkStore ==
    ASSUME Run # {}, LinkInv, NEW a \in Actor, NEW answers \in Answer, Store(a, answers)
    PROVE  LinkInv'
<1>1. at[a] \in GoodAt /\ at[a] \in AtRow /\ at[a].run \in Run /\ at[a].asked \in Nat /\ at[a].seen \in Nat
      /\ at[a].world \subseteq Worlds /\ at[a].links \in [Doc -> Chosen]
  BY LinkTypes, ActorFields DEF LinkInv
<1>2. PICK r \in Run : r = at[a].run
  BY <1>1
<1>3. run[r].asked \in Nat
  BY LinkTypes, RunFields
<1> DEFINE spot(d) == IF at[a].world = {} THEN Absent
                      ELSE LET w == CHOOSE w \in at[a].world : TRUE IN Place(at[a].links[d], w[d], answers[d])
<1>4. at[a].world # {} => \E w \in Worlds : at[a].world = {w} /\ \A d \in Doc : spot(d) = Place(at[a].links[d], w[d], answers[d])
  <2> SUFFICES ASSUME at[a].world # {}
               PROVE  \E w \in Worlds : at[a].world = {w} /\ \A d \in Doc : spot(d) = Place(at[a].links[d], w[d], answers[d])
    OBVIOUS
  <2>1. PICK w \in Worlds : at[a].world = {w}
    BY <1>1 DEF GoodAt
  <2>2. (CHOOSE v \in at[a].world : TRUE) = w
    BY <2>1
  <2> QED
    BY <2>1, <2>2
<1>5. at[a].world = {} => \A d \in Doc : spot(d) = Absent
  OBVIOUS
<1>6. \A d \in Doc : spot(d) \in Places
  <2>1. ASSUME NEW d \in Doc, at[a].world # {} PROVE spot(d) \in Places
    <3>1. PICK w \in Worlds : spot(d) = Place(at[a].links[d], w[d], answers[d])
      BY <1>4, <2>1
    <3>2. w[d] \in [DOMAIN Steps -> [Contract -> Verdict]]
      BY ChecksAssumption DEF World
    <3>3. answers[d] \in Answers /\ at[a].links[d] \in Chosen
      BY <1>1 DEF Answer, Answers
    <3>4. Place(at[a].links[d], w[d], answers[d]) \in Places
      BY <3>2, <3>3 DEF Places
    <3> HIDE DEF spot
    <3> QED
      BY <3>1, <3>4
  <2>2. Absent \in Places
    BY DEF Places
  <2> QED
    BY <1>5, <2>1, <2>2
<1>7. PICK n \in Nat : n = Larger(run[r].asked, at[a].asked)
  BY <1>1, <1>3 DEF Larger
<1>8. PICK place : place = [d \in Doc |-> spot(d)]
  OBVIOUS
<1>9. place \in [Doc -> Places] /\ \A d \in Doc : place[d] = spot(d)
  BY <1>6, <1>8
<1>10. PICK z : z = [seen |-> at[a].seen, links |-> at[a].links, world |-> at[a].world, place |-> place]
  OBVIOUS
<1>11. PICK row : row = [status |-> "done", asked |-> n, result |-> z]
  OBVIOUS
<1>12. run' = run \/ run' = [run EXCEPT ![r] = row]
  <2>1. run' = IF ~Exists(r) THEN run
               ELSE [run EXCEPT ![r] = [status |-> "done", asked |-> Larger(run[r].asked, at[a].asked),
                           result |-> [seen |-> at[a].seen, links |-> at[a].links, world |-> at[a].world, place |-> place]]]
    BY <1>2, <1>8 DEF Store
  <2> QED
    BY <1>7, <1>10, <1>11, <2>1
<1> HIDE DEF spot
<1>13. z \in Results /\ z.world = at[a].world /\ z.links = at[a].links /\ z.place = place
  BY <1>1, <1>9, <1>10 DEF Results
<1>14. GoodResult(z)
  BY <1>4, <1>5, <1>9, <1>13 DEF GoodResult
<1>15. row \in GoodRow
  BY <1>11, <1>13, <1>14 DEF GoodRow, RunRow, Statuses
<1>16. at' = [at EXCEPT ![a] = Idle] /\ UNCHANGED <<sheet, world, links, used>>
  BY DEF Store, Stop
<1> QED
  BY <1>12, <1>15, <1>16, IdleGood, LinkMoves DEF LinkInv

LEMMA LinkTask ==
    ASSUME Run # {}, LinkInv, NEW r \in Run,
           TaskStart(r) \/ Built(r) \/ (\E last \in BOOLEAN : NotBuilt(r, last)) \/ AfterBuild(r) \/ TryAgain(r)
    PROVE  LinkInv'
<1>1. r \in Actor /\ at[r] \in GoodAt /\ at[r] \in AtRow /\ at[r].try \in 0..MaxTry /\ MaxTry \in Nat
  BY LinkTypes, ActorFields, ChecksAssumption DEF LinkInv, Actor, GoodAt
<1>2. world' \in Worlds /\ links' \in [Doc -> Chosen]
  BY DEF TaskStart, Built, NotBuilt, AfterBuild, TryAgain, LinkInv
<1>3. used' \in [req : Nat, change : Nat]
  <2>1. used \in [req : Nat, change : Nat]
    BY DEF LinkInv
  <2>2. used' = used \/ used' = [used EXCEPT !.change = used.change + 1]
    BY DEF TaskStart, Built, NotBuilt, AfterBuild, TryAgain, Changed
  <2> QED
    BY <2>1, <2>2
<1>4. sheet' \in [Run -> {"none", "pending", "done", "failed", "deleted"}]
  BY DEF LinkInv, TaskStart, Built, NotBuilt, AfterBuild, TryAgain
<1>5. run' = run \/ \E row \in GoodRow : run' = [run EXCEPT ![r] = row]
  <2>1. UNCHANGED run \/ SetStatus(r, "failed")
    BY DEF TaskStart, Built, NotBuilt, AfterBuild, TryAgain
  <2> QED
    BY <2>1, StatusGood DEF Statuses
<1>6. \E x \in GoodAt : at' = [at EXCEPT ![r] = x]
  <2>1. ASSUME NEW pc, pc \in {"build", "built", "not built"}, Goto(r, pc) PROVE \E x \in GoodAt : at' = [at EXCEPT ![r] = x]
    BY <1>1, <2>1, GotoGood DEF Pcs
  <2>2. ASSUME Stop(r) PROVE \E x \in GoodAt : at' = [at EXCEPT ![r] = x]
    BY <2>2, IdleGood DEF Stop
  <2>3. CASE AfterBuild(r)
    <3>1. CASE at' = [at EXCEPT ![r].pc = "load", ![r].asked = used.change]
      <4>1. PICK n \in Nat : n = used.change
        BY DEF LinkInv
      <4>2. PICK x : x = [at[r] EXCEPT !.pc = "load", !.asked = n]
        OBVIOUS
      <4>3. x \in AtRow /\ x.try = at[r].try /\ x.world = at[r].world
        BY <1>1, <4>2 DEF AtRow, Pcs
      <4>4. x \in GoodAt
        BY <1>1, <4>3 DEF GoodAt
      <4>5. at' = [at EXCEPT ![r] = x]
        BY <3>1, <4>1, <4>2
      <4> QED
        BY <4>4, <4>5
    <3> QED
      BY <2>2, <2>3, <3>1 DEF AfterBuild
  <2>4. CASE TryAgain(r)
    <3>1. CASE at[r].try < MaxTry
      <4>1. PICK k \in 0..MaxTry : k = at[r].try + 1
        BY <1>1, <3>1
      <4>2. at' = [at EXCEPT ![r] = [Idle EXCEPT !.pc = "queued", !.run = r, !.try = k]]
        BY <2>4, <3>1, <4>1 DEF TryAgain, Retry
      <4> QED
        BY <4>2, StartGood DEF Pcs
    <3> QED
      BY <2>4, <3>1 DEF TryAgain
  <2> QED
    BY <2>1, <2>2, <2>3, <2>4 DEF TaskStart, Built, NotBuilt
<1> QED
  BY <1>1, <1>2, <1>3, <1>4, <1>5, <1>6, LinkMoves

LEMMA LinkDies ==
    ASSUME Run # {}, LinkInv, NEW a \in Actor, Dies(a)
    PROVE  LinkInv'
<1>1. at[a].try \in 0..MaxTry /\ MaxTry \in Nat
  BY LinkTypes, ActorFields, ChecksAssumption DEF LinkInv, GoodAt
<1>2. \E x \in GoodAt : at' = [at EXCEPT ![a] = x]
  <2>1. CASE a \in Run /\ at[a].try < MaxTry
    <3>1. PICK k \in 0..MaxTry : k = at[a].try + 1
      BY <1>1, <2>1
    <3>2. at' = [at EXCEPT ![a] = [Idle EXCEPT !.pc = "queued", !.run = a, !.try = k]]
      BY <2>1, <3>1 DEF Dies, Retry
    <3> QED
      BY <2>1, <3>2, StartGood DEF Pcs
  <2>2. CASE ~(a \in Run /\ at[a].try < MaxTry)
    <3>1. at' = [at EXCEPT ![a] = Idle]
      BY <2>2 DEF Dies, Retry, Stop
    <3> QED
      BY <3>1, IdleGood
  <2> QED
    BY <2>1, <2>2
<1>3. UNCHANGED <<run, sheet, world, links, used>>
  BY DEF Dies
<1> QED
  BY <1>2, <1>3, LinkMoves DEF LinkInv

LEMMA LinkAsk ==
    ASSUME Run # {}, LinkInv, NEW q \in Req, NEW r \in Run,
           Rerun(q, r) \/ \E d \in Doc, choice \in Contract \cup {BySteps, None} : SetLink(q, r, d, choice)
    PROVE  LinkInv'
<1>1. q \in Actor /\ UNCHANGED <<run, sheet, world>>
  BY DEF Actor, Rerun, SetLink
<1>2. used' \in [req : Nat, change : Nat]
  <2>1. Spend(0) \/ Spend(1)
    BY DEF Rerun, SetLink
  <2> QED
    BY <2>1, Spending, LinkTypes
<1>3. links' \in [Doc -> Chosen]
  BY DEF Rerun, SetLink, LinkInv, Chosen
<1>4. \E x \in GoodAt : at' = [at EXCEPT ![q] = x]
  <2>1. PICK n \in Nat : at' = [at EXCEPT ![q] = [Idle EXCEPT !.pc = "load", !.run = r, !.asked = n]]
    <3>1. used.change \in Nat /\ used.change + 1 \in Nat
      BY DEF LinkInv
    <3> QED
      BY <3>1 DEF Rerun, SetLink
  <2>2. 0 \in 0..MaxTry /\ "load" \in Pcs
    BY ChecksAssumption DEF Pcs
  <2>3. [Idle EXCEPT !.pc = "load", !.run = r, !.asked = n] \in GoodAt
    BY <2>2, StartGood
  <2> QED
    BY <2>1, <2>3
<1> QED
  BY <1>1, <1>2, <1>3, <1>4, LinkMoves DEF LinkInv

LEMMA LinkDeletes ==
    ASSUME LinkInv,
           \/ \E r \in Run : DeleteCheck(r) \/ DeleteSheet(r)
           \/ \E w \in Worlds : Correct(w)
           \/ DeleteRuleset
    PROVE  LinkInv'
<1>1. at' = at /\ links' = links
  BY DEF DeleteCheck, DeleteSheet, Correct, DeleteRuleset
<1>2. used' \in [req : Nat, change : Nat]
  <2>1. Spend(0) \/ Spend(1)
    BY DEF DeleteCheck, DeleteSheet, Correct, DeleteRuleset
  <2> QED
    BY <2>1, Spending, LinkTypes
<1>3. world' \in Worlds
  BY DEF DeleteCheck, DeleteSheet, Correct, DeleteRuleset, LinkInv
<1>4. run' = run \/ \E r \in Run, row \in GoodRow : run' = [run EXCEPT ![r] = row]
  BY NoRunGood DEF DeleteCheck, DeleteSheet, Correct, DeleteRuleset, Statuses
<1>5. sheet' \in [Run -> {"none", "pending", "done", "failed", "deleted"}]
  BY DEF LinkInv, DeleteCheck, DeleteSheet, Correct, DeleteRuleset
<1> QED
  BY <1>1, <1>2, <1>3, <1>4, <1>5, LinkMoves DEF LinkInv

LEMMA LinkInsert ==
    ASSUME Run # {}, LinkInv, NEW q \in Req, Insert(q)
    PROVE  LinkInv'
<1>1. q \in Actor
  BY DEF Actor
<1>2. PICK r \in Run : r = at[q].run
  BY <1>1, LinkTypes, ActorFields
<1>3. PICK x : x = [run[r] EXCEPT !.status = "pending"]
  OBVIOUS
<1>4. run[r] \in GoodRow
  BY DEF LinkInv
<1>5. x \in RunRow /\ x.result = run[r].result
  BY <1>3, <1>4 DEF GoodRow, RunRow, Statuses
<1>6. x \in GoodRow
  BY <1>4, <1>5 DEF GoodRow
<1>7. run' = run \/ run' = [run EXCEPT ![r] = x]
  BY <1>2, <1>3 DEF Insert
<1>8. at' = [at EXCEPT ![q] = Idle] /\ UNCHANGED <<sheet, world, links, used>>
  BY DEF Insert, Stop
<1> QED
  BY <1>1, <1>6, <1>7, <1>8, IdleGood, LinkMoves DEF LinkInv

LEMMA LinkCreate ==
    ASSUME Run # {}, LinkInv, NEW q \in Req, NEW r \in Run, Create(q, r)
    PROVE  LinkInv'
<1>1. q \in Actor /\ r \in Actor
  BY DEF Actor
<1>2. 0 \in 0..MaxTry /\ 0 \in Nat /\ "queued" \in Pcs /\ "insert" \in Pcs
  BY ChecksAssumption DEF Pcs
<1>3. PICK x \in GoodAt : x = [Idle EXCEPT !.pc = "queued", !.run = r]
  BY <1>2, StartGood
<1>4. PICK y \in GoodAt : y = [Idle EXCEPT !.pc = "insert", !.run = r]
  BY <1>2, StartGood
<1>5. at' = [at EXCEPT ![r] = x, ![q] = y] /\ sheet' = [sheet EXCEPT ![r] = "pending"] /\ UNCHANGED <<run, world, links, used>>
  BY <1>3, <1>4 DEF Create
<1> QED
  BY <1>1, <1>5 DEF LinkInv

LEMMA LinkStep == Run # {} /\ LinkInv /\ [Next]_vars => LinkInv'
<1> SUFFICES ASSUME Run # {}, LinkInv, [Next]_vars PROVE LinkInv'
  OBVIOUS
<1>1. ASSUME NEW a \in Actor, Evaluate(a) \/ Breaks(a) PROVE LinkInv'
  BY <1>1, LinkEval, LinkStore DEF Evaluate
<1>2. ASSUME NEW a \in Actor, Dies(a) PROVE LinkInv'
  BY <1>2, LinkDies
<1>3. ASSUME NEW r \in Run, Task(r) \/ TryAgain(r) PROVE LinkInv'
  BY <1>3, LinkTask DEF Task
<1>4. ASSUME NEW q \in Req, Insert(q) PROVE LinkInv'
  BY <1>4, LinkInsert
<1>5. ASSUME NEW q \in Req, NEW r \in Run, Create(q, r) PROVE LinkInv'
  BY <1>5, LinkCreate
<1>6. ASSUME NEW q \in Req, NEW r \in Run, Rerun(q, r) \/ \E d \in Doc, choice \in Contract \cup {BySteps, None} : SetLink(q, r, d, choice)
      PROVE  LinkInv'
  BY <1>6, LinkAsk
<1>7. CASE \/ \E r \in Run : DeleteCheck(r) \/ DeleteSheet(r)
           \/ \E w \in Worlds : Correct(w)
           \/ DeleteRuleset
  BY <1>7, LinkDeletes
<1>8. CASE UNCHANGED vars
  BY <1>8 DEF LinkInv, vars
<1> QED
  BY <1>1, <1>2, <1>3, <1>4, <1>5, <1>6, <1>7, <1>8 DEF Next

LEMMA PlaceType ==
    ASSUME NEW choice \in Chosen, NEW says \in Says, NEW answers
    PROVE  Place(choice, says, answers) \in Contract \cup {None}
<1>1. Link(says, answers) \in Contract \cup {None}
  <2>1. CASE Cardinality(Candidates(says, answers)) = 1
    <3>1. Candidates(says, answers) # {}
      BY <2>1, FS_EmptySet
    <3> QED
      BY <2>1, <3>1, LinkType DEF Link
  <2> QED
    BY <2>1 DEF Link
<1> QED
  BY <1>1 DEF Place, Chosen

(* Whatever dies, fails, is chosen or corrected while a run is evaluated:  *)
(* its result has every document under the contract the user chose, else   *)
(* under one that beats every other, and under it when it fails no step    *)
(* (sheets/checks.go, link), for any contracts, documents and steps.       *)
THEOREM LinksAreSound ==
    ASSUME Run # {}, IsFiniteSet(Contract)
    PROVE  Spec => []LinkSound
<1>1. Init => LinkInv
  <2>1. Init /\ "none" \in Statuses => \A r \in Run : run[r] \in GoodRow
    BY NoRunGood DEF Init
  <2> QED
    BY <2>1, IdleGood, NoRunGood DEF Init, LinkInv, Chosen, Statuses
<1>2. LinkInv /\ [Next]_vars => LinkInv'
  BY LinkStep
<1>3. LinkInv => LinkSound
  <2> SUFFICES ASSUME LinkInv PROVE LinkSound
    OBVIOUS
  <2>1. \A w \in Worlds, d \in Doc : w[d] \in Says
    BY ChecksAssumption DEF World, Says
  <2>2. ASSUME NEW r \in Run, NEW d \in Doc
        PROVE  /\ run[r].result.place[d] \in Contract \cup {None, Absent}
               /\ \A w \in run[r].result.world :
                    LET choice == run[r].result.links[d]
                        place == run[r].result.place[d]
                    IN  IF choice # BySteps THEN place = choice
                        ELSE "ai" \notin ToSet(Steps) /\ Steps # <<>> =>
                             /\ place # None => Beats(w[d], place)
                             /\ \A c \in Contract : Beats(w[d], c) /\ (\A i \in DOMAIN Steps : w[d][i][c] # "fail") => place = c
    <3>1. PICK z : z = run[r].result
      OBVIOUS
    <3>2. z \in Results /\ GoodResult(z)
      BY <3>1 DEF LinkInv, GoodRow, RunRow
    <3>3. CASE z.world = {} /\ \A e \in Doc : z.place[e] = Absent
      BY <3>1, <3>3
    <3>4. ASSUME NEW w \in Worlds, NEW answers \in Answer, z.world = {w}, \A e \in Doc : z.place[e] = Place(z.links[e], w[e], answers[e])
          PROVE  /\ z.place[d] \in Contract \cup {None}
                 /\ IF z.links[d] # BySteps THEN z.place[d] = z.links[d]
                    ELSE "ai" \notin ToSet(Steps) =>
                         /\ z.place[d] # None => Beats(w[d], z.place[d])
                         /\ \A c \in Contract : Clear(w[d], c) => z.place[d] = c
      <4>1. z.links[d] \in Chosen /\ w[d] \in Says
        BY <2>1, <3>2 DEF Results
      <4>2. z.place[d] = Place(z.links[d], w[d], answers[d])
        BY <3>4
      <4>3. z.place[d] \in Contract \cup {None}
        BY <4>1, <4>2, PlaceType
      <4>4. CASE z.links[d] # BySteps
        BY <4>2, <4>3, <4>4 DEF Place
      <4>5. CASE z.links[d] = BySteps
        <5>1. z.place[d] = Link(w[d], answers[d])
          BY <4>2, <4>5 DEF Place
        <5> QED
          BY <4>1, <4>3, <4>5, <5>1, LinkFinds
      <4> QED
        BY <4>4, <4>5
    <3>5. CASE \E w \in Worlds, answers \in Answer : z.world = {w} /\ \A e \in Doc : z.place[e] = Place(z.links[e], w[e], answers[e])
      <4>1. PICK w \in Worlds, answers \in Answer : z.world = {w} /\ \A e \in Doc : z.place[e] = Place(z.links[e], w[e], answers[e])
        BY <3>5
      <4> QED
        BY <3>1, <3>4, <4>1 DEF Clear
    <3> QED
      BY <3>2, <3>3, <3>5 DEF GoodResult
  <2>3. ASSUME NEW r \in Run
        PROVE  /\ run[r].status \in {"none", "pending", "running", "done", "failed", "deleted"}
               /\ run[r].result.seen \in Nat /\ run[r].asked \in Nat
               /\ sheet[r] \in {"none", "pending", "done", "failed", "deleted"}
    BY LinkTypes, RunFields DEF Statuses, LinkInv
  <2>4. ASSUME NEW a \in Actor PROVE at[a].try \in 0..MaxTry /\ at[a].run \in Run
    BY LinkTypes, ActorFields, ChecksAssumption DEF LinkInv, GoodAt
  <2>5. world \in Worlds /\ \A d \in Doc : links[d] \in Contract \cup {BySteps, None}
    BY DEF LinkInv, Chosen
  <2>6. TypeOK
    BY <2>2, <2>3, <2>4, <2>5 DEF TypeOK
  <2> QED
    BY <2>2, <2>6 DEF LinkSound
<1> QED
  BY <1>1, <1>2, <1>3, PTL DEF Spec

-----------------------------------------------------------------------------
(* Sums.                                                                   *)

Rising(f, g, n) ==
    f \in [0..n -> Int] /\ f[0] = 0 /\ \A i \in 1..n : f[i] = f[i - 1] + g[i]

LEMMA SumsExist ==
    ASSUME NEW N \in Nat, NEW g, \A i \in 1..N : g[i] \in Int
    PROVE  \E f : Rising(f, g, N)
<1> DEFINE S == {n \in 0..N : \E f : Rising(f, g, n)}
<1>1. 0 \in S
  <2> DEFINE f == [i \in 0..0 |-> 0]
  <2>1. Rising(f, g, 0)
    BY DEF Rising
  <2> QED
    BY <2>1
<1>2. ASSUME NEW n \in 1..N, n - 1 \in S PROVE n \in S
  <2>1. PICK f : Rising(f, g, n - 1)
    BY <1>2
  <2> DEFINE h == [i \in 0..n |-> IF i = n THEN f[n - 1] + g[n] ELSE f[i]]
  <2>2. n \in 0..N /\ n - 1 \in 0..(n - 1) /\ 0 \in 0..n /\ 0 # n
    OBVIOUS
  <2>3. f[n - 1] \in Int /\ g[n] \in Int /\ \A i \in 0..n : i # n => i \in 0..(n - 1) /\ f[i] \in Int
    BY <2>1, <2>2 DEF Rising
  <2>4. h \in [0..n -> Int]
    BY <2>3
  <2>5. h[0] = 0
    BY <2>1, <2>2 DEF Rising
  <2>6. ASSUME NEW i \in 1..n PROVE h[i] = h[i - 1] + g[i]
    <3>1. i \in 0..n /\ i - 1 \in 0..n /\ i - 1 # n /\ h[i - 1] = f[i - 1]
      OBVIOUS
    <3>2. CASE i = n
      BY <3>1, <3>2
    <3>3. CASE i # n
      <4>1. i \in 1..(n - 1) /\ h[i] = f[i]
        BY <3>3
      <4> QED
        BY <2>1, <3>1, <4>1 DEF Rising
    <3> QED
      BY <3>2, <3>3
  <2> HIDE DEF h
  <2>7. Rising(h, g, n)
    BY <2>4, <2>5, <2>6 DEF Rising
  <2> QED
    BY <2>2, <2>7
<1> HIDE DEF S
<1>3. 0..N \subseteq S
  BY <1>1, <1>2, UpToN
<1> QED
  BY <1>3 DEF S

Adds(f, g, N) == \A i \in 1..N : f[i] = f[i - 1] + g[i]

LEMMA SumsAgree ==
    ASSUME NEW N \in Nat, NEW g, NEW h, \A i \in 1..N : g[i] = h[i],
           NEW a, NEW b, a[0] = b[0], Adds(a, g, N), Adds(b, h, N)
    PROVE  a[N] = b[N]
<1> DEFINE S == {n \in 0..N : a[n] = b[n]}
<1>1. 0 \in S
  OBVIOUS
<1>2. ASSUME NEW n \in 1..N, n - 1 \in S PROVE n \in S
  BY <1>2 DEF Adds
<1> HIDE DEF S
<1>3. 0..N \subseteq S
  BY <1>1, <1>2, UpToN
<1> QED
  BY <1>3 DEF S

NumCell == {Num(n) : n \in Int}
Terms(items) == [i \in 1..Len(items) |-> items[i].n]

LEMMA TotalRises ==
    ASSUME NEW items \in Seq(NumCell)
    PROVE  \E f : Rising(f, Terms(items), Len(items)) /\ Total(items) = f[Len(items)]
<1> DEFINE N == Len(items)
           P(f) == f = [i \in 0..N |-> IF i = 0 THEN 0 ELSE f[i - 1] + items[i].n]
           c == CHOOSE f : P(f)
<1>1. N \in Nat /\ \A i \in 1..N : items[i].n \in Int /\ Terms(items)[i] = items[i].n
  <2>1. \A i \in 1..N : items[i] \in NumCell
    OBVIOUS
  <2> QED
    BY <2>1 DEF NumCell, Num, Terms
<1>2. PICK f : Rising(f, Terms(items), N)
  BY <1>1, SumsExist
<1>3. P(f)
  <2>1. f = [i \in 0..N |-> f[i]]
    BY <1>2 DEF Rising
  <2>2. \A i \in 0..N : f[i] = IF i = 0 THEN 0 ELSE f[i - 1] + items[i].n
    <3> SUFFICES ASSUME NEW i \in 0..N PROVE f[i] = IF i = 0 THEN 0 ELSE f[i - 1] + items[i].n
      OBVIOUS
    <3>1. i # 0 => i \in 1..N
      BY <1>1
    <3> QED
      BY <1>1, <1>2, <3>1 DEF Rising
  <2> QED
    BY <2>1, <2>2
<1>4. P(c)
  <2> HIDE DEF P
  <2> QED
    BY <1>3
<1>5. Total(items) = c[N]
  BY DEF Total
<1> HIDE DEF c
<1>6. c[0] = 0 /\ \A i \in 1..N : c[i] = c[i - 1] + items[i].n
  <2>1. \A i \in 0..N : c[i] = IF i = 0 THEN 0 ELSE c[i - 1] + items[i].n
    BY <1>4
  <2>2. 0 \in 0..N /\ \A i \in 1..N : i \in 0..N /\ i # 0
    BY <1>1
  <2> QED
    BY <2>1, <2>2
<1>7. c[N] = f[N]
  <2> DEFINE g == Terms(items)
  <2>1. Adds(c, g, N) /\ Adds(f, g, N)
    BY <1>1, <1>2, <1>6 DEF Rising, Adds
  <2>2. c[0] = f[0]
    BY <1>2, <1>6 DEF Rising
  <2>3. N \in Nat /\ \A i \in 1..N : g[i] = g[i]
    BY <1>1
  <2> HIDE DEF g, P, N
  <2> QED
    BY ONLY <2>1, <2>2, <2>3, SumsAgree
<1> QED
  BY <1>2, <1>5, <1>7

LEMMA TotalType ==
    ASSUME NEW items \in Seq(NumCell)
    PROVE  Total(items) \in Int
<1>1. PICK f : Rising(f, Terms(items), Len(items)) /\ Total(items) = f[Len(items)]
  BY TotalRises
<1>2. Len(items) \in 0..Len(items)
  OBVIOUS
<1> QED
  BY <1>1, <1>2 DEF Rising

LEMMA TotalGrows ==
    ASSUME NEW items \in Seq(NumCell), NEW x \in NumCell
    PROVE  Total(Append(items, x)) = Total(items) + x.n
<1> DEFINE more == Append(items, x)
           N == Len(items)
<1>1. /\ N \in Nat /\ more \in Seq(NumCell) /\ Len(more) = N + 1 /\ more[N + 1] = x
      /\ \A i \in 1..N : more[i] = items[i]
  OBVIOUS
<1> HIDE DEF more
<1>2. PICK f : Rising(f, Terms(items), N) /\ Total(items) = f[N]
  BY TotalRises
<1>3. PICK h : Rising(h, Terms(more), N + 1) /\ Total(more) = h[N + 1]
  BY <1>1, TotalRises
<1>4. \A i \in 1..N : Terms(items)[i] = Terms(more)[i]
  BY <1>1 DEF Terms
<1>5. Terms(more)[N + 1] = x.n
  BY <1>1 DEF Terms
<1>6. f[N] = h[N]
  <2>1. f[0] = h[0]
    BY <1>2, <1>3 DEF Rising
  <2>2. \A i \in 1..N : i \in 1..(N + 1)
    BY <1>1
  <2>3. Adds(f, Terms(items), N) /\ Adds(h, Terms(more), N)
    BY <1>2, <1>3, <2>2 DEF Rising, Adds
  <2>4. N \in Nat
    BY <1>1
  <2> HIDE DEF N
  <2> QED
    BY ONLY <1>4, <2>1, <2>3, <2>4, SumsAgree
<1>7. h[N + 1] = h[N] + x.n
  <2>1. N + 1 \in 1..(N + 1) /\ (N + 1) - 1 = N
    BY <1>1
  <2> QED
    BY <1>3, <1>5, <2>1 DEF Rising
<1> QED
  BY <1>2, <1>3, <1>6, <1>7 DEF more

-----------------------------------------------------------------------------
(* Values and their outcomes.                                              *)

Cell == NumCell \cup {Unknown}
Truth == {Unknown, Bool(TRUE), Bool(FALSE)}
Lists(S) == {List(l) : l \in Seq(S)}
Cells == Cell \cup Lists(Cell)
Truths == Truth \cup Lists(Truth)

(* What a value holds.                                                     *)
Held(v) == IF v.k = "list" THEN {v.l[i] : i \in DOMAIN v.l} ELSE {v}

LEMMA Kinds ==
    /\ Unknown.k = "unknown" /\ \A n : Num(n).k = "num" /\ Num(n).n = n /\ Num(n) # Unknown
    /\ \A b : Bool(b).k = "bool" /\ Bool(b).b = b /\ Bool(b) # Unknown
    /\ \A l : List(l).k = "list" /\ List(l).l = l
    /\ Bool(TRUE) # Bool(FALSE)
    /\ \A c \in Cell : c.k \in {"num", "unknown"} /\ (c.k = "unknown" <=> c = Unknown)
    /\ \A c \in Cell : c # Unknown => c.k = "num" /\ c.n \in Int /\ c = Num(c.n)
    /\ \A c \in Truth : c.k \in {"bool", "unknown"}
<1>1. Unknown.k = "unknown" /\ \A n : Num(n).k = "num" /\ Num(n).n = n
  BY DEF Unknown, Num
<1>2. \A b : Bool(b).k = "bool" /\ Bool(b).b = b
  BY DEF Bool
<1>3. \A l : List(l).k = "list" /\ List(l).l = l
  BY DEF List
<1>4. (\A n : Num(n) # Unknown) /\ \A b : Bool(b) # Unknown
  <2>1. "num" # "unknown" /\ "bool" # "unknown"
    OBVIOUS
  <2> QED
    BY <1>1, <1>2, <2>1
<1>5. Bool(TRUE) # Bool(FALSE)
  <2> SUFFICES ASSUME Bool(TRUE) = Bool(FALSE) PROVE FALSE
    OBVIOUS
  <2>1. Bool(TRUE).b = TRUE
    BY <1>2, Zenon
  <2>2. Bool(FALSE).b = FALSE
    BY <1>2, Zenon
  <2>3. Bool(TRUE).b = Bool(FALSE).b
    OBVIOUS
  <2> QED
    BY <2>1, <2>2, <2>3, Zenon
<1>6. \A c \in NumCell : c.k = "num" /\ c.n \in Int /\ c = Num(c.n)
  BY <1>1 DEF NumCell
<1>7. \A c \in Cell : c \in NumCell \/ c = Unknown
  BY DEF Cell
<1>8. \A c \in Truth : c.k \in {"bool", "unknown"}
  BY <1>1, <1>2 DEF Truth
<1> QED
  BY <1>1, <1>2, <1>3, <1>4, <1>5, <1>6, <1>7, <1>8

(* A list passes when each of its items does, and there are some.          *)
LEMMA OutcomeTells ==
    ASSUME NEW v \in Truths
    PROVE  /\ Outcome(v) \in {"pass", "fail", "unknown"}
           /\ Outcome(v) = "pass" <=> Held(v) = {Bool(TRUE)}
           /\ Outcome(v) = "fail" <=> Bool(FALSE) \in Held(v)
<1>1. \A c \in Truth : /\ ItemVerdict(c) \in {"pass", "fail", "unknown"}
                       /\ ItemVerdict(c) = "pass" <=> c = Bool(TRUE)
                       /\ ItemVerdict(c) = "fail" <=> c = Bool(FALSE)
  <2> SUFFICES ASSUME NEW c \in Truth
               PROVE  /\ ItemVerdict(c) \in {"pass", "fail", "unknown"}
                      /\ ItemVerdict(c) = "pass" <=> c = Bool(TRUE)
                      /\ ItemVerdict(c) = "fail" <=> c = Bool(FALSE)
    OBVIOUS
  <2>1. CASE c = Unknown
    BY <2>1, Kinds DEF ItemVerdict
  <2>2. CASE c = Bool(TRUE)
    BY <2>2, Kinds DEF ItemVerdict
  <2>3. CASE c = Bool(FALSE)
    BY <2>3, Kinds DEF ItemVerdict
  <2> QED
    BY <2>1, <2>2, <2>3 DEF Truth
<1>2. CASE v \in Truth
  <2>1. v.k # "list"
    BY <1>2, Kinds
  <2>2. Outcome(v) = ItemVerdict(v) /\ Held(v) = {v}
    BY <2>1 DEF Outcome, Held
  <2> QED
    BY <1>1, <1>2, <2>2
<1>3. CASE v \in Lists(Truth)
  <2>1. PICK l \in Seq(Truth) : v = List(l)
    BY <1>3 DEF Lists
  <2>2. v.k = "list" /\ v.l = l
    BY <2>1, Kinds
  <2>3. \A i \in DOMAIN l : l[i] \in Truth
    OBVIOUS
  <2> DEFINE found == {ItemVerdict(l[i]) : i \in DOMAIN l}
  <2>4. Outcome(v) = IF "error" \in found THEN "error" ELSE IF "fail" \in found THEN "fail"
                     ELSE IF found = {"pass"} THEN "pass" ELSE "unknown"
    BY <2>2 DEF Outcome
  <2>5. Held(v) = {l[i] : i \in DOMAIN l}
    BY <2>2 DEF Held
  <2>6. "error" \notin found
    BY <1>1, <2>3
  <2>7. "fail" \in found <=> Bool(FALSE) \in Held(v)
    BY <1>1, <2>3, <2>5
  <2>8. found = {"pass"} <=> Held(v) = {Bool(TRUE)}
    <3>1. ASSUME found = {"pass"} PROVE Held(v) = {Bool(TRUE)}
      <4>1. \A i \in DOMAIN l : l[i] = Bool(TRUE)
        BY <1>1, <2>3, <3>1
      <4>2. DOMAIN l # {}
        BY <3>1
      <4> QED
        BY <2>5, <4>1, <4>2
    <3>2. ASSUME Held(v) = {Bool(TRUE)} PROVE found = {"pass"}
      <4>1. \A i \in DOMAIN l : l[i] = Bool(TRUE)
        BY <2>5, <3>2
      <4>2. DOMAIN l # {}
        BY <2>5, <3>2
      <4>3. \A i \in DOMAIN l : ItemVerdict(l[i]) = "pass"
        BY <1>1, <2>3, <4>1
      <4> QED
        BY <4>2, <4>3
    <3> QED
      BY <3>1, <3>2
  <2>9. Bool(FALSE) \in Held(v) => Held(v) # {Bool(TRUE)}
    BY Kinds
  <2> HIDE DEF found
  <2> QED
    BY <2>4, <2>6, <2>7, <2>8, <2>9
<1> QED
  BY <1>2, <1>3 DEF Truths

-----------------------------------------------------------------------------
(* More is known.                                                          *)

Below(v, w) ==
    \/ v = w
    \/ v = Unknown /\ w.k # "list"
    \/ /\ v.k = "list" /\ w.k = "list" /\ DOMAIN v.l = DOMAIN w.l
       /\ \A i \in DOMAIN v.l : v.l[i] \in {Unknown, w.l[i]}

(* An outcome that is no longer unknown stands when more becomes known.    *)
LEMMA OutcomeStands ==
    ASSUME NEW v \in Truths, NEW w \in Truths, Below(v, w)
    PROVE  Outcome(v) \in {"unknown", Outcome(w)}
<1>1. CASE v = w
  BY <1>1, OutcomeTells
<1>2. CASE v = Unknown
  BY <1>2, Kinds DEF Outcome, ItemVerdict
<1>3. CASE /\ v.k = "list" /\ w.k = "list" /\ DOMAIN v.l = DOMAIN w.l
           /\ \A i \in DOMAIN v.l : v.l[i] \in {Unknown, w.l[i]}
  <2>1. Held(v) = {v.l[i] : i \in DOMAIN v.l} /\ Held(w) = {w.l[i] : i \in DOMAIN v.l}
    BY <1>3 DEF Held
  <2> DEFINE yes == Bool(TRUE)
             no == Bool(FALSE)
  <2>9. yes # Unknown /\ no # Unknown
    BY Kinds
  <2> HIDE DEF yes, no
  <2>8. \A i \in DOMAIN v.l : v.l[i] = Unknown \/ v.l[i] = w.l[i]
    BY <1>3
  <2>2. no \in Held(v) => no \in Held(w)
    BY <2>1, <2>8, <2>9
  <2>3. ASSUME Held(v) = {yes} PROVE Held(w) = {yes}
    <3>1. \A i \in DOMAIN v.l : w.l[i] = yes
      BY <2>1, <2>3, <2>8, <2>9
    <3>2. DOMAIN v.l # {}
      BY <2>1, <2>3
    <3> QED
      BY <2>1, <3>1, <3>2
  <2> QED
    BY <2>2, <2>3, OutcomeTells DEF yes, no
<1> QED
  BY <1>1, <1>2, <1>3 DEF Below

-----------------------------------------------------------------------------
(* Comparisons.                                                            *)

Orders == {"=", "<=", ">=", ">"}

(* One value against another, and values against values.                   *)
Agree(op, x, y) == IF Unknown \in {x, y} THEN Unknown ELSE Bool(Holds(op, x.n, y.n))

Compared(op, a, b) ==
    IF a.k = "list"
    THEN IF b.k = "list"
         THEN IF Len(a.l) = Len(b.l) THEN List([i \in DOMAIN a.l |-> Agree(op, a.l[i], b.l[i])]) ELSE Unknown
         ELSE List([i \in DOMAIN a.l |-> Agree(op, a.l[i], b)])
    ELSE IF b.k = "list" THEN List([i \in DOMAIN b.l |-> Agree(op, a, b.l[i])]) ELSE Agree(op, a, b)

LEMMA ListsHold ==
    ASSUME NEW S, NEW v \in Lists(S)
    PROVE  v.k = "list" /\ v.l \in Seq(S) /\ v = List(v.l) /\ \A i \in DOMAIN v.l : v.l[i] \in S
<1>1. PICK l \in Seq(S) : v = List(l)
  BY DEF Lists
<1>2. v.k = "list" /\ v.l = l
  BY <1>1, Kinds
<1>3. \A i \in DOMAIN l : l[i] \in S
  OBVIOUS
<1> QED
  BY <1>1, <1>2, <1>3

LEMMA Shapes ==
    ASSUME NEW v \in Cells
    PROVE  \/ v \in Cell /\ v.k # "list"
           \/ v \in Lists(Cell) /\ v.k = "list" /\ v.l \in Seq(Cell) /\ \A i \in DOMAIN v.l : v.l[i] \in Cell
<1>1. CASE v \in Cell
  BY <1>1, Kinds
<1>2. CASE v \in Lists(Cell)
  BY <1>2, ListsHold
<1> QED
  BY <1>1, <1>2 DEF Cells

LEMMA AgreeTells ==
    ASSUME NEW op \in Orders, NEW x \in Cell, NEW y \in Cell
    PROVE  /\ Agree(op, x, y) \in Truth
           /\ Agree(op, x, y) = Bool(TRUE) <=> Unknown \notin {x, y} /\ Holds(op, x.n, y.n)
           /\ Agree(op, x, y) = Bool(FALSE) <=> Unknown \notin {x, y} /\ ~Holds(op, x.n, y.n)
<1>1. CASE Unknown \in {x, y}
  BY <1>1, Kinds DEF Agree, Truth
<1>2. CASE Unknown \notin {x, y}
  <2>1. x.n \in Int /\ y.n \in Int
    BY <1>2, Kinds
  <2>2. Holds(op, x.n, y.n) \in BOOLEAN
    <3>1. CASE op = "="
      BY <3>1 DEF Holds
    <3>2. CASE op = "<="
      BY <2>1, <3>2 DEF Holds
    <3>3. CASE op = ">="
      BY <2>1, <3>3 DEF Holds
    <3>4. CASE op = ">"
      BY <2>1, <3>4 DEF Holds
    <3> QED
      BY <3>1, <3>2, <3>3, <3>4 DEF Orders
  <2>3. Agree(op, x, y) = Bool(Holds(op, x.n, y.n))
    BY <1>2 DEF Agree
  <2>4. CASE Holds(op, x.n, y.n) = TRUE
    BY <1>2, <2>3, <2>4, Kinds, Zenon DEF Truth
  <2>5. CASE Holds(op, x.n, y.n) = FALSE
    BY <1>2, <2>3, <2>5, Kinds, Zenon DEF Truth
  <2> QED
    BY <2>2, <2>4, <2>5
<1> QED
  BY <1>1, <1>2

LEMMA AgreeFails ==
    ASSUME NEW x \in Cell, NEW y \in Cell, Agree("<=", x, y) = Bool(FALSE)
    PROVE  x # Unknown /\ y # Unknown /\ ~(x.n <= y.n)
<1>1. x # Unknown /\ y # Unknown
  BY Kinds DEF Agree
<1>2. ASSUME x.n <= y.n PROVE FALSE
  <2>1. Holds("<=", x.n, y.n) = TRUE
    BY <1>2 DEF Holds
  <2>2. Agree("<=", x, y) = Bool(Holds("<=", x.n, y.n))
    BY <1>1 DEF Agree
  <2>3. Agree("<=", x, y) = Bool(TRUE)
    BY <2>1, <2>2, Zenon
  <2> QED
    BY <2>3, Kinds
<1> QED
  BY <1>1, <1>2

LEMMA OneCompared ==
    ASSUME NEW op \in Orders, NEW x \in Cell, NEW y \in Cell
    PROVE  (IF Unknown \in {x, y} THEN Unknown
            ELSE IF x.k = "num" /\ y.k = "num" THEN Bool(Holds(op, x.n, y.n))
            ELSE IF op = "=" THEN Bool(x = y) ELSE Unknown) = Agree(op, x, y)
BY Kinds DEF Agree

LEMMA CompareIs ==
    ASSUME NEW op \in Orders, NEW a \in Cells, NEW b \in Cells
    PROVE  Compare(op, a, b) = Compared(op, a, b)
<1>1. CASE a.k = "list" /\ b.k = "list"
  <2>1. a.l \in Seq(Cell) /\ b.l \in Seq(Cell)
    BY <1>1, Shapes
  <2>2. CASE Len(a.l) = Len(b.l)
    <3>1. \A i \in DOMAIN a.l : a.l[i] \in Cell /\ b.l[i] \in Cell
      BY <2>1, <2>2
    <3>2. [i \in DOMAIN a.l |->
              IF Unknown \in {a.l[i], b.l[i]} THEN Unknown
              ELSE IF a.l[i].k = "num" /\ b.l[i].k = "num" THEN Bool(Holds(op, a.l[i].n, b.l[i].n))
              ELSE IF op = "=" THEN Bool(a.l[i] = b.l[i]) ELSE Unknown]
          = [i \in DOMAIN a.l |-> Agree(op, a.l[i], b.l[i])]
      BY <3>1, OneCompared
    <3> QED
      BY <1>1, <2>2, <3>2 DEF Compare, Broadcast2, Compared
  <2>3. CASE Len(a.l) # Len(b.l)
    BY <1>1, <2>3 DEF Compare, Broadcast2, Compared
  <2> QED
    BY <2>2, <2>3
<1>2. CASE a.k # "list" /\ b.k = "list"
  <2>1. a \in Cell /\ \A i \in DOMAIN b.l : b.l[i] \in Cell
    BY <1>2, Shapes
  <2>2. [i \in DOMAIN b.l |->
            IF Unknown \in {a, b.l[i]} THEN Unknown
            ELSE IF a.k = "num" /\ b.l[i].k = "num" THEN Bool(Holds(op, a.n, b.l[i].n))
            ELSE IF op = "=" THEN Bool(a = b.l[i]) ELSE Unknown]
        = [i \in DOMAIN b.l |-> Agree(op, a, b.l[i])]
    BY <2>1, OneCompared
  <2> QED
    BY <1>2, <2>2 DEF Compare, Broadcast2, Each, Compared
<1>3. CASE a.k = "list" /\ b.k # "list"
  <2>1. b \in Cell /\ \A i \in DOMAIN a.l : a.l[i] \in Cell
    BY <1>3, Shapes
  <2>2. [i \in DOMAIN a.l |->
            IF Unknown \in {a.l[i], b} THEN Unknown
            ELSE IF a.l[i].k = "num" /\ b.k = "num" THEN Bool(Holds(op, a.l[i].n, b.n))
            ELSE IF op = "=" THEN Bool(a.l[i] = b) ELSE Unknown]
        = [i \in DOMAIN a.l |-> Agree(op, a.l[i], b)]
    BY <2>1, OneCompared
  <2> QED
    BY <1>3, <2>2 DEF Compare, Broadcast2, Each, Compared
<1>4. CASE a.k # "list" /\ b.k # "list"
  <2>1. a \in Cell /\ b \in Cell
    BY <1>4, Shapes
  <2> QED
    BY <1>4, <2>1, OneCompared DEF Compare, Broadcast2, Each, Compared
<1> QED
  BY <1>1, <1>2, <1>3, <1>4

(* The values that meet in a comparison.                                   *)
Clash(a, b) == a.k = "list" /\ b.k = "list" /\ Len(a.l) # Len(b.l)

Met(a, b) ==
    IF a.k = "list"
    THEN IF b.k = "list" THEN {<<a.l[i], b.l[i]>> : i \in DOMAIN a.l} ELSE {<<a.l[i], b>> : i \in DOMAIN a.l}
    ELSE IF b.k = "list" THEN {<<a, b.l[i]>> : i \in DOMAIN b.l} ELSE {<<a, b>>}

LEMMA ListOf ==
    ASSUME NEW S, NEW T, NEW l \in Seq(T), NEW f, \A i \in DOMAIN l : f[i] \in S
    PROVE  List([i \in DOMAIN l |-> f[i]]) \in Lists(S)
<1>1. [i \in 1..Len(l) |-> f[i]] \in Seq(S)
  OBVIOUS
<1>2. DOMAIN l = 1..Len(l)
  OBVIOUS
<1> QED
  BY <1>1, <1>2 DEF Lists

LEMMA ComparedTells ==
    ASSUME NEW op \in Orders, NEW a \in Cells, NEW b \in Cells
    PROVE  /\ Compared(op, a, b) \in Truths
           /\ Clash(a, b) => Compared(op, a, b) = Unknown
           /\ ~Clash(a, b) => Held(Compared(op, a, b)) = {Agree(op, p[1], p[2]) : p \in Met(a, b)}
<1>1. CASE a.k = "list" /\ b.k = "list"
  <2>1. a.l \in Seq(Cell) /\ b.l \in Seq(Cell)
    BY <1>1, Shapes
  <2>2. CASE Len(a.l) = Len(b.l)
    <3> DEFINE f == [i \in DOMAIN a.l |-> Agree(op, a.l[i], b.l[i])]
    <3>1. \A i \in DOMAIN a.l : a.l[i] \in Cell /\ b.l[i] \in Cell
      BY <2>1, <2>2
    <3>2. \A i \in DOMAIN a.l : f[i] \in Truth
      BY <3>1, AgreeTells
    <3>3. Compared(op, a, b) = List(f)
      BY <1>1, <2>2 DEF Compared
    <3>4. f = [i \in DOMAIN a.l |-> f[i]]
      OBVIOUS
    <3>5. List(f) \in Lists(Truth)
      <4> HIDE DEF f
      <4>1. List([i \in DOMAIN a.l |-> f[i]]) \in Lists(Truth)
        BY <2>1, <3>2, ListOf
      <4> QED
        BY <3>4, <4>1
    <3>6. Held(List(f)) = {f[i] : i \in DOMAIN a.l}
      BY Kinds DEF Held
    <3>7. Held(List(f)) = {Agree(op, a.l[i], b.l[i]) : i \in DOMAIN a.l}
      BY <3>6
    <3>8. {Agree(op, p[1], p[2]) : p \in Met(a, b)} = {Agree(op, a.l[i], b.l[i]) : i \in DOMAIN a.l}
      <4>1. \A p \in Met(a, b) : \E i \in DOMAIN a.l : p[1] = a.l[i] /\ p[2] = b.l[i]
        BY <1>1 DEF Met
      <4>2. ASSUME NEW i \in DOMAIN a.l PROVE \E p \in Met(a, b) : p[1] = a.l[i] /\ p[2] = b.l[i]
        <5>1. <<a.l[i], b.l[i]>> \in Met(a, b)
          BY <1>1 DEF Met
        <5> QED
          BY <5>1
      <4> QED
        BY <4>1, <4>2
    <3> HIDE DEF f
    <3> QED
      BY <2>2, <3>3, <3>5, <3>7, <3>8 DEF Clash, Truths
  <2>3. CASE Len(a.l) # Len(b.l)
    BY <1>1, <2>3 DEF Compared, Clash, Truths, Truth
  <2> QED
    BY <2>2, <2>3
<1>2. CASE a.k # "list" /\ b.k = "list"
  <2>1. a \in Cell /\ b.l \in Seq(Cell) /\ \A i \in DOMAIN b.l : b.l[i] \in Cell
    BY <1>2, Shapes
  <2> DEFINE f == [i \in DOMAIN b.l |-> Agree(op, a, b.l[i])]
  <2>2. \A i \in DOMAIN b.l : f[i] \in Truth
    BY <2>1, AgreeTells
  <2>3. Compared(op, a, b) = List(f)
    BY <1>2 DEF Compared
  <2>4. f = [i \in DOMAIN b.l |-> f[i]]
    OBVIOUS
  <2>5. List(f) \in Lists(Truth)
    <3> HIDE DEF f
    <3>1. List([i \in DOMAIN b.l |-> f[i]]) \in Lists(Truth)
      BY <2>1, <2>2, ListOf
    <3> QED
      BY <2>4, <3>1
  <2>6. Held(List(f)) = {f[i] : i \in DOMAIN b.l}
    BY Kinds DEF Held
  <2>7. Held(List(f)) = {Agree(op, a, b.l[i]) : i \in DOMAIN b.l}
    BY <2>6
  <2>8. {Agree(op, p[1], p[2]) : p \in Met(a, b)} = {Agree(op, a, b.l[i]) : i \in DOMAIN b.l}
    <3>1. \A p \in Met(a, b) : \E i \in DOMAIN b.l : p[1] = a /\ p[2] = b.l[i]
      BY <1>2 DEF Met
    <3>2. ASSUME NEW i \in DOMAIN b.l PROVE \E p \in Met(a, b) : p[1] = a /\ p[2] = b.l[i]
      <4>1. <<a, b.l[i]>> \in Met(a, b)
        BY <1>2 DEF Met
      <4> QED
        BY <4>1
    <3> QED
      BY <3>1, <3>2
  <2> HIDE DEF f
  <2> QED
    BY <1>2, <2>3, <2>5, <2>7, <2>8 DEF Clash, Truths
<1>3. CASE a.k = "list" /\ b.k # "list"
  <2>1. b \in Cell /\ a.l \in Seq(Cell) /\ \A i \in DOMAIN a.l : a.l[i] \in Cell
    BY <1>3, Shapes
  <2> DEFINE f == [i \in DOMAIN a.l |-> Agree(op, a.l[i], b)]
  <2>2. \A i \in DOMAIN a.l : f[i] \in Truth
    BY <2>1, AgreeTells
  <2>3. Compared(op, a, b) = List(f)
    BY <1>3 DEF Compared
  <2>4. f = [i \in DOMAIN a.l |-> f[i]]
    OBVIOUS
  <2>5. List(f) \in Lists(Truth)
    <3> HIDE DEF f
    <3>1. List([i \in DOMAIN a.l |-> f[i]]) \in Lists(Truth)
      BY <2>1, <2>2, ListOf
    <3> QED
      BY <2>4, <3>1
  <2>6. Held(List(f)) = {f[i] : i \in DOMAIN a.l}
    BY Kinds DEF Held
  <2>7. Held(List(f)) = {Agree(op, a.l[i], b) : i \in DOMAIN a.l}
    BY <2>6
  <2>8. {Agree(op, p[1], p[2]) : p \in Met(a, b)} = {Agree(op, a.l[i], b) : i \in DOMAIN a.l}
    <3>1. \A p \in Met(a, b) : \E i \in DOMAIN a.l : p[1] = a.l[i] /\ p[2] = b
      BY <1>3 DEF Met
    <3>2. ASSUME NEW i \in DOMAIN a.l PROVE \E p \in Met(a, b) : p[1] = a.l[i] /\ p[2] = b
      <4>1. <<a.l[i], b>> \in Met(a, b)
        BY <1>3 DEF Met
      <4> QED
        BY <4>1
    <3> QED
      BY <3>1, <3>2
  <2> HIDE DEF f
  <2> QED
    BY <1>3, <2>3, <2>5, <2>7, <2>8 DEF Clash, Truths
<1>4. CASE a.k # "list" /\ b.k # "list"
  <2>1. a \in Cell /\ b \in Cell
    BY <1>4, Shapes
  <2>2. Agree(op, a, b) \in Truth
    BY <2>1, AgreeTells
  <2>3. Agree(op, a, b).k # "list"
    BY <2>2, Kinds
  <2> QED
    BY <1>4, <2>2, <2>3 DEF Compared, Clash, Truths, Met, Held
<1> QED
  BY <1>1, <1>2, <1>3, <1>4

LEMMA CompareTells ==
    ASSUME NEW op \in Orders, NEW a \in Cells, NEW b \in Cells
    PROVE  /\ Compare(op, a, b) \in Truths
           /\ Outcome(Compare(op, a, b)) = "pass" <=>
                 ~Clash(a, b) /\ Met(a, b) # {} /\ \A p \in Met(a, b) : Agree(op, p[1], p[2]) = Bool(TRUE)
           /\ Outcome(Compare(op, a, b)) = "fail" <=>
                 ~Clash(a, b) /\ \E p \in Met(a, b) : Agree(op, p[1], p[2]) = Bool(FALSE)
<1> DEFINE v == Compare(op, a, b)
           yes == Bool(TRUE)
           no == Bool(FALSE)
<1>1. v = Compared(op, a, b)
  BY CompareIs
<1>2. /\ v \in Truths
      /\ Clash(a, b) => v = Unknown
      /\ ~Clash(a, b) => Held(v) = {Agree(op, p[1], p[2]) : p \in Met(a, b)}
  BY <1>1, ComparedTells
<1>3. Outcome(v) = "pass" <=> Held(v) = {yes}
  BY <1>2, OutcomeTells
<1>4. Outcome(v) = "fail" <=> no \in Held(v)
  BY <1>2, OutcomeTells
<1>5. CASE Clash(a, b)
  BY <1>2, <1>5, Kinds DEF Outcome, ItemVerdict
<1>6. CASE ~Clash(a, b)
  <2> HIDE DEF v, yes, no
  <2> DEFINE P == Met(a, b)
             item(p) == Agree(op, p[1], p[2])
  <2>1. Held(v) = {item(p) : p \in P}
    BY <1>2, <1>6
  <2> HIDE DEF item, P
  <2>2. Held(v) = {yes} <=> P # {} /\ \A p \in P : item(p) = yes
    BY <2>1
  <2>3. no \in Held(v) <=> \E p \in P : item(p) = no
    BY <2>1
  <2> QED
    BY <1>2, <1>3, <1>4, <1>6, <2>2, <2>3 DEF v, yes, no, item, P
<1> QED
  BY <1>5, <1>6

LEMMA AgreeBelow ==
    ASSUME NEW op, NEW x, NEW y, NEW u, NEW w, x \in {Unknown, u}, y \in {Unknown, w}
    PROVE  Agree(op, x, y) \in {Unknown, Agree(op, u, w)}
BY DEF Agree

(* Who knows more compares no other way.                                   *)
LEMMA CompareBelow ==
    ASSUME NEW op \in Orders, NEW a \in Cells, NEW b \in Cells, NEW c \in Cells, NEW d \in Cells,
           Below(a, c), Below(b, d)
    PROVE  Below(Compare(op, a, b), Compare(op, c, d))
<1>1. Compare(op, a, b) = Compared(op, a, b) /\ Compare(op, c, d) = Compared(op, c, d)
  BY CompareIs
<1>2. /\ a.k = "list" <=> c.k = "list"
      /\ b.k = "list" <=> d.k = "list"
  BY Kinds DEF Below
<1>3. /\ a.k = "list" => DOMAIN a.l = DOMAIN c.l /\ Len(a.l) = Len(c.l) /\ \A i \in DOMAIN a.l : a.l[i] \in {Unknown, c.l[i]}
      /\ b.k = "list" => DOMAIN b.l = DOMAIN d.l /\ Len(b.l) = Len(d.l) /\ \A i \in DOMAIN b.l : b.l[i] \in {Unknown, d.l[i]}
  <2>1. ASSUME NEW v \in Cells, NEW w \in Cells, Below(v, w), v.k = "list"
        PROVE  DOMAIN v.l = DOMAIN w.l /\ Len(v.l) = Len(w.l) /\ \A i \in DOMAIN v.l : v.l[i] \in {Unknown, w.l[i]}
    <3>1. DOMAIN v.l = DOMAIN w.l /\ \A i \in DOMAIN v.l : v.l[i] \in {Unknown, w.l[i]}
      BY <2>1, Kinds DEF Below
    <3>2. w.k = "list"
      BY <2>1, Kinds DEF Below
    <3>3. v.l \in Seq(Cell) /\ w.l \in Seq(Cell)
      BY <2>1, <3>2, Shapes
    <3>4. Len(v.l) = Len(w.l)
      BY <3>1, <3>3
    <3> QED
      BY <3>1, <3>4
  <2> QED
    BY <2>1
<1>4. a.k # "list" => a \in {Unknown, c}
  BY DEF Below
<1>5. b.k # "list" => b \in {Unknown, d}
  BY DEF Below
<1>6. CASE a.k = "list" /\ b.k = "list"
  <2>1. CASE Len(a.l) = Len(b.l)
    <3>1. a.l \in Seq(Cell) /\ b.l \in Seq(Cell)
      BY <1>6, Shapes
    <3>2. DOMAIN a.l = DOMAIN b.l
      BY <2>1, <3>1
    <3>3. \A i \in DOMAIN a.l : Agree(op, a.l[i], b.l[i]) \in {Unknown, Agree(op, c.l[i], d.l[i])}
      BY <1>3, <1>6, <3>2, AgreeBelow
    <3> DEFINE f == [i \in DOMAIN a.l |-> Agree(op, a.l[i], b.l[i])]
               g == [i \in DOMAIN c.l |-> Agree(op, c.l[i], d.l[i])]
    <3>4. Compared(op, a, b) = List(f) /\ Compared(op, c, d) = List(g)
      BY <1>2, <1>3, <1>6, <2>1 DEF Compared
    <3>5. DOMAIN f = DOMAIN g /\ \A i \in DOMAIN f : f[i] \in {Unknown, g[i]}
      BY <1>3, <1>6, <3>3
    <3> HIDE DEF f, g
    <3> QED
      BY <1>1, <3>4, <3>5, Kinds DEF Below
  <2>2. CASE Len(a.l) # Len(b.l)
    BY <1>1, <1>2, <1>3, <1>6, <2>2 DEF Compared, Below
  <2> QED
    BY <2>1, <2>2
<1>7. CASE a.k = "list" /\ b.k # "list"
  <2>1. \A i \in DOMAIN a.l : Agree(op, a.l[i], b) \in {Unknown, Agree(op, c.l[i], d)}
    BY <1>3, <1>5, <1>7, AgreeBelow
  <2> DEFINE f == [i \in DOMAIN a.l |-> Agree(op, a.l[i], b)]
             g == [i \in DOMAIN c.l |-> Agree(op, c.l[i], d)]
  <2>2. Compared(op, a, b) = List(f) /\ Compared(op, c, d) = List(g)
    BY <1>2, <1>7 DEF Compared
  <2>3. DOMAIN f = DOMAIN g /\ \A i \in DOMAIN f : f[i] \in {Unknown, g[i]}
    BY <1>3, <1>7, <2>1
  <2> HIDE DEF f, g
  <2> QED
    BY <1>1, <2>2, <2>3, Kinds DEF Below
<1>8. CASE a.k # "list" /\ b.k = "list"
  <2>1. \A i \in DOMAIN b.l : Agree(op, a, b.l[i]) \in {Unknown, Agree(op, c, d.l[i])}
    BY <1>3, <1>4, <1>8, AgreeBelow
  <2> DEFINE f == [i \in DOMAIN b.l |-> Agree(op, a, b.l[i])]
             g == [i \in DOMAIN d.l |-> Agree(op, c, d.l[i])]
  <2>2. Compared(op, a, b) = List(f) /\ Compared(op, c, d) = List(g)
    BY <1>2, <1>8 DEF Compared
  <2>3. DOMAIN f = DOMAIN g /\ \A i \in DOMAIN f : f[i] \in {Unknown, g[i]}
    BY <1>3, <1>8, <2>1
  <2> HIDE DEF f, g
  <2> QED
    BY <1>1, <2>2, <2>3, Kinds DEF Below
<1>9. CASE a.k # "list" /\ b.k # "list"
  <2>1. c \in Cell /\ d \in Cell
    BY <1>2, <1>9, Shapes
  <2>2. Agree(op, c, d).k # "list"
    BY <2>1, AgreeTells, Kinds
  <2>3. Agree(op, a, b) \in {Unknown, Agree(op, c, d)}
    BY <1>4, <1>5, <1>9, AgreeBelow
  <2> QED
    BY <1>1, <1>2, <1>9, <2>2, <2>3 DEF Compared, Below
<1> QED
  BY <1>6, <1>7, <1>8, <1>9

-----------------------------------------------------------------------------
(* Sums, bounds and sentences.                                             *)

LEMMA ItemsAre ==
    ASSUME NEW v \in Cells
    PROVE  Items(v) \in Seq(Cell) /\ Held(v) = {Items(v)[i] : i \in DOMAIN Items(v)}
<1>1. CASE v \in Cell /\ v.k # "list"
  <2>1. Items(v) = <<v>> /\ Held(v) = {v}
    BY <1>1 DEF Items, Held
  <2>2. <<v>> \in Seq(Cell) /\ DOMAIN <<v>> = {1} /\ <<v>>[1] = v
    BY <1>1
  <2> QED
    BY <2>1, <2>2
<1>2. CASE v.k = "list" /\ v.l \in Seq(Cell)
  BY <1>2 DEF Items, Held
<1> QED
  BY <1>1, <1>2, Shapes

LEMMA SumTells ==
    ASSUME NEW v \in Cells
    PROVE  /\ Sum(v) \in Cell /\ Sum(v).k # "list"
           /\ Unknown \in Held(v) => Sum(v) = Unknown
           /\ Unknown \notin Held(v) => Items(v) \in Seq(NumCell) /\ Sum(v) = Num(Total(Items(v)))
<1> DEFINE s == Items(v)
<1>1. s \in Seq(Cell) /\ Held(v) = {s[i] : i \in DOMAIN s}
  BY ItemsAre
<1>2. \A i \in DOMAIN s : s[i] \in Cell
  BY <1>1
<1>3. (\E i \in DOMAIN s : s[i].k # "num") <=> Unknown \in Held(v)
  <2>1. \A i \in DOMAIN s : s[i].k # "num" <=> s[i] = Unknown
    BY <1>2, Kinds
  <2> QED
    BY <1>1, <2>1
<1>4. CASE Unknown \in Held(v)
  <2>1. Sum(v) = Unknown
    BY <1>3, <1>4 DEF Sum
  <2> QED
    BY <1>4, <2>1, Kinds DEF Cell
<1>5. CASE Unknown \notin Held(v)
  <2>1. \A i \in DOMAIN s : s[i] \in NumCell
    BY <1>1, <1>2, <1>5 DEF Cell
  <2>2. s \in Seq(NumCell)
    BY <1>1, <2>1
  <2>3. Sum(v) = Num(Total(s))
    BY <1>3, <1>5 DEF Sum
  <2>4. Total(s) \in Int
    BY <2>2, TotalType
  <2>5. Sum(v) \in NumCell
    BY <2>3, <2>4 DEF NumCell
  <2> QED
    BY <1>5, <2>2, <2>3, <2>5, Kinds DEF Cell
<1> QED
  BY <1>4, <1>5

LEMMA SumBelow ==
    ASSUME NEW v \in Cells, NEW w \in Cells, Below(v, w)
    PROVE  Below(Sum(v), Sum(w))
<1>1. CASE Unknown \in Held(v)
  BY <1>1, SumTells DEF Below
<1>2. CASE Unknown \notin Held(v)
  <2>1. CASE v = w
    BY <2>1 DEF Below
  <2>2. CASE v = Unknown
    BY <1>2, <2>2, Kinds DEF Held
  <2>3. CASE /\ v.k = "list" /\ w.k = "list" /\ DOMAIN v.l = DOMAIN w.l
             /\ \A i \in DOMAIN v.l : v.l[i] \in {Unknown, w.l[i]}
    <3>1. v \in Lists(Cell) /\ w \in Lists(Cell)
      BY <2>3, Shapes
    <3>2. v.l \in Seq(Cell) /\ w.l \in Seq(Cell) /\ v = List(v.l) /\ w = List(w.l)
      BY <3>1, ListsHold
    <3>3. \A i \in DOMAIN v.l : v.l[i] = w.l[i]
      BY <1>2, <2>3 DEF Held
    <3>4. v.l = w.l
      <4> DEFINE f == v.l
                 g == w.l
      <4>1. f \in Seq(Cell) /\ g \in Seq(Cell) /\ DOMAIN f = DOMAIN g /\ \A i \in DOMAIN f : f[i] = g[i]
        BY <2>3, <3>2, <3>3
      <4> HIDE DEF f, g
      <4>2. f = g
        BY <4>1
      <4> QED
        BY <4>2 DEF f, g
    <3> QED
      BY <3>2, <3>4 DEF Below
  <2> QED
    BY <2>1, <2>2, <2>3 DEF Below
<1> QED
  BY <1>1, <1>2

(* One value between a first and a second, which has to be one value.      *)
Inner(x, b) == IF x = Unknown \/ b = Unknown \/ b.k = "list" THEN Unknown ELSE Bool(x.n >= b.n /\ x.n <= 2)

LEMMA InnerTells ==
    ASSUME NEW x \in Cell, NEW b \in Cells
    PROVE  Inner(x, b) \in Truth
<1>1. CASE x = Unknown \/ b = Unknown \/ b.k = "list"
  BY <1>1 DEF Inner, Truth
<1>2. CASE ~(x = Unknown \/ b = Unknown \/ b.k = "list")
  <2>1. (x.n >= b.n /\ x.n <= 2) \in BOOLEAN
    OBVIOUS
  <2>2. Inner(x, b) = Bool(x.n >= b.n /\ x.n <= 2)
    BY <1>2 DEF Inner
  <2>3. Bool(x.n >= b.n /\ x.n <= 2) \in {Bool(TRUE), Bool(FALSE)}
    BY <2>1, Zenon
  <2> QED
    BY <2>2, <2>3 DEF Truth
<1> QED
  BY <1>1, <1>2

LEMMA OneBetween ==
    ASSUME NEW x \in Cell, NEW b \in Cells
    PROVE  (IF Unknown \in {x, Str("bounds")} THEN Unknown
            ELSE IF {Compare(">=", x, b).k, Compare("<=", x, Num(2)).k} # {"bool"} THEN Unknown
            ELSE Bool(Compare(">=", x, b).b /\ Compare("<=", x, Num(2)).b)) = Inner(x, b)
<1> DEFINE two == Num(2)
<1>1. two \in Cell /\ two \in Cells /\ two.k = "num" /\ two.n = 2 /\ two # Unknown /\ x \in Cells
  BY Kinds DEF NumCell, Cell, Cells
<1>2. Unknown # Str("bounds")
  BY DEF Unknown, Str
<1>3. CASE x = Unknown
  BY <1>3 DEF Inner
<1>4. CASE x # Unknown
  <2>1. x.k = "num" /\ x.n \in Int /\ x.k # "list"
    BY <1>4, Kinds
  <2>2. Compare("<=", x, two) = Compared("<=", x, two) /\ Compare(">=", x, b) = Compared(">=", x, b)
    BY <1>1, CompareIs DEF Orders
  <2> HIDE DEF two
  <2>3. Compare("<=", x, two) = Bool(x.n <= 2)
    BY <1>1, <1>4, <2>1, <2>2 DEF Compared, Agree, Holds
  <2>4. CASE b.k = "list"
    <3>1. Compare(">=", x, b).k = "list"
      BY <2>1, <2>2, <2>4, Kinds DEF Compared
    <3> QED
      BY <1>2, <1>4, <2>4, <3>1 DEF Inner
  <2>5. CASE b = Unknown
    <3>1. Compare(">=", x, b) = Unknown
      BY <2>1, <2>2, <2>5, Kinds DEF Compared, Agree
    <3> QED
      BY <1>2, <1>4, <2>5, <3>1, Kinds DEF Inner
  <2>6. CASE b.k # "list" /\ b # Unknown
    <3>1. Compare(">=", x, b) = Bool(x.n >= b.n)
      BY <1>4, <2>1, <2>2, <2>6 DEF Compared, Agree, Holds
    <3>2. Compare(">=", x, b).k = "bool" /\ Compare("<=", x, two).k = "bool"
      BY <2>3, <3>1, Kinds
    <3>3. Compare(">=", x, b).b = (x.n >= b.n) /\ Compare("<=", x, two).b = (x.n <= 2)
      BY <2>3, <3>1, Kinds
    <3>4. {Compare(">=", x, b).k, Compare("<=", x, two).k} = {"bool"}
      BY <3>2
    <3>5. Inner(x, b) = Bool(x.n >= b.n /\ x.n <= 2)
      BY <1>4, <2>6 DEF Inner
    <3> QED
      BY <1>2, <1>4, <3>3, <3>4, <3>5 DEF two
  <2> QED
    BY <2>4, <2>5, <2>6
<1> QED
  BY <1>3, <1>4

LEMMA BetweenIs ==
    ASSUME NEW a \in Cells, NEW b \in Cells
    PROVE  Between(a, b, Num(2)) = IF a.k = "list" THEN List([i \in DOMAIN a.l |-> Inner(a.l[i], b)]) ELSE Inner(a, b)
<1>1. Str("bounds").k # "list"
  BY DEF Str
<1>2. CASE a.k = "list"
  <2>1. \A i \in DOMAIN a.l : a.l[i] \in Cell
    BY <1>2, Shapes
  <2>2. [i \in DOMAIN a.l |->
            IF Unknown \in {a.l[i], Str("bounds")} THEN Unknown
            ELSE IF {Compare(">=", a.l[i], b).k, Compare("<=", a.l[i], Num(2)).k} # {"bool"} THEN Unknown
            ELSE Bool(Compare(">=", a.l[i], b).b /\ Compare("<=", a.l[i], Num(2)).b)]
        = [i \in DOMAIN a.l |-> Inner(a.l[i], b)]
    BY <2>1, OneBetween
  <2> QED
    BY <1>1, <1>2, <2>2 DEF Between, Broadcast2, Each
<1>3. CASE a.k # "list"
  <2>1. a \in Cell
    BY <1>3, Shapes
  <2> QED
    BY <1>1, <1>3, <2>1, OneBetween DEF Between, Broadcast2, Each
<1> QED
  BY <1>2, <1>3

LEMMA BetweenTells ==
    ASSUME NEW a \in Cells, NEW b \in Cells
    PROVE  Between(a, b, Num(2)) \in Truths
<1>1. CASE a.k = "list"
  <2>1. a.l \in Seq(Cell) /\ \A i \in DOMAIN a.l : a.l[i] \in Cell
    BY <1>1, Shapes
  <2> DEFINE f == [i \in DOMAIN a.l |-> Inner(a.l[i], b)]
  <2>2. \A i \in DOMAIN a.l : f[i] \in Truth
    BY <2>1, InnerTells
  <2>3. f = [i \in DOMAIN a.l |-> f[i]]
    OBVIOUS
  <2>4. Between(a, b, Num(2)) = List(f)
    BY <1>1, BetweenIs
  <2> HIDE DEF f
  <2>5. List([i \in DOMAIN a.l |-> f[i]]) \in Lists(Truth)
    BY <2>1, <2>2, ListOf
  <2> QED
    BY <2>3, <2>4, <2>5 DEF Truths
<1>2. CASE a.k # "list"
  <2>1. a \in Cell
    BY <1>2, Shapes
  <2> QED
    BY <1>2, <2>1, BetweenIs, InnerTells DEF Truths
<1> QED
  BY <1>1, <1>2

LEMMA BetweenBelow ==
    ASSUME NEW a \in Cells, NEW b \in Cells, NEW c \in Cells, NEW d \in Cells, Below(a, c), Below(b, d)
    PROVE  Below(Between(a, b, Num(2)), Between(c, d, Num(2)))
<1>1. \A x, y : x \in {Unknown, y} => Inner(x, b) \in {Unknown, Inner(y, d)}
  <2> SUFFICES ASSUME NEW x, NEW y, x \in {Unknown, y} PROVE Inner(x, b) \in {Unknown, Inner(y, d)}
    OBVIOUS
  <2>1. CASE x = Unknown \/ b = Unknown \/ b.k = "list"
    BY <2>1 DEF Inner
  <2>2. CASE ~(x = Unknown \/ b = Unknown \/ b.k = "list")
    <3>1. x = y /\ b = d
      BY <2>2 DEF Below
    <3> QED
      BY <3>1
  <2> QED
    BY <2>1, <2>2
<1>2. CASE a = c
  <2>1. CASE a.k = "list"
    <3> DEFINE f == [i \in DOMAIN a.l |-> Inner(a.l[i], b)]
               g == [i \in DOMAIN a.l |-> Inner(a.l[i], d)]
    <3>1. Between(a, b, Num(2)) = List(f) /\ Between(c, d, Num(2)) = List(g)
      BY <1>2, <2>1, BetweenIs
    <3>2. DOMAIN f = DOMAIN g /\ \A i \in DOMAIN f : f[i] \in {Unknown, g[i]}
      BY <1>1
    <3> HIDE DEF f, g
    <3> QED
      BY <3>1, <3>2, Kinds DEF Below
  <2>2. CASE a.k # "list"
    <3>1. c \in Cell
      BY <1>2, <2>2, Shapes
    <3>2. Inner(c, d).k # "list"
      BY <3>1, InnerTells, Kinds
    <3>3. Inner(a, b) \in {Unknown, Inner(c, d)}
      BY <1>1, <1>2
    <3>4. Between(a, b, Num(2)) = Inner(a, b) /\ Between(c, d, Num(2)) = Inner(c, d)
      BY <1>2, <2>2, BetweenIs
    <3> QED
      BY <3>2, <3>3, <3>4 DEF Below
  <2> QED
    BY <2>1, <2>2
<1>3. CASE a = Unknown /\ c.k # "list"
  <2>1. a.k # "list" /\ c \in Cell
    BY <1>3, Kinds, Shapes
  <2>2. Inner(c, d).k # "list"
    BY <2>1, InnerTells, Kinds
  <2>3. Inner(a, b) = Unknown
    BY <1>3 DEF Inner
  <2>4. Between(a, b, Num(2)) = Inner(a, b) /\ Between(c, d, Num(2)) = Inner(c, d)
    BY <1>3, <2>1, BetweenIs
  <2> QED
    BY <2>2, <2>3, <2>4 DEF Below
<1>4. CASE /\ a.k = "list" /\ c.k = "list" /\ DOMAIN a.l = DOMAIN c.l
           /\ \A i \in DOMAIN a.l : a.l[i] \in {Unknown, c.l[i]}
  <2> DEFINE f == [i \in DOMAIN a.l |-> Inner(a.l[i], b)]
             g == [i \in DOMAIN c.l |-> Inner(c.l[i], d)]
  <2>1. Between(a, b, Num(2)) = List(f) /\ Between(c, d, Num(2)) = List(g)
    BY <1>4, BetweenIs
  <2>2. DOMAIN f = DOMAIN g /\ \A i \in DOMAIN f : f[i] \in {Unknown, g[i]}
    BY <1>1, <1>4
  <2> HIDE DEF f, g
  <2> QED
    BY <2>1, <2>2, Kinds DEF Below
<1> QED
  BY <1>2, <1>3, <1>4 DEF Below

LEMMA AndTells ==
    ASSUME NEW x \in Truth, NEW y \in Truth
    PROVE  /\ Logic("and", x, y) \in Truth
           /\ Logic("and", x, y) = IF Bool(FALSE) \in {x, y} THEN Bool(FALSE)
                                   ELSE IF {x, y} = {Bool(TRUE)} THEN Bool(TRUE) ELSE Unknown
<1>1. \A c \in Truth : c \in Truths /\ Held(c) = {c}
  BY Kinds DEF Truths, Held
<1>2. \A c \in Truth : /\ Outcome(c) \in {"pass", "fail", "unknown"}
                       /\ Outcome(c) = "pass" <=> c = Bool(TRUE)
                       /\ Outcome(c) = "fail" <=> c = Bool(FALSE)
  <2> SUFFICES ASSUME NEW c \in Truth
               PROVE  /\ Outcome(c) \in {"pass", "fail", "unknown"}
                      /\ Outcome(c) = "pass" <=> c = Bool(TRUE)
                      /\ Outcome(c) = "fail" <=> c = Bool(FALSE)
    OBVIOUS
  <2>1. c \in Truths /\ Held(c) = {c}
    BY <1>1
  <2> QED
    BY <2>1, OutcomeTells
<1> DEFINE no == Bool(FALSE)
           yes == Bool(TRUE)
           both == {Outcome(x), Outcome(y)}
<1>3. Logic("and", x, y) = IF "fail" \in both THEN Bool("and" = "or") ELSE IF both \subseteq {"pass", "fail"} THEN Bool("and" = "and") ELSE Unknown
  BY DEF Logic
<1>4. Bool("and" = "or") = no /\ Bool("and" = "and") = yes
  <2>1. ("and" = "or") = FALSE /\ ("and" = "and") = TRUE
    OBVIOUS
  <2> QED
    BY <2>1, Zenon
<1>5. "fail" \in both <=> no \in {x, y}
  BY <1>2
<1>6. both \subseteq {"pass", "fail"} /\ no \notin {x, y} <=> {x, y} = {yes}
  <2> SUFFICES (both \subseteq {"pass", "fail"} /\ no \notin {x, y}) <=> (x = yes /\ y = yes)
    OBVIOUS
  <2>1. no # yes
    BY Kinds
  <2> QED
    BY <1>2, <2>1
<1>7. no \in Truth /\ yes \in Truth /\ Unknown \in Truth
  BY DEF Truth
<1> HIDE DEF no, yes, both
<1>8. Logic("and", x, y) = IF no \in {x, y} THEN no ELSE IF {x, y} = {yes} THEN yes ELSE Unknown
  BY <1>3, <1>4, <1>5, <1>6
<1> QED
  BY <1>7, <1>8 DEF no, yes

-----------------------------------------------------------------------------
(* The documents of a group.                                               *)

(* The rules compare amounts, dates and counts, not texts.                 *)
Measured == Ops \cap TextOps = {}

Rules == [op : Ops, a : Type, b : Type]
Groups == {docs \in [Type -> Seq(Number \cup {Missing})] : Len(docs[Anchor]) = 1}

FieldOf(x) == IF x = Missing THEN Unknown ELSE Num(x)

MemberOf(docs, t) ==
    IF t = Anchor THEN FieldOf(docs[t][1]) ELSE List([i \in DOMAIN docs[t] |-> FieldOf(docs[t][i])])

CountsOf(docs) == [t \in Other |-> Count(Documents(docs, t))]

FormulaOf(r, docs) ==
    LET a == MemberOf(docs, r.a)
        b == MemberOf(docs, r.b)
    IN  CASE r.op \in {"eq", "same_day"} -> Compare("=", a, b)
          [] r.op \in {"le", "before"} -> Compare("<=", a, b)
          [] r.op \in {"ge", "after"} -> Compare(">=", a, b)
          [] r.op = "sum_le" -> Compare("<=", Sum(a), IF r.b = Anchor THEN b ELSE Sum(b))
          [] r.op = "within" -> Between(a, b, Num(2))
          [] r.op = "chain" -> Logic("and", Compare("<=", Sum(a), Sum(b)), Compare("<=", Sum(b), Sum(a)))
          [] r.op = "delivered" -> If(Compare("=", b, Num(1)), Compare(">", SumOf(CountsOf(docs)), Num(0)))

EvalOf(r, docs) == Outcome(FormulaOf(r, docs))

LEMMA OpsAre ==
    ASSUME Measured, NEW r \in Rules
    PROVE  /\ r.op \in {"eq", "same_day", "le", "before", "ge", "after", "sum_le", "within", "chain", "delivered"}
           /\ r.op \notin TextOps /\ r.op \in Ops /\ r.a \in Type /\ r.b \in Type
BY CheckExprAssumption DEF Measured, Rules, FieldOps, TextOps, Sentences

LEMMA EvalIs ==
    ASSUME Measured, rule \in Rules, NEW docs
    PROVE  Eval(docs) = EvalOf(rule, docs)
<1>1. /\ rule.op \in {"eq", "same_day", "le", "before", "ge", "after", "sum_le", "within", "chain", "delivered"}
      /\ rule.op \notin TextOps
  BY OpsAre
<1>2. \A x : Field(x) = FieldOf(x)
  BY <1>1 DEF Field, FieldOf
<1>3. \A t : Member(docs, t) = MemberOf(docs, t)
  BY <1>2 DEF Member, MemberOf
<1> DEFINE a == MemberOf(docs, rule.a)
           b == MemberOf(docs, rule.b)
<1>4. Member(docs, rule.a) = a /\ Member(docs, rule.b) = b
  BY <1>3
<1> HIDE DEF a, b
<1>5. Formula(docs) = FormulaOf(rule, docs)
  BY <1>1, <1>4 DEF Formula, FormulaOf, TextOps, CountsOf, a, b
<1> QED
  BY <1>5 DEF Eval, EvalOf

LEMMA EvalNextIs ==
    ASSUME Measured, rule' \in Rules
    PROVE  Eval(vals)' = EvalOf(rule', vals')
<1>1. /\ rule'.op \in {"eq", "same_day", "le", "before", "ge", "after", "sum_le", "within", "chain", "delivered"}
      /\ rule'.op \notin TextOps
  BY OpsAre
<1>2. \A x : Field(x)' = FieldOf(x)
  BY <1>1 DEF Field, FieldOf
<1>3. \A t : Member(vals, t)' = MemberOf(vals', t)
  BY <1>1 DEF Member, MemberOf, Field, FieldOf
<1> DEFINE a == MemberOf(vals', rule'.a)
           b == MemberOf(vals', rule'.b)
<1>4. Member(vals, rule.a)' = a /\ Member(vals, rule.b)' = b
  BY <1>1 DEF Member, MemberOf, Field, FieldOf
<1> HIDE DEF a, b
<1>5. Formula(vals)' = FormulaOf(rule', vals')
  BY <1>1, <1>4 DEF Formula, FormulaOf, TextOps, CountsOf, Documents, a, b
<1> QED
  BY <1>5 DEF Eval, EvalOf

LEMMA FieldTells ==
    ASSUME NEW x \in Number \cup {Missing}
    PROVE  FieldOf(x) \in Cell /\ FieldOf(x).k # "list" /\ (FieldOf(x) = Unknown <=> x = Missing) /\ (x # Missing => FieldOf(x).n = x)
<1>1. x # Missing => x \in Int
  BY CheckExprAssumption
<1> QED
  BY <1>1, Kinds DEF FieldOf, Cell, NumCell

LEMMA MemberTells ==
    ASSUME NEW docs \in Groups, NEW t \in Type
    PROVE  /\ MemberOf(docs, t) \in Cells
           /\ t = Anchor => MemberOf(docs, t).k # "list" /\ MemberOf(docs, t) = FieldOf(docs[t][1]) /\ 1 \in DOMAIN docs[t]
           /\ t # Anchor => /\ MemberOf(docs, t).k = "list" /\ MemberOf(docs, t).l \in Seq(Cell)
                            /\ MemberOf(docs, t).l = [i \in DOMAIN docs[t] |-> FieldOf(docs[t][i])]
           /\ Unknown \in Held(MemberOf(docs, t)) <=> Missing \in ToSet(docs[t])
<1>1. docs[t] \in Seq(Number \cup {Missing}) /\ \A i \in DOMAIN docs[t] : docs[t][i] \in Number \cup {Missing}
  BY DEF Groups
<1>2. CASE t = Anchor
  <2>1. Len(docs[t]) = 1
    BY <1>2 DEF Groups
  <2>2. DOMAIN docs[t] = {1}
    BY <1>1, <2>1
  <2>3. FieldOf(docs[t][1]) \in Cell /\ FieldOf(docs[t][1]).k # "list" /\ (FieldOf(docs[t][1]) = Unknown <=> docs[t][1] = Missing)
    BY <1>1, <2>2, FieldTells
  <2>4. MemberOf(docs, t) = FieldOf(docs[t][1])
    BY <1>2 DEF MemberOf
  <2>5. ToSet(docs[t]) = {docs[t][1]} /\ Held(MemberOf(docs, t)) = {MemberOf(docs, t)}
    BY <2>2, <2>3, <2>4 DEF ToSet, Held
  <2> QED
    BY <1>2, <2>2, <2>3, <2>4, <2>5 DEF Cells
<1>3. CASE t # Anchor
  <2> DEFINE f == [i \in DOMAIN docs[t] |-> FieldOf(docs[t][i])]
  <2>1. MemberOf(docs, t) = List(f)
    BY <1>3 DEF MemberOf
  <2>2. \A i \in DOMAIN docs[t] : f[i] \in Cell /\ (f[i] = Unknown <=> docs[t][i] = Missing)
    BY <1>1, FieldTells
  <2>3. DOMAIN f = DOMAIN docs[t]
    OBVIOUS
  <2>4. f \in Seq(Cell)
    <3> DEFINE s == docs[t]
    <3>1. s \in Seq(Number \cup {Missing}) /\ f = [i \in DOMAIN s |-> f[i]] /\ \A i \in DOMAIN s : f[i] \in Cell
      BY <1>1, <2>2
    <3>2. DOMAIN s = 1..Len(s) /\ Len(s) \in Nat
      BY <3>1
    <3> HIDE DEF f, s
    <3>3. [i \in 1..Len(s) |-> f[i]] \in Seq(Cell)
      BY <3>1, <3>2
    <3> QED
      BY <3>1, <3>2, <3>3
  <2> HIDE DEF f
  <2>5. List(f) \in Lists(Cell) /\ List(f).k = "list" /\ List(f).l = f
    BY <2>4, Kinds DEF Lists
  <2>6. Held(List(f)) = {f[i] : i \in DOMAIN docs[t]}
    BY <2>3, <2>5 DEF Held
  <2>7. Unknown \in Held(List(f)) <=> Missing \in ToSet(docs[t])
    BY <2>2, <2>6 DEF ToSet
  <2> QED
    BY <1>3, <2>1, <2>4, <2>5, <2>7 DEF Cells, f
<1> QED
  BY <1>2, <1>3

LEMMA CountsAgree ==
    ASSUME NEW docs \in Groups, NEW more \in Groups, \A t \in Other : DOMAIN more[t] = DOMAIN docs[t]
    PROVE  CountsOf(docs) = CountsOf(more)
<1>1. \A t \in Other : Documents(docs, t) = Documents(more, t)
  BY DEF Documents
<1> QED
  BY <1>1 DEF CountsOf

-----------------------------------------------------------------------------
(* The group stays one of a contract and its documents.                    *)

GroupInv ==
    /\ rule \in Rules
    /\ vals \in [Type -> Seq(Value(rule.op))]
    /\ Len(vals[Anchor]) = 1
    /\ \A t \in Other : Len(vals[t]) <= MaxDocs

LEMMA NoneAndOne ==
    ASSUME NEW S, NEW x \in S
    PROVE  <<>> \in Seq(S) /\ Len(<<>>) = 0 /\ <<x>> \in Seq(S) /\ Len(<<x>>) = 1
BY EmptySeq

LEMMA GroupStarts == GroupInit => GroupInv
<1> SUFFICES ASSUME GroupInit PROVE GroupInv
  OBVIOUS
<1>1. rule \in Rules
  BY DEF GroupInit, Rules
<1>2. PICK x \in Value(rule.op) : vals = [[t \in Type |-> <<>>] EXCEPT ![Anchor] = <<x>>]
  BY DEF GroupInit
<1>3. PICK none \in Seq(Value(rule.op)) : none = <<>> /\ Len(none) = 0
  BY NoneAndOne
<1>4. PICK one \in Seq(Value(rule.op)) : one = <<x>> /\ Len(one) = 1
  BY NoneAndOne
<1>5. vals = [t \in Type |-> IF t = Anchor THEN one ELSE none]
  BY <1>2, <1>3, <1>4
<1>6. MaxDocs \in Nat /\ Anchor \in Type /\ Anchor \notin Other /\ Other \subseteq Type
  BY CheckExprAssumption DEF Type
<1>7. vals[Anchor] = one /\ \A t \in Other : vals[t] = none
  BY <1>5, <1>6
<1>8. vals \in [Type -> Seq(Value(rule.op))]
  BY <1>3, <1>4, <1>5
<1>9. Len(vals[Anchor]) = 1 /\ \A t \in Other : Len(vals[t]) <= MaxDocs
  BY <1>3, <1>4, <1>6, <1>7
<1> QED
  BY <1>1, <1>8, <1>9 DEF GroupInv

LEMMA Shorter ==
    ASSUME NEW S, NEW s \in Seq(S), NEW i \in DOMAIN s
    PROVE  RemoveAt(s, i) \in Seq(S) /\ Len(RemoveAt(s, i)) = Len(s) - 1
<1>1. i \in 1..Len(s) /\ Len(s) \in Nat
  OBVIOUS
<1>2. SubSeq(s, 1, i - 1) \in Seq(S) /\ Len(SubSeq(s, 1, i - 1)) = i - 1
  BY <1>1
<1>3. SubSeq(s, i + 1, Len(s)) \in Seq(S) /\ Len(SubSeq(s, i + 1, Len(s))) = Len(s) - i
  BY <1>1
<1> DEFINE front == SubSeq(s, 1, i - 1)
           back == SubSeq(s, i + 1, Len(s))
<1>4. RemoveAt(s, i) = front \o back
  BY DEF RemoveAt
<1> HIDE DEF front, back
<1>5. front \o back \in Seq(S) /\ Len(front \o back) = Len(front) + Len(back)
  BY <1>2, <1>3 DEF front, back
<1>6. Len(front) = i - 1 /\ Len(back) = Len(s) - i
  BY <1>2, <1>3 DEF front, back
<1> QED
  BY <1>1, <1>4, <1>5, <1>6

(* A step changes the values of one type: by one more, by one less, or in  *)
(* one place.                                                              *)
Joined(t, s) == \E x \in Value(rule.op) : t \in Other /\ Len(vals[t]) < MaxDocs /\ s = Append(vals[t], x)
Corrected(t, s) == \E x \in Value(rule.op), i \in DOMAIN vals[t] : s = [vals[t] EXCEPT ![i] = x]
Dropped(t, s) == \E i \in DOMAIN vals[t] : t \in Other /\ s = RemoveAt(vals[t], i)

LEMMA GroupSteps ==
    ASSUME GroupInv, GroupNext
    PROVE  rule' = rule /\ \E t \in Type : \E s : vals' = [vals EXCEPT ![t] = s] /\ (Joined(t, s) \/ Corrected(t, s) \/ Dropped(t, s))
<1>1. PICK t \in Type : \/ \E x \in Value(rule.op) : Join(t, x) \/ \E i \in 1..MaxDocs + 1 : CorrectValue(t, i, x)
                        \/ \E i \in 1..MaxDocs : Leave(t, i)
  BY DEF GroupNext
<1>2. ASSUME NEW x \in Value(rule.op), Join(t, x)
      PROVE  rule' = rule /\ \E s : vals' = [vals EXCEPT ![t] = s] /\ Joined(t, s)
  BY <1>2 DEF Join, Joined
<1>3. ASSUME NEW x \in Value(rule.op), NEW i \in 1..MaxDocs + 1, CorrectValue(t, i, x)
      PROVE  rule' = rule /\ \E s : vals' = [vals EXCEPT ![t] = s] /\ Corrected(t, s)
  <2>1. rule' = rule /\ i \in DOMAIN vals[t] /\ vals' = [vals EXCEPT ![t] = [vals[t] EXCEPT ![i] = x]]
    BY <1>3 DEF CorrectValue
  <2> QED
    BY <2>1 DEF Corrected
<1>4. ASSUME NEW i \in 1..MaxDocs, Leave(t, i)
      PROVE  rule' = rule /\ \E s : vals' = [vals EXCEPT ![t] = s] /\ Dropped(t, s)
  BY <1>4 DEF Leave, Dropped
<1> QED
  BY <1>1, <1>2, <1>3, <1>4

LEMMA GroupStep == GroupInv /\ [GroupNext]_groupVars => GroupInv'
<1> SUFFICES ASSUME GroupInv, [GroupNext]_groupVars PROVE GroupInv'
  OBVIOUS
<1>1. CASE UNCHANGED groupVars
  BY <1>1 DEF GroupInv, groupVars
<1>2. CASE GroupNext
  <2>1. rule' = rule
    BY <1>2, GroupSteps
  <2>10. PICK t \in Type : \E s : vals' = [vals EXCEPT ![t] = s] /\ (Joined(t, s) \/ Corrected(t, s) \/ Dropped(t, s))
    BY <1>2, GroupSteps
  <2>2. PICK s : vals' = [vals EXCEPT ![t] = s] /\ (Joined(t, s) \/ Corrected(t, s) \/ Dropped(t, s))
    BY <2>10
  <2> DEFINE old == vals[t]
             V == Value(rule.op)
  <2>3. old \in Seq(V) /\ Len(old) \in Nat /\ (t \in Other => Len(old) <= MaxDocs) /\ MaxDocs \in Nat
    BY CheckExprAssumption DEF GroupInv
  <2>4. Anchor \in Type /\ Anchor \notin Other /\ Type = Other \cup {Anchor}
    BY CheckExprAssumption DEF Type
  <2>5. s \in Seq(V) /\ (t \in Other => Len(s) <= MaxDocs) /\ (t = Anchor => Len(s) = Len(old))
    <3>1. CASE Joined(t, s)
      <4>1. PICK x \in V : t \in Other /\ Len(old) < MaxDocs /\ s = Append(old, x)
        BY <3>1 DEF Joined
      <4> HIDE DEF old, V
      <4>2. s \in Seq(V) /\ Len(s) = Len(old) + 1
        BY <2>3, <4>1
      <4> QED
        BY <2>3, <2>4, <4>1, <4>2
    <3>2. CASE Corrected(t, s)
      <4>1. PICK x \in V, i \in DOMAIN old : s = [old EXCEPT ![i] = x]
        BY <3>2 DEF Corrected
      <4> HIDE DEF old, V
      <4>2. s \in Seq(V) /\ Len(s) = Len(old)
        BY <2>3, <4>1
      <4> QED
        BY <2>3, <2>4, <4>1, <4>2
    <3>3. CASE Dropped(t, s)
      <4>1. PICK i \in DOMAIN old : t \in Other /\ s = RemoveAt(old, i)
        BY <3>3 DEF Dropped
      <4> HIDE DEF old, V
      <4>2. s \in Seq(V) /\ Len(s) = Len(old) - 1
        BY <2>3, <4>1, Shorter
      <4> QED
        BY <2>3, <2>4, <4>1, <4>2
    <3> QED
      BY <2>2, <3>1, <3>2, <3>3
  <2>6. vals' \in [Type -> Seq(V)] /\ vals'[t] = s /\ \A u \in Type : u # t => vals'[u] = vals[u]
    BY <2>2, <2>5 DEF GroupInv
  <2>7. rule' \in Rules /\ Value(rule'.op) = V
    BY <2>1 DEF GroupInv
  <2> HIDE DEF V, old
  <2>8. Len(vals'[Anchor]) = 1
    <3>1. CASE t = Anchor
      BY <2>5, <2>6, <3>1 DEF GroupInv, old
    <3>2. CASE t # Anchor
      BY <2>4, <2>6, <3>2 DEF GroupInv
    <3> QED
      BY <3>1, <3>2
  <2>9. \A u \in Other : Len(vals'[u]) <= MaxDocs
    BY <2>4, <2>5, <2>6 DEF GroupInv
  <2> QED
    BY <2>6, <2>7, <2>8, <2>9 DEF GroupInv
<1> QED
  BY <1>1, <1>2

LEMMA GroupAlways == GroupSpec => []GroupInv
BY GroupStarts, GroupStep, PTL DEF GroupSpec

LEMMA GroupTyped == GroupInv => GroupTypeOK
<1> SUFFICES ASSUME GroupInv PROVE GroupTypeOK
  OBVIOUS
<1>1. MaxDocs \in Nat /\ Type = Other \cup {Anchor}
  BY CheckExprAssumption DEF Type
<1>2. ASSUME NEW t \in Type PROVE Len(vals[t]) <= MaxDocs + 1 /\ ToSet(vals[t]) \subseteq Value(rule.op)
  <2>1. vals[t] \in Seq(Value(rule.op)) /\ Len(vals[t]) \in Nat
    BY DEF GroupInv
  <2>2. Len(vals[t]) <= MaxDocs + 1
    <3>1. Len(vals[Anchor]) = 1 /\ \A u \in Other : Len(vals[u]) <= MaxDocs
      BY DEF GroupInv
    <3>2. CASE t = Anchor
      <4>1. Len(vals[t]) = 1
        BY <3>1, <3>2
      <4>2. 1 <= MaxDocs + 1
        BY <1>1
      <4> QED
        BY <4>1, <4>2
    <3>3. CASE t \in Other
      BY <1>1, <2>1, <3>1, <3>3
    <3> QED
      BY <1>1, <3>2, <3>3
  <2> QED
    BY <2>1, <2>2 DEF ToSet
<1> QED
  BY <1>2 DEF GroupInv, GroupTypeOK, Rules

(* A contract has one document and every other value belongs to a document *)
(* of its group, whatever users correct, link and remove.                  *)
THEOREM GroupTypeCorrect == GroupSpec => []GroupTypeOK
<1> QED
  BY GroupAlways, GroupTyped, PTL

LEMMA GroupMeasured ==
    ASSUME Measured, GroupInv
    PROVE  rule \in Rules /\ vals \in Groups /\ Value(rule.op) = Number \cup {Missing}
<1>1. rule \in Rules /\ rule.op \notin TextOps
  BY OpsAre DEF GroupInv
<1>2. Value(rule.op) = Number \cup {Missing}
  BY <1>1 DEF Value
<1> QED
  BY <1>1, <1>2 DEF GroupInv, Groups

-----------------------------------------------------------------------------
(* A pass has seen every value.                                            *)

LEMMA PassIsKnown ==
    ASSUME NEW op \in Orders, NEW a \in Cells, NEW b \in Cells, Outcome(Compare(op, a, b)) = "pass"
    PROVE  Unknown \notin Held(a) /\ Unknown \notin Held(b)
<1>1. ~Clash(a, b) /\ Met(a, b) # {} /\ \A p \in Met(a, b) : Agree(op, p[1], p[2]) = Bool(TRUE)
  BY CompareTells
<1>2. \A x, y : <<x, y>> \in Met(a, b) => x # Unknown /\ y # Unknown
  <2> SUFFICES ASSUME NEW x, NEW y, <<x, y>> \in Met(a, b) PROVE x # Unknown /\ y # Unknown
    OBVIOUS
  <2>1. Agree(op, x, y) = Bool(TRUE)
    BY <1>1
  <2>2. Agree(op, x, y) # Unknown
    BY <2>1, Kinds
  <2> QED
    BY <2>2 DEF Agree
<1>3. CASE a.k = "list" /\ b.k = "list"
  <2>1. a.l \in Seq(Cell) /\ b.l \in Seq(Cell) /\ Len(a.l) = Len(b.l)
    BY <1>1, <1>3, Shapes DEF Clash
  <2>2. DOMAIN a.l = DOMAIN b.l
    BY <2>1
  <2>3. \A i \in DOMAIN a.l : <<a.l[i], b.l[i]>> \in Met(a, b)
    BY <1>3 DEF Met
  <2> QED
    BY <1>2, <1>3, <2>2, <2>3 DEF Held
<1>4. CASE a.k = "list" /\ b.k # "list"
  <2>1. \A i \in DOMAIN a.l : <<a.l[i], b>> \in Met(a, b)
    BY <1>4 DEF Met
  <2>2. DOMAIN a.l # {}
    BY <1>1, <1>4 DEF Met
  <2> QED
    BY <1>2, <1>4, <2>1, <2>2 DEF Held
<1>5. CASE a.k # "list" /\ b.k = "list"
  <2>1. \A i \in DOMAIN b.l : <<a, b.l[i]>> \in Met(a, b)
    BY <1>5 DEF Met
  <2>2. DOMAIN b.l # {}
    BY <1>1, <1>5 DEF Met
  <2> QED
    BY <1>2, <1>5, <2>1, <2>2 DEF Held
<1>6. CASE a.k # "list" /\ b.k # "list"
  <2>1. <<a, b>> \in Met(a, b)
    BY <1>6 DEF Met
  <2> QED
    BY <1>2, <1>6, <2>1 DEF Held
<1> QED
  BY <1>3, <1>4, <1>5, <1>6

(* A sum is known when what it adds is.                                    *)
LEMMA SumIsKnown ==
    ASSUME NEW v \in Cells, Unknown \notin Held(Sum(v))
    PROVE  Unknown \notin Held(v)
<1>1. Held(Sum(v)) = {Sum(v)}
  BY SumTells DEF Held
<1> QED
  BY <1>1, SumTells

LEMMA PassReadsAll ==
    ASSUME Measured, NEW r \in Rules, NEW docs \in Groups, r.op \in FieldOps, EvalOf(r, docs) = "pass"
    PROVE  \A t \in {r.a, r.b} : Missing \notin ToSet(docs[t])
<1> DEFINE a == MemberOf(docs, r.a)
           b == MemberOf(docs, r.b)
<1>1. r.op \in {"eq", "same_day", "le", "before", "ge", "after", "sum_le"} /\ r.a \in Type /\ r.b \in Type
  <2>1. r.op \notin TextOps
    BY OpsAre
  <2> QED
    BY <2>1, OpsAre DEF FieldOps, TextOps
<1>2. a \in Cells /\ b \in Cells
  BY <1>1, MemberTells
<1>3. /\ Unknown \in Held(a) <=> Missing \in ToSet(docs[r.a])
      /\ Unknown \in Held(b) <=> Missing \in ToSet(docs[r.b])
  BY <1>1, MemberTells
<1>4. Unknown \notin Held(a) /\ Unknown \notin Held(b)
  <2> DEFINE c == Sum(a)
             d == IF r.b = Anchor THEN b ELSE Sum(b)
  <2>1. CASE r.op = "sum_le"
    <3>1. Outcome(Compare("<=", c, d)) = "pass"
      BY <2>1 DEF EvalOf, FormulaOf
    <3>2. c \in Cells /\ d \in Cells
      BY <1>2, SumTells DEF Cells
    <3> HIDE DEF c, d
    <3>3. Unknown \notin Held(c) /\ Unknown \notin Held(d)
      BY <3>1, <3>2, PassIsKnown DEF Orders
    <3> QED
      BY <1>2, <3>3, SumIsKnown DEF c, d
  <2>2. CASE r.op # "sum_le"
    <3>1. \E op \in Orders : FormulaOf(r, docs) = Compare(op, a, b)
      BY <1>1, <2>2 DEF FormulaOf, Orders
    <3> HIDE DEF a, b
    <3> QED
      BY <1>2, <3>1, PassIsKnown DEF EvalOf
  <2> QED
    BY <2>1, <2>2
<1> QED
  BY <1>3, <1>4

(* A rule on two fields that are amounts, dates or numbers never passes    *)
(* while a document misses its value ("not enough information").           *)
THEOREM PassNeedsEveryValue ==
    ASSUME Measured
    PROVE  GroupSpec => []PassMeansComplete
<1>1. GroupInv => PassMeansComplete
  <2> SUFFICES ASSUME GroupInv, rule.op \in FieldOps, Eval(vals) = "pass" PROVE Complete
    BY DEF PassMeansComplete
  <2>1. rule \in Rules /\ vals \in Groups
    BY GroupMeasured
  <2>2. EvalOf(rule, vals) = "pass"
    BY <2>1, EvalIs
  <2> QED
    BY <2>1, <2>2, PassReadsAll DEF Complete
<1> QED
  BY <1>1, GroupAlways, PTL

-----------------------------------------------------------------------------
(* The rows of a rule add up to its outcome.                               *)

Order(op) == IF op \in {"eq", "same_day"} THEN "=" ELSE IF op \in {"le", "before"} THEN "<=" ELSE ">="

Paired == {"eq", "same_day", "le", "before", "ge", "after"}

LEMMA PairedIs ==
    ASSUME NEW r, NEW docs, r.op \in Paired
    PROVE  /\ EvalOf(r, docs) = Outcome(Compare(Order(r.op), MemberOf(docs, r.a), MemberOf(docs, r.b)))
           /\ Order(r.op) \in Orders
BY DEF EvalOf, FormulaOf, Order, Orders, Paired

(* A rule of documents against their contract holds when it does for each. *)
LEMMA AgainstContract ==
    ASSUME NEW r \in Rules, NEW docs \in Groups, r.op \in Paired, r.a # Anchor, r.b = Anchor
    PROVE  LET s == docs[r.a]
               one(i) == Agree(Order(r.op), FieldOf(s[i]), FieldOf(docs[Anchor][1]))
           IN  /\ EvalOf(r, docs) = "pass" <=> DOMAIN s # {} /\ \A i \in DOMAIN s : one(i) = Bool(TRUE)
               /\ EvalOf(r, docs) = "fail" <=> \E i \in DOMAIN s : one(i) = Bool(FALSE)
<1> DEFINE s == docs[r.a]
           op == Order(r.op)
           c == FieldOf(docs[Anchor][1])
           a == MemberOf(docs, r.a)
           b == MemberOf(docs, r.b)
           one(i) == Agree(op, FieldOf(s[i]), c)
<1>1. r.a \in Type /\ r.b \in Type
  BY DEF Rules
<1>2. a \in Cells /\ a.k = "list" /\ a.l = [i \in DOMAIN s |-> FieldOf(s[i])]
  BY <1>1, MemberTells
<1>3. b \in Cells /\ b.k # "list" /\ b = c
  BY <1>1, MemberTells
<1>4. EvalOf(r, docs) = Outcome(Compare(op, a, b)) /\ op \in Orders
  BY PairedIs
<1> HIDE DEF a, b, c, op, s
<1>5. ~Clash(a, b) /\ Met(a, b) = {<<FieldOf(s[i]), c>> : i \in DOMAIN s}
  BY <1>2, <1>3 DEF Clash, Met
<1> DEFINE P == Met(a, b)
<1>6. /\ EvalOf(r, docs) = "pass" <=> P # {} /\ \A p \in P : Agree(op, p[1], p[2]) = Bool(TRUE)
      /\ EvalOf(r, docs) = "fail" <=> \E p \in P : Agree(op, p[1], p[2]) = Bool(FALSE)
  BY <1>2, <1>3, <1>4, <1>5, CompareTells
<1>7. /\ P # {} <=> DOMAIN s # {}
      /\ \A p \in P : \E i \in DOMAIN s : Agree(op, p[1], p[2]) = one(i)
      /\ \A i \in DOMAIN s : \E p \in P : Agree(op, p[1], p[2]) = one(i)
  <2>1. P # {} <=> DOMAIN s # {}
    BY <1>5
  <2>2. \A p \in P : \E i \in DOMAIN s : p[1] = FieldOf(s[i]) /\ p[2] = c
    BY <1>5
  <2>3. ASSUME NEW i \in DOMAIN s PROVE \E p \in P : p[1] = FieldOf(s[i]) /\ p[2] = c
    <3>1. <<FieldOf(s[i]), c>> \in P
      BY <1>5
    <3> QED
      BY <3>1
  <2> HIDE DEF P
  <2> QED
    BY <2>1, <2>2, <2>3
<1> HIDE DEF P
<1>8. /\ EvalOf(r, docs) = "pass" <=> DOMAIN s # {} /\ \A i \in DOMAIN s : one(i) = Bool(TRUE)
      /\ EvalOf(r, docs) = "fail" <=> \E i \in DOMAIN s : one(i) = Bool(FALSE)
  <2> HIDE DEF one
  <2> QED
    BY <1>6, <1>7
<1> QED
  BY <1>8 DEF s, op, c

RowOf(r, docs, i) == IF r.a = Anchor THEN EvalOf(r, docs) ELSE EvalOf(r, [docs EXCEPT ![r.a] = <<docs[r.a][i]>>])

LEMMA RowTells ==
    ASSUME NEW r \in Rules, NEW docs \in Groups, r.op \in Paired, r.a # Anchor, r.b = Anchor,
           NEW i \in DOMAIN docs[r.a]
    PROVE  LET it == Agree(Order(r.op), FieldOf(docs[r.a][i]), FieldOf(docs[Anchor][1]))
           IN  /\ RowOf(r, docs, i) = "pass" <=> it = Bool(TRUE)
               /\ RowOf(r, docs, i) = "fail" <=> it = Bool(FALSE)
<1> DEFINE x == docs[r.a][i]
           alone == [docs EXCEPT ![r.a] = <<x>>]
           V == Number \cup {Missing}
<1>1. r.a \in Type /\ Anchor \in Type
  BY DEF Rules, Type
<1>2. docs \in [Type -> Seq(V)] /\ Len(docs[Anchor]) = 1
  BY DEF Groups
<1>3. x \in V
  BY <1>1, <1>2
<1>4. <<x>> \in Seq(V) /\ DOMAIN <<x>> = {1} /\ <<x>>[1] = x
  <2> HIDE DEF x
  <2> QED
    BY <1>3
<1>5. alone \in [Type -> Seq(V)] /\ alone[r.a] = <<x>> /\ alone[Anchor] = docs[Anchor]
  <2> HIDE DEF x, V
  <2> QED
    BY <1>1, <1>2, <1>4
<1>6. alone \in Groups
  BY <1>2, <1>5 DEF Groups
<1>7. RowOf(r, docs, i) = EvalOf(r, alone)
  BY DEF RowOf
<1> HIDE DEF x, alone
<1> DEFINE one(j) == Agree(Order(r.op), FieldOf(alone[r.a][j]), FieldOf(alone[Anchor][1]))
<1>8. /\ EvalOf(r, alone) = "pass" <=> DOMAIN alone[r.a] # {} /\ \A j \in DOMAIN alone[r.a] : one(j) = Bool(TRUE)
      /\ EvalOf(r, alone) = "fail" <=> \E j \in DOMAIN alone[r.a] : one(j) = Bool(FALSE)
  BY <1>6, AgainstContract
<1>9. DOMAIN alone[r.a] = {1} /\ one(1) = Agree(Order(r.op), FieldOf(x), FieldOf(docs[Anchor][1]))
  BY <1>4, <1>5
<1> HIDE DEF one
<1>10. /\ EvalOf(r, alone) = "pass" <=> one(1) = Bool(TRUE)
       /\ EvalOf(r, alone) = "fail" <=> one(1) = Bool(FALSE)
  BY <1>8, <1>9
<1> QED
  BY <1>7, <1>9, <1>10 DEF x

LEMMA RowsAre ==
    ASSUME NEW r \in Rules, NEW docs \in Groups, r.op \in Paired, Anchor \in {r.a, r.b},
           NEW R, R = {RowOf(r, docs, i) : i \in DOMAIN docs[r.a]}, R # {}
    PROVE  /\ EvalOf(r, docs) = "pass" <=> R = {"pass"}
           /\ EvalOf(r, docs) = "fail" <=> "fail" \in R
<1>1. CASE r.a = Anchor
  <2>1. R = {EvalOf(r, docs)}
    BY <1>1 DEF RowOf
  <2> QED
    BY <2>1
<1>2. CASE r.a # Anchor
  <2> DEFINE s == docs[r.a]
             one(i) == Agree(Order(r.op), FieldOf(s[i]), FieldOf(docs[Anchor][1]))
             row(i) == RowOf(r, docs, i)
  <2>1. /\ EvalOf(r, docs) = "pass" <=> DOMAIN s # {} /\ \A i \in DOMAIN s : one(i) = Bool(TRUE)
        /\ EvalOf(r, docs) = "fail" <=> \E i \in DOMAIN s : one(i) = Bool(FALSE)
    BY <1>2, AgainstContract
  <2>2. \A i \in DOMAIN s : /\ row(i) = "pass" <=> one(i) = Bool(TRUE)
                            /\ row(i) = "fail" <=> one(i) = Bool(FALSE)
    BY <1>2, RowTells
  <2>3. R = {row(i) : i \in DOMAIN s}
    OBVIOUS
  <2> HIDE DEF one, row, s
  <2>4. R = {"pass"} <=> \A i \in DOMAIN s : row(i) = "pass"
    BY <2>3
  <2>5. "fail" \in R <=> \E i \in DOMAIN s : row(i) = "fail"
    BY <2>3
  <2>6. DOMAIN s # {}
    BY <2>3
  <2> QED
    BY <2>1, <2>2, <2>4, <2>5, <2>6
<1> QED
  BY <1>1, <1>2

(* What the page shows document by document is what the rule says: it      *)
(* passes when each row does, and fails when one does (comparison).        *)
THEOREM RowsTellTheOutcome ==
    ASSUME Measured
    PROVE  GroupSpec => []RowsAddUp
<1>1. GroupInv => RowsAddUp
  <2> SUFFICES ASSUME GroupInv,
                      rule.op \in FieldOps \ {"sum_le"}, Anchor \in {rule.a, rule.b}, Rows # {}
               PROVE  /\ Eval(vals) = "pass" <=> Rows = {"pass"}
                      /\ Eval(vals) = "fail" <=> "fail" \in Rows
    BY GroupTyped DEF RowsAddUp
  <2>1. rule \in Rules /\ vals \in Groups
    BY GroupMeasured
  <2>2. rule.op \in Paired
    <3>1. rule.op \notin TextOps
      BY <2>1, OpsAre
    <3> QED
      BY <3>1 DEF FieldOps, Paired
  <2>3. Eval(vals) = EvalOf(rule, vals)
    BY <2>1, EvalIs
  <2>4. \A i : RowStatus(i) = RowOf(rule, vals, i)
    <3> SUFFICES ASSUME NEW i PROVE RowStatus(i) = RowOf(rule, vals, i)
      OBVIOUS
    <3> DEFINE alone == [vals EXCEPT ![rule.a] = <<vals[rule.a][i]>>]
    <3>1. Eval(alone) = EvalOf(rule, alone)
      BY <2>1, EvalIs
    <3> QED
      BY <2>3, <3>1 DEF RowStatus, RowOf
  <2>5. Rows = {RowOf(rule, vals, i) : i \in DOMAIN vals[rule.a]}
    BY <2>4 DEF Rows
  <2> QED
    BY <2>1, <2>2, <2>3, <2>5, RowsAre
<1> QED
  BY <1>1, GroupAlways, PTL

-----------------------------------------------------------------------------
(* A verdict stands while values are filled in.                            *)

Filled(docs, more) ==
    \A t \in Type : DOMAIN more[t] = DOMAIN docs[t] /\ \A i \in DOMAIN docs[t] : docs[t][i] \in {more[t][i], Missing}

LEMMA FieldBelow ==
    ASSUME NEW x, NEW y, x \in {y, Missing}
    PROVE  FieldOf(x) \in {Unknown, FieldOf(y)}
BY DEF FieldOf

LEMMA MemberBelow ==
    ASSUME NEW docs \in Groups, NEW more \in Groups, Filled(docs, more), NEW t \in Type
    PROVE  Below(MemberOf(docs, t), MemberOf(more, t))
<1>1. DOMAIN more[t] = DOMAIN docs[t] /\ \A i \in DOMAIN docs[t] : FieldOf(docs[t][i]) \in {Unknown, FieldOf(more[t][i])}
  BY FieldBelow DEF Filled
<1>2. CASE t = Anchor
  <2>1. MemberOf(docs, t) = FieldOf(docs[t][1]) /\ 1 \in DOMAIN docs[t]
    BY <1>2, MemberTells
  <2>2. MemberOf(more, t) = FieldOf(more[t][1]) /\ MemberOf(more, t).k # "list"
    BY <1>2, MemberTells
  <2> QED
    BY <1>1, <2>1, <2>2 DEF Below
<1>3. CASE t # Anchor
  <2> DEFINE a == MemberOf(docs, t)
             c == MemberOf(more, t)
  <2>1. a.k = "list" /\ a.l = [i \in DOMAIN docs[t] |-> FieldOf(docs[t][i])]
    BY <1>3, MemberTells
  <2>2. c.k = "list" /\ c.l = [i \in DOMAIN more[t] |-> FieldOf(more[t][i])]
    BY <1>3, MemberTells
  <2> HIDE DEF a, c
  <2>3. DOMAIN a.l = DOMAIN c.l /\ \A i \in DOMAIN a.l : a.l[i] \in {Unknown, c.l[i]}
    BY <1>1, <2>1, <2>2
  <2>4. Below(a, c)
    BY <2>1, <2>2, <2>3 DEF Below
  <2> QED
    BY <2>4 DEF a, c
<1> QED
  BY <1>2, <1>3

LEMMA SingleCompare ==
    ASSUME NEW op \in Orders, NEW x \in Cells, NEW y \in Cells, x.k # "list", y.k # "list"
    PROVE  /\ Compare(op, x, y) = Agree(op, x, y) /\ Compare(op, x, y) \in Truth
           /\ Outcome(Compare(op, x, y)) = "pass" <=> Agree(op, x, y) = Bool(TRUE)
           /\ Outcome(Compare(op, x, y)) = "fail" <=> Agree(op, x, y) = Bool(FALSE)
<1>1. x \in Cell /\ y \in Cell
  BY Shapes
<1>2. Compare(op, x, y) = Agree(op, x, y)
  BY CompareIs DEF Compared
<1>3. Agree(op, x, y) \in Truth
  BY <1>1, AgreeTells
<1>4. Agree(op, x, y) \in Truths /\ Held(Agree(op, x, y)) = {Agree(op, x, y)}
  BY <1>3, Kinds DEF Truths, Held
<1>5. /\ Outcome(Agree(op, x, y)) = "pass" <=> Held(Agree(op, x, y)) = {Bool(TRUE)}
      /\ Outcome(Agree(op, x, y)) = "fail" <=> Bool(FALSE) \in Held(Agree(op, x, y))
  BY <1>4, OutcomeTells
<1> QED
  BY <1>2, <1>3, <1>4, <1>5

LEMMA BelowTruth ==
    ASSUME NEW x \in Truth, NEW y, Below(x, y)
    PROVE  x \in {Unknown, y}
BY Kinds DEF Below

LEMMA EvalStands ==
    ASSUME Measured, NEW r \in Rules, NEW docs \in Groups, NEW more \in Groups, Filled(docs, more)
    PROVE  EvalOf(r, docs) \in {"unknown", EvalOf(r, more)}
<1> DEFINE a == MemberOf(docs, r.a)
           b == MemberOf(docs, r.b)
           c == MemberOf(more, r.a)
           d == MemberOf(more, r.b)
<1>1. /\ r.op \in {"eq", "same_day", "le", "before", "ge", "after", "sum_le", "within", "chain", "delivered"}
      /\ r.a \in Type /\ r.b \in Type
  BY OpsAre
<1>2. a \in Cells /\ b \in Cells /\ c \in Cells /\ d \in Cells
  BY <1>1, MemberTells
<1>3. Below(a, c) /\ Below(b, d)
  BY <1>1, MemberBelow
<1>4. ASSUME NEW v, NEW w, v \in Truths, w \in Truths, Below(v, w), FormulaOf(r, docs) = v, FormulaOf(r, more) = w
      PROVE  EvalOf(r, docs) \in {"unknown", EvalOf(r, more)}
  BY <1>4, OutcomeStands DEF EvalOf
<1>5. ASSUME NEW op \in Orders, NEW x \in Cells, NEW y \in Cells, NEW u \in Cells, NEW w \in Cells, Below(x, u), Below(y, w)
      PROVE  /\ Compare(op, x, y) \in Truths /\ Compare(op, u, w) \in Truths
             /\ Below(Compare(op, x, y), Compare(op, u, w))
  BY <1>5, CompareTells, CompareBelow
<1>6. Sum(a) \in Cells /\ Sum(b) \in Cells /\ Sum(c) \in Cells /\ Sum(d) \in Cells
  BY <1>2, SumTells DEF Cells
<1>7. Below(Sum(a), Sum(c)) /\ Below(Sum(b), Sum(d))
  BY <1>2, <1>3, SumBelow
<1>8. CASE r.op \in Paired
  <2>1. FormulaOf(r, docs) = Compare(Order(r.op), a, b) /\ FormulaOf(r, more) = Compare(Order(r.op), c, d)
    BY <1>8 DEF FormulaOf, Order, Paired
  <2>2. Order(r.op) \in Orders
    BY <1>8, PairedIs
  <2> HIDE DEF a, b, c, d
  <2> QED
    BY <1>2, <1>3, <1>4, <1>5, <2>1, <2>2
<1>9. CASE r.op = "sum_le"
  <2> DEFINE y == IF r.b = Anchor THEN b ELSE Sum(b)
             w == IF r.b = Anchor THEN d ELSE Sum(d)
  <2>1. FormulaOf(r, docs) = Compare("<=", Sum(a), y) /\ FormulaOf(r, more) = Compare("<=", Sum(c), w)
    BY <1>9 DEF FormulaOf
  <2>2. y \in Cells /\ w \in Cells /\ Below(y, w)
    BY <1>2, <1>3, <1>6, <1>7
  <2> HIDE DEF a, b, c, d, y, w
  <2> QED
    BY <1>4, <1>5, <1>6, <1>7, <2>1, <2>2 DEF Orders
<1>10. CASE r.op = "within"
  <2>1. FormulaOf(r, docs) = Between(a, b, Num(2)) /\ FormulaOf(r, more) = Between(c, d, Num(2))
    BY <1>10 DEF FormulaOf
  <2> HIDE DEF a, b, c, d
  <2>2. Between(a, b, Num(2)) \in Truths /\ Between(c, d, Num(2)) \in Truths
    BY <1>2, BetweenTells
  <2>3. Below(Between(a, b, Num(2)), Between(c, d, Num(2)))
    BY <1>2, <1>3, BetweenBelow
  <2> QED
    BY <1>4, <2>1, <2>2, <2>3
<1>11. CASE r.op = "chain"
  <2> DEFINE p == Compare("<=", Sum(a), Sum(b))
             q == Compare("<=", Sum(b), Sum(a))
             u == Compare("<=", Sum(c), Sum(d))
             w == Compare("<=", Sum(d), Sum(c))
  <2>1. FormulaOf(r, docs) = Logic("and", p, q) /\ FormulaOf(r, more) = Logic("and", u, w)
    BY <1>11 DEF FormulaOf
  <2>2. p \in Truth /\ q \in Truth /\ u \in Truth /\ w \in Truth
    BY <1>2, <1>6, SumTells, SingleCompare DEF Orders
  <2>3. Below(p, u) /\ Below(q, w)
    BY <1>5, <1>6, <1>7 DEF Orders
  <2> HIDE DEF a, b, c, d, p, q, u, w
  <2>4. p \in {Unknown, u} /\ q \in {Unknown, w}
    BY <2>2, <2>3, BelowTruth
  <2>5. /\ Logic("and", p, q) \in Truth /\ Logic("and", u, w) \in Truth
        /\ Logic("and", p, q) = IF Bool(FALSE) \in {p, q} THEN Bool(FALSE) ELSE IF {p, q} = {Bool(TRUE)} THEN Bool(TRUE) ELSE Unknown
        /\ Logic("and", u, w) = IF Bool(FALSE) \in {u, w} THEN Bool(FALSE) ELSE IF {u, w} = {Bool(TRUE)} THEN Bool(TRUE) ELSE Unknown
    BY <2>2, AndTells
  <2> DEFINE no == Bool(FALSE)
             yes == Bool(TRUE)
  <2>6. no # Unknown /\ yes # Unknown /\ no # yes
    BY Kinds
  <2>7. Logic("and", p, q) \in {Unknown, Logic("and", u, w)}
    <3>1. no \in {p, q} => no \in {u, w}
      BY <2>4, <2>6
    <3>2. {p, q} = {yes} => {u, w} = {yes}
      BY <2>4, <2>6
    <3>3. {u, w} = {yes} => no \notin {u, w}
      BY <2>6
    <3> HIDE DEF no, yes
    <3>4. /\ Logic("and", p, q) = IF no \in {p, q} THEN no ELSE IF {p, q} = {yes} THEN yes ELSE Unknown
          /\ Logic("and", u, w) = IF no \in {u, w} THEN no ELSE IF {u, w} = {yes} THEN yes ELSE Unknown
      BY <2>5 DEF no, yes
    <3> QED
      BY <3>1, <3>2, <3>3, <3>4
  <2>8. Logic("and", u, w).k # "list"
    BY <2>5, Kinds
  <2> QED
    BY <1>4, <2>1, <2>5, <2>7, <2>8 DEF Below, Truths
<1>12. CASE r.op = "delivered"
  <2> DEFINE p == Compare("=", b, Num(1))
             u == Compare("=", d, Num(1))
             x == Compare(">", SumOf(CountsOf(docs)), Num(0))
  <2>1. CountsOf(more) = CountsOf(docs)
    <3>1. \A t \in Other : DOMAIN more[t] = DOMAIN docs[t]
      BY DEF Filled, Type
    <3> QED
      BY <3>1, CountsAgree
  <2>2. FormulaOf(r, docs) = If(p, x) /\ FormulaOf(r, more) = If(u, x)
    BY <1>12, <2>1 DEF FormulaOf
  <2>3. Num(1) \in Cells /\ Below(Num(1), Num(1))
    BY DEF Cells, Cell, NumCell, Below
  <2>4. p \in Truths /\ u \in Truths /\ Below(p, u)
    BY <1>2, <1>3, <1>5, <2>3 DEF Orders
  <2> HIDE DEF p, u, x
  <2>5. Outcome(p) \in {"unknown", Outcome(u)}
    BY <2>4, OutcomeStands
  <2>6. Outcome(Unknown) = "unknown"
    BY Kinds DEF Outcome, ItemVerdict
  <2>7. Outcome(p) = "unknown" => If(p, x) = Unknown
    BY DEF If
  <2>8. Outcome(p) = Outcome(u) => If(p, x) = If(u, x)
    BY DEF If
  <2> QED
    BY <2>2, <2>5, <2>6, <2>7, <2>8 DEF EvalOf
<1> QED
  BY <1>1, <1>8, <1>9, <1>10, <1>11, <1>12 DEF Paired

LEMMA FillStep ==
    ASSUME GroupInv, GroupNext, NEW t \in Type, Len(vals'[t]) = Len(vals[t]),
           NEW i \in DOMAIN vals[t], vals[t][i] = Missing, vals'[t][i] # Missing
    PROVE  Filled(vals, vals')
<1>1. PICK u \in Type : \E s : vals' = [vals EXCEPT ![u] = s] /\ (Joined(u, s) \/ Corrected(u, s) \/ Dropped(u, s))
  BY GroupSteps
<1>2. PICK s : vals' = [vals EXCEPT ![u] = s] /\ (Joined(u, s) \/ Corrected(u, s) \/ Dropped(u, s))
  BY <1>1
<1> DEFINE old == vals[u]
           V == Value(rule.op)
<1>3. vals \in [Type -> Seq(V)]
  BY DEF GroupInv
<1>4. vals'[u] = s /\ \A v \in Type : v # u => vals'[v] = vals[v]
  BY <1>2, <1>3
<1>5. t = u
  BY <1>4
<1>6. old \in Seq(V) /\ Len(old) \in Nat /\ Len(s) = Len(old)
  BY <1>3, <1>4, <1>5
<1>7. ~Joined(u, s)
  <2> SUFFICES ASSUME NEW x \in V, s = Append(old, x) PROVE FALSE
    BY DEF Joined
  <2> HIDE DEF old, V
  <2>1. Len(s) = Len(old) + 1
    BY <1>6
  <2> QED
    BY <1>6, <2>1
<1>8. ~Dropped(u, s)
  <2> SUFFICES ASSUME NEW j \in DOMAIN old, s = RemoveAt(old, j) PROVE FALSE
    BY DEF Dropped
  <2> HIDE DEF old, V
  <2>1. Len(s) = Len(old) - 1
    BY <1>6, Shorter
  <2> QED
    BY <1>6, <2>1
<1>9. PICK x \in V, j \in DOMAIN old : s = [old EXCEPT ![j] = x]
  BY <1>2, <1>7, <1>8 DEF Corrected
<1>10. j = i
  <2>1. i \in DOMAIN old /\ old[i] = Missing /\ s[i] # Missing
    BY <1>4, <1>5
  <2> HIDE DEF old
  <2> QED
    BY <1>9, <2>1
<1>11. DOMAIN s = DOMAIN old /\ \A k \in DOMAIN old : old[k] \in {s[k], Missing}
  <2>1. old[i] = Missing
    BY <1>5
  <2> HIDE DEF old
  <2> QED
    BY <1>9, <1>10, <2>1
<1> QED
  BY <1>4, <1>11 DEF Filled

(* A document that gets a value it missed turns no pass into a fail and no *)
(* fail into a pass.                                                       *)
THEOREM MissingValuesDecideNothing ==
    ASSUME Measured
    PROVE  GroupSpec => FillNeverFlips
<1> DEFINE Fills == \E t \in Type : Len(vals'[t]) = Len(vals[t]) /\ \E i \in DOMAIN vals[t] : vals[t][i] = Missing /\ vals'[t][i] # Missing
<1>1. ASSUME GroupInv, GroupInv', [GroupNext]_groupVars, Fills
      PROVE  {Eval(vals), Eval(vals)'} # {"pass", "fail"}
  <2>1. PICK t \in Type : Len(vals'[t]) = Len(vals[t]) /\ \E i \in DOMAIN vals[t] : vals[t][i] = Missing /\ vals'[t][i] # Missing
    BY <1>1
  <2>2. PICK i \in DOMAIN vals[t] : vals[t][i] = Missing /\ vals'[t][i] # Missing
    BY <2>1
  <2>3. GroupNext
    BY <1>1, <2>2 DEF groupVars
  <2>4. Filled(vals, vals')
    BY <1>1, <2>1, <2>2, <2>3, FillStep
  <2>5. rule' = rule
    BY <1>1, <2>3, GroupSteps
  <2>6. rule \in Rules /\ vals \in Groups
    BY <1>1, GroupMeasured
  <2>7. vals' \in Groups
    <3>1. Value(rule.op) = Number \cup {Missing}
      BY <1>1, GroupMeasured
    <3>2. vals' \in [Type -> Seq(Value(rule.op))] /\ Len(vals'[Anchor]) = 1
      BY <1>1, <2>5 DEF GroupInv
    <3> QED
      BY <3>1, <3>2 DEF Groups
  <2>8. Eval(vals) = EvalOf(rule, vals)
    BY <2>6, EvalIs
  <2>9. Eval(vals)' = EvalOf(rule, vals')
    <3>1. rule' \in Rules
      BY <2>5, <2>6
    <3>2. Eval(vals)' = EvalOf(rule', vals')
      BY <3>1, EvalNextIs
    <3> QED
      BY <2>5, <3>2
  <2>10. EvalOf(rule, vals) \in {"unknown", EvalOf(rule, vals')}
    BY <2>4, <2>6, <2>7, EvalStands
  <2> DEFINE now == Eval(vals)
             then == Eval(vals)'
  <2>11. now \in {"unknown", then}
    BY <2>8, <2>9, <2>10
  <2> HIDE DEF now, then
  <2>12. {now, then} # {"pass", "fail"}
    BY <2>11
  <2> QED
    BY <2>12 DEF now, then
<1>2. GroupInv /\ GroupInv' /\ [GroupNext]_groupVars => [Fills => {Eval(vals), Eval(vals)'} # {"pass", "fail"}]_groupVars
  BY <1>1
<1> QED
  BY <1>2, GroupAlways, PTL DEF GroupSpec, FillNeverFlips

-----------------------------------------------------------------------------
(* A further document does not cure a fail.                                *)

LEMMA GrowKeeps ==
    ASSUME Measured, Number \subseteq Nat, NEW r \in Rules, NEW docs \in Groups, NEW more \in Groups,
           NEW t \in Other, NEW x \in Number \cup {Missing}, more = [docs EXCEPT ![t] = Append(docs[t], x)],
           r.op \in FieldOps, r.b = Anchor, EvalOf(r, docs) = "fail"
    PROVE  EvalOf(r, more) # "pass"
<1> DEFINE V == Number \cup {Missing}
           old == docs[t]
           new == more[t]
           b == MemberOf(docs, Anchor)
<1>1. r.op \in Paired \/ r.op = "sum_le"
  <2>1. r.op \notin TextOps
    BY OpsAre
  <2> QED
    BY <2>1, OpsAre DEF FieldOps, TextOps, Paired
<1>2. r.a \in Type /\ Anchor \in Type /\ t \in Type /\ t # Anchor
  BY CheckExprAssumption DEF Rules, Type
<1>3. docs \in [Type -> Seq(V)] /\ old \in Seq(V)
  BY <1>2 DEF Groups
<1>4. new = Append(old, x) /\ \A u \in Type : u # t => more[u] = docs[u]
  BY <1>2, <1>3
<1>5. /\ Len(old) \in Nat /\ DOMAIN old = 1..Len(old) /\ DOMAIN new = 1..(Len(old) + 1)
      /\ new[Len(old) + 1] = x /\ \A i \in DOMAIN old : i \in DOMAIN new /\ new[i] = old[i]
  <2> HIDE DEF old, new, V
  <2> QED
    BY <1>3, <1>4
<1>6. MemberOf(more, Anchor) = b
  BY <1>2, <1>4 DEF MemberOf
<1>7. CASE r.a # t
  <2>1. MemberOf(more, r.a) = MemberOf(docs, r.a)
    BY <1>2, <1>4, <1>7 DEF MemberOf
  <2>2. CASE r.op \in Paired
    BY <1>6, <2>1, <2>2, PairedIs
  <2>3. CASE r.op = "sum_le"
    BY <1>6, <2>1, <2>3 DEF EvalOf, FormulaOf
  <2> QED
    BY <1>1, <2>2, <2>3
<1>8. CASE r.a = t /\ r.op \in Paired
  <2> DEFINE one(v) == Agree(Order(r.op), FieldOf(v), FieldOf(docs[Anchor][1]))
  <2>1. EvalOf(r, docs) = "fail" <=> \E i \in DOMAIN old : one(old[i]) = Bool(FALSE)
    BY <1>2, <1>8, AgainstContract
  <2>2. more[Anchor] = docs[Anchor]
    BY <1>2, <1>4
  <2>3. EvalOf(r, more) = "fail" <=> \E i \in DOMAIN new : one(new[i]) = Bool(FALSE)
    <3>1. LET s == more[r.a]
              it(i) == Agree(Order(r.op), FieldOf(s[i]), FieldOf(more[Anchor][1]))
          IN  EvalOf(r, more) = "fail" <=> \E i \in DOMAIN s : it(i) = Bool(FALSE)
      BY <1>2, <1>8, AgainstContract
    <3> QED
      BY <1>8, <2>2, <3>1
  <2>4. EvalOf(r, more) = "fail"
    BY <1>5, <2>1, <2>3
  <2> QED
    BY <2>4
<1>9. CASE r.a = t /\ r.op = "sum_le"
  <2> DEFINE a == MemberOf(docs, t)
             c == MemberOf(more, t)
  <2>1. /\ a \in Cells /\ a.k = "list" /\ a.l \in Seq(Cell) /\ a.l = [i \in DOMAIN old |-> FieldOf(old[i])]
        /\ c \in Cells /\ c.k = "list" /\ c.l \in Seq(Cell) /\ c.l = [i \in DOMAIN new |-> FieldOf(new[i])]
    BY <1>2, MemberTells
  <2>2. b \in Cells /\ b.k # "list"
    BY <1>2, MemberTells
  <2>3. EvalOf(r, docs) = Outcome(Compare("<=", Sum(a), b)) /\ EvalOf(r, more) = Outcome(Compare("<=", Sum(c), b))
    BY <1>6, <1>9 DEF EvalOf, FormulaOf
  <2> HIDE DEF a, b, c, old, new, V
  <2>4. Sum(a) \in Cell /\ Sum(a).k # "list" /\ Sum(c) \in Cell /\ Sum(c).k # "list"
    BY <2>1, SumTells
  <2>5. /\ EvalOf(r, docs) = "fail" <=> Agree("<=", Sum(a), b) = Bool(FALSE)
        /\ EvalOf(r, more) = "pass" <=> Agree("<=", Sum(c), b) = Bool(TRUE)
    BY <2>2, <2>3, <2>4, SingleCompare DEF Orders, Cells
  <2>6. b \in Cell
    BY <2>2, Shapes
  <2>7. Sum(a) # Unknown /\ b # Unknown /\ ~(Sum(a).n <= b.n)
    <3>1. Agree("<=", Sum(a), b) = Bool(FALSE)
      BY <2>5
    <3> QED
      BY <2>4, <2>6, <3>1, AgreeFails
  <2>8. Unknown \notin Held(a) /\ a.l \in Seq(NumCell) /\ Sum(a) = Num(Total(a.l))
    BY <2>1, <2>7, SumTells DEF Items
  <2>9. CASE Unknown \in Held(c)
    <3>1. Sum(c) = Unknown
      BY <2>1, <2>9, SumTells
    <3>2. Agree("<=", Sum(c), b) = Unknown
      BY <3>1 DEF Agree
    <3> QED
      BY <2>5, <3>2, Kinds
  <2>10. CASE Unknown \notin Held(c)
    <3>1. Sum(c) = Num(Total(c.l)) /\ c.l \in Seq(NumCell)
      BY <2>1, <2>10, SumTells DEF Items
    <3>2. x # Missing /\ FieldOf(x) \in NumCell /\ FieldOf(x).n = x /\ x \in Nat
      <4>1. c.l[Len(old) + 1] = FieldOf(x) /\ Len(old) + 1 \in DOMAIN c.l
        BY <1>5, <2>1
      <4>2. FieldOf(x) \in Held(c)
        BY <2>1, <4>1 DEF Held
      <4>3. FieldOf(x) # Unknown
        BY <2>10, <4>2
      <4> QED
        BY <4>3, FieldTells DEF Cell
    <3>3. c.l = Append(a.l, FieldOf(x))
      <4> DEFINE l == a.l
                 m == c.l
                 y == FieldOf(x)
      <4>1. l \in Seq(NumCell) /\ m \in Seq(NumCell) /\ y \in NumCell
        BY <2>8, <3>1, <3>2
      <4>2. Len(l) = Len(old) /\ Len(m) = Len(old) + 1
        <5>1. DOMAIN l = 1..Len(old) /\ DOMAIN m = 1..(Len(old) + 1)
          BY <1>5, <2>1
        <5>2. Len(old) \in Nat /\ Len(old) + 1 \in Nat
          BY <1>5
        <5> HIDE DEF l, m
        <5>3. DOMAIN l = 1..Len(l) /\ DOMAIN m = 1..Len(m) /\ Len(l) \in Nat /\ Len(m) \in Nat
          BY <4>1
        <5> QED
          BY <5>1, <5>2, <5>3
      <4>3. m[Len(old) + 1] = y /\ \A i \in 1..Len(old) : m[i] = l[i]
        <5>1. Len(old) + 1 \in DOMAIN new
          BY <1>5
        <5>2. m[Len(old) + 1] = FieldOf(new[Len(old) + 1])
          BY <2>1, <5>1
        <5>3. \A i \in DOMAIN old : m[i] = FieldOf(new[i]) /\ l[i] = FieldOf(old[i])
          BY <1>5, <2>1
        <5> QED
          BY <1>5, <5>2, <5>3
      <4> HIDE DEF l, m, y
      <4>4. Append(l, y) \in Seq(NumCell) /\ Len(Append(l, y)) = Len(m) /\ \A i \in 1..Len(m) : Append(l, y)[i] = m[i]
        BY <1>5, <4>1, <4>2, <4>3
      <4>5. m = Append(l, y)
        BY <4>1, <4>4
      <4> QED
        BY <4>5 DEF l, m, y
    <3>4. Total(c.l) = Total(a.l) + x /\ Total(a.l) \in Int
      BY <2>8, <3>2, <3>3, TotalGrows, TotalType
    <3>5. Sum(a).n = Total(a.l) /\ Sum(c).n = Total(c.l) /\ b.n \in Int
      BY <2>6, <2>7, <2>8, <3>1, Kinds
    <3>6. ~(Sum(c).n <= b.n)
      BY <2>7, <3>2, <3>4, <3>5
    <3>7. ~Holds("<=", Sum(c).n, b.n)
      BY <3>6 DEF Holds
    <3>8. Agree("<=", Sum(c), b) # Bool(TRUE)
      BY <2>4, <2>6, <3>7, AgreeTells DEF Orders
    <3> QED
      BY <2>5, <3>8
  <2> QED
    BY <2>9, <2>10
<1> QED
  BY <1>1, <1>7, <1>8, <1>9

LEMMA GrowStep ==
    ASSUME GroupInv, GroupNext, NEW t \in Other, Len(vals'[t]) > Len(vals[t])
    PROVE  \E x \in Value(rule.op) : vals' = [vals EXCEPT ![t] = Append(vals[t], x)]
<1>1. PICK u \in Type : \E s : vals' = [vals EXCEPT ![u] = s] /\ (Joined(u, s) \/ Corrected(u, s) \/ Dropped(u, s))
  BY GroupSteps
<1>2. PICK s : vals' = [vals EXCEPT ![u] = s] /\ (Joined(u, s) \/ Corrected(u, s) \/ Dropped(u, s))
  BY <1>1
<1> DEFINE old == vals[u]
           V == Value(rule.op)
<1>3. vals \in [Type -> Seq(V)] /\ t \in Type
  BY DEF GroupInv, Type
<1>4. vals'[u] = s /\ \A v \in Type : v # u => vals'[v] = vals[v]
  BY <1>2, <1>3
<1>5. t = u
  <2>1. Len(vals[t]) \in Nat
    BY <1>3
  <2> QED
    BY <1>3, <1>4, <2>1
<1>6. old \in Seq(V) /\ Len(old) \in Nat /\ Len(s) > Len(old)
  BY <1>3, <1>4, <1>5
<1>7. ~Corrected(u, s)
  <2> SUFFICES ASSUME NEW x \in V, NEW j \in DOMAIN old, s = [old EXCEPT ![j] = x] PROVE FALSE
    BY DEF Corrected
  <2> HIDE DEF old, V
  <2>1. Len(s) = Len(old)
    BY <1>6
  <2> QED
    BY <1>6, <2>1
<1>8. ~Dropped(u, s)
  <2> SUFFICES ASSUME NEW j \in DOMAIN old, s = RemoveAt(old, j) PROVE FALSE
    BY DEF Dropped
  <2> HIDE DEF old, V
  <2>1. Len(s) = Len(old) - 1
    BY <1>6, Shorter
  <2> QED
    BY <1>6, <2>1
<1> QED
  BY <1>2, <1>5, <1>7, <1>8 DEF Joined

(* Where amounts are not negative, one more document never turns a rule    *)
(* that holds documents against their contract from a fail into a pass.    *)
THEOREM DocumentsDoNotCure ==
    ASSUME Measured, Number \subseteq Nat
    PROVE  GroupSpec => GrowNeverCures
<1> DEFINE Grows == rule.op \in FieldOps /\ rule.b = Anchor /\ (\E t \in Other : Len(vals'[t]) > Len(vals[t])) /\ Eval(vals) = "fail"
<1>1. ASSUME GroupInv, GroupInv', [GroupNext]_groupVars, Grows PROVE Eval(vals)' # "pass"
  <2>1. PICK t \in Other : Len(vals'[t]) > Len(vals[t])
    BY <1>1
  <2>2. GroupNext
    <3> SUFFICES ASSUME UNCHANGED groupVars PROVE FALSE
      BY <1>1
    <3>1. Len(vals[t]) \in Nat
      BY <1>1 DEF GroupInv, Type
    <3> QED
      BY <2>1, <3>1 DEF groupVars
  <2>3. rule' = rule
    BY <1>1, <2>2, GroupSteps
  <2>4. rule \in Rules /\ vals \in Groups /\ Value(rule.op) = Number \cup {Missing}
    BY <1>1, GroupMeasured
  <2>5. PICK x \in Number \cup {Missing} : vals' = [vals EXCEPT ![t] = Append(vals[t], x)]
    BY <1>1, <2>1, <2>2, <2>4, GrowStep
  <2>6. vals' \in Groups
    BY <1>1, <2>3, <2>4 DEF GroupInv, Groups
  <2>7. EvalOf(rule, vals) = "fail"
    BY <1>1, <2>4, EvalIs
  <2>8. Eval(vals)' = EvalOf(rule, vals')
    <3>1. rule' \in Rules
      BY <2>3, <2>4
    <3>2. Eval(vals)' = EvalOf(rule', vals')
      BY <3>1, EvalNextIs
    <3> QED
      BY <2>3, <3>2
  <2>9. EvalOf(rule, vals') # "pass"
    BY <1>1, <2>4, <2>5, <2>6, <2>7, GrowKeeps
  <2> QED
    BY <2>8, <2>9
<1>2. GroupInv /\ GroupInv' /\ [GroupNext]_groupVars => [Grows => Eval(vals)' # "pass"]_groupVars
  BY <1>1
<1> QED
  BY <1>2, GroupAlways, PTL DEF GroupSpec, GrowNeverCures

(* What was found without the values and documents that come later is not  *)
(* reversed by them.                                                       *)
THEOREM VerdictsStand ==
    ASSUME Measured, Number \subseteq Nat
    PROVE  GroupSpec => VerdictStands
<1> QED
  BY MissingValuesDecideNothing, DocumentsDoNotCure DEF VerdictStands
=================================================================================
