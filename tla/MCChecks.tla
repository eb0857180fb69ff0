------------------------------- MODULE MCChecks --------------------------------
(* What the formulas may say of one document and of the contracts.         *)
EXTENDS Checks, TLC

CONSTANTS c1, c2

MCTwoSteps == <<"formula", "formula">>
MCThreeSteps == <<"formula", "formula", "formula">>
MCThenAI == <<"formula", "ai">>
MCAll == World

(* What three steps may say, of which the last holds for all contracts,    *)
(* for none, or for all but one.                                           *)
MCThree ==
    LET step == [Contract -> Verdict]
        last == {[c \in Contract |-> v] : v \in {"pass", "fail"}} \cup {[c \in Contract |-> IF c = c1 THEN "fail" ELSE "pass"]}
    IN  {[d \in Doc |-> <<x, y, z>>] : x \in step, y \in step, z \in last}

(* The formula holds for one contract, or for both, or cannot tell; the    *)
(* step of the AI has no formula.                                          *)
MCSome ==
    LET first(x, y) == [d \in Doc |-> <<(c1 :> x @@ c2 :> y), (c1 :> "unknown" @@ c2 :> "unknown")>>]
    IN  {first("pass", "fail"), first("fail", "pass"), first("pass", "pass")}
==============================================================================
