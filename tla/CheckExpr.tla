------------------------------ MODULE CheckExpr --------------------------------
(***************************************************************************)
(* The formulas of the cross-checks: three-valued evaluation over the      *)
(* documents of one contract, the formulas the server builds for rules     *)
(* chosen field by field, and the rows of their outcome                    *)
(* (checkexpr/eval.go, service/sheets/checks.go).                          *)
(*                                                                         *)
(* A formula is written here with the operators below, one per function of *)
(* the language; parsing is not modelled.  Amounts and dates are integers, *)
(* texts are compared by their key; notes, references and labels are left  *)
(* out.  The group changes as users correct values and link documents.     *)
(***************************************************************************)
EXTENDS Integers, Sequences, FiniteSets, SequencesExt

CONSTANTS
    Anchor,        \* the type of the contract of the group
    Other,         \* the types of its documents
    Ops,           \* comparisons and sentences in use
    Text,          \* values of a text field
    Inside,        \* <<a, b>> when a contains b (textutil.ValueIn)
    Number,        \* values of an amount or a date
    Missing,       \* no value, or one that cannot be read
    MaxDocs        \* bound: documents of one type in the group

Type == Other \cup {Anchor}
TextOps == {"same", "contains", "diff"}
FieldOps == TextOps \cup {"eq", "le", "ge", "before", "after", "same_day", "sum_le"}
Sentences == {"within", "chain", "delivered"}

ASSUME CheckExprAssumption ==
    /\ Anchor \notin Other /\ Other # {} /\ MaxDocs \in Nat
    /\ Ops \subseteq FieldOps \cup Sentences
    /\ Inside \subseteq Text \X Text /\ \A x \in Text : <<x, x>> \in Inside
    /\ Number \subseteq Int /\ Missing \notin Text \cup Number

VARIABLES
    rule,          \* the rule: its comparison and the types of its two fields
    vals           \* the values of the field of each document of the group

groupVars == <<rule, vals>>

-----------------------------------------------------------------------------
(* Values.  A list holds no lists.                                         *)

Unknown == [k |-> "unknown"]
Num(n) == [k |-> "num", n |-> n]
Str(s) == [k |-> "str", s |-> s]
Bool(b) == [k |-> "bool", b |-> b]
List(l) == [k |-> "list", l |-> l]

(* The status of a value; a list passes when every item does.              *)
ItemVerdict(v) ==
    CASE v.k = "bool" -> IF v.b THEN "pass" ELSE "fail"
      [] v.k = "unknown" -> "unknown"
      [] OTHER -> "error"

(* Mutant: items that miss a value are left out.                           *)
Outcome_Known(v) ==
    LET found == {ItemVerdict(v.l[i]) : i \in DOMAIN v.l}
    IN  IF v.k # "list" THEN ItemVerdict(v)
        ELSE IF "fail" \in found THEN "fail" ELSE IF "pass" \in found THEN "pass" ELSE "unknown"

Outcome(v) ==
    LET found == {ItemVerdict(v.l[i]) : i \in DOMAIN v.l}
    IN  IF v.k # "list" THEN ItemVerdict(v)
        ELSE IF "error" \in found THEN "error" ELSE IF "fail" \in found THEN "fail"
        ELSE IF found = {"pass"} THEN "pass" ELSE "unknown"

(* Mutant: what is not known is false.                                     *)
Logic_False(op, l, r) ==
    LET both == {Outcome(l), Outcome(r)}
    IN  Bool(IF op = "and" THEN both = {"pass"} ELSE "pass" \in both)

(* AND and OR: false AND unknown is false, true OR unknown is true.        *)
Logic(op, l, r) ==
    LET both == {Outcome(l), Outcome(r)}
        strong == IF op = "and" THEN "fail" ELSE "pass"
    IN  IF strong \in both THEN Bool(op = "or")
        ELSE IF both \subseteq {"pass", "fail"} THEN Bool(op = "and") ELSE Unknown

Each(v, F(_)) == IF v.k = "list" THEN List([i \in DOMAIN v.l |-> F(v.l[i])]) ELSE F(v)
Not(v) == Each(v, LAMBDA x : IF x.k = "bool" THEN Bool(~x.b) ELSE x)

(* A list against one value goes item by item, two lists of one length     *)
(* pairwise.                                                               *)
Broadcast2(l, r, F(_, _)) ==
    LET item(a, b) == IF Unknown \in {a, b} THEN Unknown ELSE F(a, b)
    IN  CASE l.k = "list" /\ r.k = "list" -> IF Len(l.l) = Len(r.l) THEN List([i \in DOMAIN l.l |-> item(l.l[i], r.l[i])]) ELSE Unknown
          [] l.k # "list" /\ r.k = "list" -> Each(r, LAMBDA b : item(l, b))
          [] OTHER -> Each(l, LAMBDA a : item(a, r))

Holds(op, x, y) ==
    CASE op = "=" -> x = y [] op = "<=" -> x <= y [] op = ">=" -> x >= y [] op = ">" -> x > y

(* Only numbers and dates have an order.                                   *)
Compare(op, a, b) ==
    Broadcast2(a, b, LAMBDA x, y : IF x.k = "num" /\ y.k = "num" THEN Bool(Holds(op, x.n, y.n))
                                   ELSE IF op = "=" THEN Bool(x = y) ELSE Unknown)

Plus(a, b) == Broadcast2(a, b, LAMBDA x, y : IF x.k = "num" /\ y.k = "num" THEN Num(x.n + y.n) ELSE Unknown)

-----------------------------------------------------------------------------
(* Functions of the language.                                              *)

Items(v) == IF v.k = "list" THEN v.l ELSE <<v>>
Known(items) == SelectSeq(items, LAMBDA x : x # Unknown)

Total(items) ==
    LET upTo[i \in 0..Len(items)] == IF i = 0 THEN 0 ELSE upTo[i - 1] + items[i].n
    IN  upTo[Len(items)]

(* Mutant: a value that is missing counts for nothing.                     *)
Sum_Known(v) == Num(Total(Known(Items(v))))

Sum(v) == IF \E i \in DOMAIN Items(v) : Items(v)[i].k # "num" THEN Unknown ELSE Num(Total(Items(v)))

Count(v) == Num(Len(Known(Items(v))))

Same(a, b) ==
    LET known == Known(Items(a) \o Items(b))
    IN  IF Len(known) < 2 THEN Unknown ELSE Bool(Cardinality(ToSet(known)) = 1)

(* CONTAINS: a list matches when any item does.  A pair counts once for    *)
(* each value it misses.                                                   *)
MatchAny(a, b) ==
    LET xs == Items(a)
        ys == Items(b)
        pairs == (DOMAIN xs) \X (DOMAIN ys)
        missing == {<<p, "a">> : p \in {q \in pairs : xs[q[1]] = Unknown}} \cup {<<p, "b">> : p \in {q \in pairs : ys[q[2]] = Unknown}}
        known == {p \in pairs : Unknown \notin {xs[p[1]], ys[p[2]]}}
    IN  IF \E p \in known : <<xs[p[1]].s, ys[p[2]].s>> \in Inside THEN Bool(TRUE)
        ELSE IF missing # {} /\ Cardinality(missing) = Cardinality(pairs) THEN Unknown ELSE Bool(FALSE)

(* BETWEEN: the bounds are single values.                                  *)
Between(v, lo, hi) ==
    Broadcast2(v, Str("bounds"), LAMBDA x, bounds :
        LET ge == Compare(">=", x, lo)
            le == Compare("<=", x, hi)
        IN  IF {ge.k, le.k} # {"bool"} THEN Unknown ELSE Bool(ge.b /\ le.b))

(* IF without a third argument holds when its condition does not.          *)
If(cond, then) ==
    CASE Outcome(cond) = "pass" -> then
      [] Outcome(cond) = "fail" -> Bool(TRUE)
      [] OTHER -> Unknown

-----------------------------------------------------------------------------
(* Reading the documents of the group.                                     *)

Field(x) == IF x = Missing THEN Unknown ELSE IF rule.op \in TextOps THEN Str(x) ELSE Num(x)

(* type.key: one value for the contract, a list for any other type.        *)
Member(docs, t) ==
    IF t = Anchor THEN Field(docs[t][1]) ELSE List([i \in DOMAIN docs[t] |-> Field(docs[t][i])])

SumOf(counts) == FoldSet(LAMBDA t, n : Plus(n, counts[t]), Num(0), Other)

(* A type on its own lists its documents.                                  *)
Documents(docs, t) == List([i \in DOMAIN docs[t] |-> Str("document")])

(* ruleFormula, and sentences of earlier versions kept with their formula: *)
(* BETWEEN(a, b, 2), SUM(a) <= b AND b <= SUM(a), and                      *)
(* IF(b = 1, COUNT(every other type) > 0).                                 *)
Formula(docs) ==
    LET a == Member(docs, rule.a)
        b == Member(docs, rule.b)
    IN  CASE rule.op \in {"eq", "same_day"} -> Compare("=", a, b)
          [] rule.op = "same" -> Same(a, b)
          [] rule.op = "diff" -> Not(Same(a, b))
          [] rule.op = "contains" -> MatchAny(a, b)
          [] rule.op \in {"le", "before"} -> Compare("<=", a, b)
          [] rule.op \in {"ge", "after"} -> Compare(">=", a, b)
          [] rule.op = "sum_le" -> Compare("<=", Sum(a), IF rule.b = Anchor THEN b ELSE Sum(b))
          [] rule.op = "within" -> Between(a, b, Num(2))
          [] rule.op = "chain" -> Logic("and", Compare("<=", Sum(a), Sum(b)), Compare("<=", Sum(b), Sum(a)))
          [] rule.op = "delivered" -> If(Compare("=", b, Num(1)),
                Compare(">", SumOf([t \in Other |-> Count(Documents(docs, t))]), Num(0)))

Eval(docs) == Outcome(Formula(docs))

(* comparison: the rule on one document of side A alone.                   *)
RowStatus(i) == IF rule.a = Anchor THEN Eval(vals) ELSE Eval([vals EXCEPT ![rule.a] = <<vals[rule.a][i]>>])

Rows == {RowStatus(i) : i \in DOMAIN vals[rule.a]}

-----------------------------------------------------------------------------
(* The group.                                                              *)

Value(op) == (IF op \in TextOps THEN Text ELSE Number) \cup {Missing}

GroupInit ==
    /\ rule \in [op : Ops, a : Type, b : Type]
    /\ \E x \in Value(rule.op) : vals = [[t \in Type |-> <<>>] EXCEPT ![Anchor] = <<x>>]

(* A user gives, corrects or clears the value of a document.               *)
CorrectValue(t, i, x) ==
    /\ i \in DOMAIN vals[t] /\ vals[t][i] # x
    /\ vals' = [vals EXCEPT ![t][i] = x]
    /\ UNCHANGED rule

(* A document joins the group, or leaves it.                               *)
Join(t, x) ==
    /\ t \in Other /\ Len(vals[t]) < MaxDocs
    /\ vals' = [vals EXCEPT ![t] = Append(@, x)]
    /\ UNCHANGED rule

Leave(t, i) ==
    /\ t \in Other /\ i \in DOMAIN vals[t]
    /\ vals' = [vals EXCEPT ![t] = RemoveAt(@, i)]
    /\ UNCHANGED rule

GroupNext ==
    \E t \in Type :
        \/ \E x \in Value(rule.op) : Join(t, x) \/ \E i \in 1..MaxDocs + 1 : CorrectValue(t, i, x)
        \/ \E i \in 1..MaxDocs : Leave(t, i)

GroupSpec == GroupInit /\ [][GroupNext]_groupVars

-----------------------------------------------------------------------------
(* Properties.                                                             *)

(* Every value the rule reads is there.                                    *)
Complete == \A t \in {rule.a, rule.b} : Missing \notin ToSet(vals[t])

GroupTypeOK ==
    /\ rule \in [op : Ops, a : Type, b : Type]
    /\ \A t \in Type : Len(vals[t]) <= MaxDocs + 1 /\ ToSet(vals[t]) \subseteq Value(rule.op)
    /\ Len(vals[Anchor]) = 1

(* A value that is missing makes the outcome of a rule on two fields       *)
(* unknown, or a fail, never a pass.                                       *)
PassMeansComplete == rule.op \in FieldOps /\ Eval(vals) = "pass" => Complete

(* Where no value is there, a rule on two fields has nothing to go by: its *)
(* outcome is unknown (Eval, "not enough information").                    *)
NothingKnown ==
    rule.op \in FieldOps /\ rule.a # rule.b /\ (\A t \in {rule.a, rule.b} : ToSet(vals[t]) = {Missing}) => Eval(vals) = "unknown"

(* "The page can say which document is wrong" (CheckRow): a rule that      *)
(* fails has a row that fails.                                             *)
FailHasRow == rule.op \in FieldOps \ {"sum_le"} /\ Eval(vals) = "fail" => "fail" \in Rows

(* The rows of a rule between the contract and its documents add up to the *)
(* outcome: it passes when each of them does, and fails when one does.     *)
RowsAddUp ==
    /\ GroupTypeOK
    /\ rule.op \in FieldOps \ {"sum_le"} /\ Anchor \in {rule.a, rule.b} /\ Rows # {} =>
          /\ Eval(vals) = "pass" <=> Rows = {"pass"}
          /\ Eval(vals) = "fail" <=> "fail" \in Rows

(* A missing value that is filled in never turns a pass into a fail or a   *)
(* fail into a pass: an outcome given without it did not depend on it.     *)
FillNeverFlips ==
    [][(\E t \in Type : Len(vals'[t]) = Len(vals[t]) /\ \E i \in DOMAIN vals[t] : vals[t][i] = Missing /\ vals'[t][i] # Missing)
       => {Eval(vals), Eval(vals)'} # {"pass", "fail"}]_groupVars

(* One more document never turns a rule that holds the documents of a      *)
(* contract against it from a fail into a pass.                            *)
GrowNeverCures ==
    [][rule.op \in FieldOps /\ rule.b = Anchor /\ (\E t \in Other : Len(vals'[t]) > Len(vals[t])) /\ Eval(vals) = "fail"
       => Eval(vals)' # "pass"]_groupVars

(* What was found wrong, or right, without the values and documents that   *)
(* come later is not reversed by them.                                     *)
VerdictStands == FillNeverFlips /\ GrowNeverCures
==============================================================================
