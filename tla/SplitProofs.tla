------------------------------- MODULE SplitProofs -------------------------------
(***************************************************************************)
(* Theorems about Split, for any files, layouts, reviews and bounds: a     *)
(* page is in one document and a saved split stays whole, whatever         *)
(* proposals, saves and automatic confirmations follow each other; and, in *)
(* the quiet case, what the user split stands and the screens show what    *)
(* there is.                                                               *)
(***************************************************************************)
EXTENDS Split, FiniteSetTheorems, WellFoundedInduction, TLAPS

-----------------------------------------------------------------------------
(* Types.                                                                  *)

Labels == Label \cup {Unknown, Other}
Segment == [file : File, gen : 1..MaxGen, from : Page, to : Page, label : Labels,
            src : {"user", "image", "titles"}, code : 0..(Files * N)]
Placed == [file : File, from : Page, to : Page, label : Labels, code : Nat]
Trees == [Page -> {<<>>, <<Unknown>>} \cup (Page \X Page \X Labels)]
DocRow == [gen : 1..MaxGen, indexed : BOOLEAN, reviewed : BOOLEAN,
           classify : {"none", "running", "done", "failed"}, layout : Layout, unbuilt : BOOLEAN]
ProcRow == [kind : {"tree", "auto", "save", "ask", "classify"}, id : Nat, file : File, gen : Nat, read : 1..MaxGen,
            pc : {"spans", "propose", "reread", "store", "append", "confirm", "save", "next", "start", "model", "queue"},
            try : 0..MaxTry, plan : SUBSET (Placed \cup Spans), at : Trees, todo : SUBSET File]

(* Documents of one file that share no page.                               *)
Apart(S) == \A g, h \in S : g.file = h.file /\ g # h => ~Overlap(g, h)
Runs(S) == \A g \in S : g.from <= g.to

(* A plan that a save may have: a whole split of each of its files.        *)
PlanSound(plan) ==
    /\ plan \subseteq Placed /\ Runs(plan) /\ Apart(plan)
    /\ \A s \in plan : \A n \in Page : \E t \in plan : t.file = s.file /\ n \in t.from..t.to
    /\ \A s \in plan : s.label # Unknown

OfFile(S, f) == {g \in S : g.file = f}

(* The user's documents of a file in a generation, whole or none.          *)
Mine(S, f, gen) == {g \in S : g.file = f /\ g.gen = gen /\ g.src = "user"}
Whole(S, f, gen) ==
    Mine(S, f, gen) # {} =>
        /\ \A n \in Page : \E g \in Mine(S, f, gen) : n \in g.from..g.to
        /\ \A g \in Mine(S, f, gen) : g.code # 0

SegsSound(S) ==
    /\ S \subseteq Segment /\ Runs(S) /\ \A g \in S : g.src = "user" => g.label # Unknown
    /\ \A g, h \in S : g.file = h.file /\ g.gen = h.gen /\ g # h => ~Overlap(g, h)
    /\ \A f \in File, gen \in 1..MaxGen : Whole(S, f, gen)

Reading == {"propose", "reread", "store", "model"}
ProcSound(p) ==
    /\ p \in ProcRow
    /\ p.kind \in {"tree", "auto"} => p.id \in File
    /\ p.pc \in {"append", "confirm"} => p.kind = "tree"
    /\ p.pc = "save" => PlanSound(p.plan)
    /\ p.pc = "propose" => p.plan \in Layout

SplitInv ==
    /\ doc \in [File -> DocRow] /\ tree \in [File -> Trees] /\ used \in [req : Nat, crash : Nat]
    /\ SegsSound(segs)
    /\ \A p \in procs : ProcSound(p)

-----------------------------------------------------------------------------
(* Numbers.                                                                *)

LEMMA Sizes == N \in Nat \ {0} /\ Files \in Nat \ {0} /\ MaxTry \in Nat /\ MaxGen \in Nat \ {0}
BY SplitAssumption

LEMMA Smallest ==
    ASSUME NEW T \in SUBSET Nat, T # {}
    PROVE  \E n \in T : \A m \in T : n <= m
<1>1. PICK n \in T : \A m \in T : ~(<<m, n>> \in OpToRel(<, Nat))
  BY NatLessThanWellFounded, WFMin
<1>2. \A m \in T : ~(m < n)
  BY <1>1 DEF OpToRel
<1> QED
  BY <1>2

LEMMA Largest ==
    ASSUME NEW K \in Nat, NEW T \in SUBSET (0..K), T # {}
    PROVE  \E n \in T : \A m \in T : m <= n
<1>1. PICK U : U = {K - m : m \in T}
  OBVIOUS
<1>2. U \subseteq Nat /\ U # {}
  <2>1. \A m \in T : K - m \in Nat
    OBVIOUS
  <2> QED
    BY <1>1, <2>1
<1>3. PICK k \in U : \A u \in U : k <= u
  BY <1>2, Smallest
<1>4. PICK n \in T : k = K - n
  BY <1>1
<1>5. \A m \in T : m <= n
  <2> SUFFICES ASSUME NEW m \in T PROVE m <= n
    OBVIOUS
  <2>1. K - n <= K - m
    BY <1>1, <1>3, <1>4
  <2> QED
    BY <2>1
<1> QED
  BY <1>5

(* Documents stand in a line: of some of them, one is the first and one    *)
(* the last.                                                               *)
Spot(g) == g.file \in File /\ g.from \in Page

LEMMA FirstOf ==
    ASSUME NEW S, S # {}, \A g \in S : Spot(g)
    PROVE  \E g \in S : \A h \in S : ~Before(h, g)
<1>1. PICK F : F = {g.file : g \in S}
  OBVIOUS
<1>2. F \subseteq Nat /\ F # {}
  BY <1>1 DEF Spot, File
<1>3. PICK f \in F : \A k \in F : f <= k
  BY <1>2, Smallest
<1>4. PICK P : P = {g.from : g \in {h \in S : h.file = f}}
  OBVIOUS
<1>5. P \subseteq Nat /\ P # {}
  BY <1>1, <1>3, <1>4 DEF Spot, Page
<1>6. PICK n \in P : \A k \in P : n <= k
  BY <1>5, Smallest
<1>7. PICK g \in S : g.file = f /\ g.from = n
  BY <1>4, <1>6
<1>8. ASSUME NEW h \in S PROVE ~Before(h, g)
  <2>1. f <= h.file /\ h.file \in Nat /\ f \in Nat
    BY <1>1, <1>2, <1>3
  <2>2. h.file = f => n <= h.from /\ h.from \in Nat /\ n \in Nat
    BY <1>4, <1>5, <1>6
  <2> QED
    BY <1>7, <2>1, <2>2 DEF Before
<1> QED
  BY <1>8

LEMMA LastOf ==
    ASSUME NEW S, S # {}, \A g \in S : Spot(g)
    PROVE  \E g \in S : \A h \in S : ~Before(g, h)
<1>1. PICK F : F = {g.file : g \in S}
  OBVIOUS
<1>2. F \subseteq 0..Files /\ F # {} /\ Files \in Nat
  BY <1>1, Sizes DEF Spot, File
<1>3. PICK f \in F : \A k \in F : k <= f
  BY <1>2, Largest
<1>4. PICK P : P = {g.from : g \in {h \in S : h.file = f}}
  OBVIOUS
<1>5. P \subseteq 0..N /\ P # {} /\ N \in Nat
  BY <1>1, <1>3, <1>4, Sizes DEF Spot, Page
<1>6. PICK n \in P : \A k \in P : k <= n
  BY <1>5, Largest
<1>7. PICK g \in S : g.file = f /\ g.from = n
  BY <1>4, <1>6
<1>8. ASSUME NEW h \in S PROVE ~Before(g, h)
  <2>1. h.file <= f /\ h.file \in Nat /\ f \in Nat
    BY <1>1, <1>2, <1>3
  <2>2. h.file = f => h.from <= n /\ h.from \in Nat /\ n \in Nat
    BY <1>4, <1>5, <1>6
  <2> QED
    BY <1>7, <2>1, <2>2 DEF Before
<1> QED
  BY <1>8

-----------------------------------------------------------------------------
(* What the pipeline proposes.                                             *)

LEMMA LayoutFacts ==
    ASSUME NEW L \in Layout \cup Review
    PROVE  L \subseteq Spans /\ \A s, t \in L : s.from <= s.to /\ (s = t \/ s.to < t.from \/ t.to < s.from)
BY SplitAssumption

LEMMA SpanType ==
    ASSUME NEW s \in Spans
    PROVE  s.from \in Page /\ s.to \in Page /\ s.label \in Labels /\ s.from \in Int /\ s.to \in Int
BY Sizes DEF Spans, Labels, Page

(* Proposals leave the user's documents of their generation, and take      *)
(* those of any other generation of the file.                              *)
LEMMA ProposedSound ==
    ASSUME SegsSound(segs), NEW f \in File, NEW gen \in 1..MaxGen, NEW layout \in Layout, NEW src \in {"image", "titles"},
           NEW S, S = Proposed(f, gen, layout, src)
    PROVE  /\ SegsSound(S)
           /\ \A h \in File, k \in 1..MaxGen : Mine(S, h, k) = IF h = f /\ k # gen THEN {} ELSE Mine(segs, h, k)
<1>1. PICK mine : mine = {g \in segs : g.file = f /\ g.gen = gen /\ g.src = "user"}
  OBVIOUS
<1>2. PICK new : new = {[file |-> f, gen |-> gen, from |-> s.from, to |-> s.to, label |-> s.label, src |-> src, code |-> 0] :
                           s \in {s \in layout : ~\E u \in mine : Overlap(u, s)}}
  OBVIOUS
<1>3. S = {g \in segs : g.file # f} \cup mine \cup new
  BY <1>1, <1>2 DEF Proposed
<1>4. ASSUME NEW g \in new
      PROVE  \E s \in layout : /\ g.from = s.from /\ g.to = s.to /\ g.label = s.label /\ \A u \in mine : ~Overlap(u, g)
                               /\ g = [file |-> f, gen |-> gen, from |-> s.from, to |-> s.to, label |-> s.label, src |-> src, code |-> 0]
  <2>1. PICK s \in layout : /\ \A u \in mine : ~Overlap(u, s)
                            /\ g = [file |-> f, gen |-> gen, from |-> s.from, to |-> s.to, label |-> s.label, src |-> src, code |-> 0]
    BY <1>2
  <2>2. g.from = s.from /\ g.to = s.to /\ g.label = s.label
    BY <2>1
  <2>3. \A u \in mine : ~Overlap(u, g)
    BY <2>1, <2>2 DEF Overlap
  <2> QED
    BY <2>1, <2>2, <2>3
<1>5. \A g \in new : g.file = f /\ g.gen = gen /\ g.src = src /\ g.code = 0
  BY <1>4
<1>6. new \subseteq Segment /\ Runs(new)
  <2> SUFFICES ASSUME NEW g \in new PROVE g \in Segment /\ g.from <= g.to
    BY DEF Runs
  <2>1. PICK s \in layout : g.from = s.from /\ g.to = s.to /\ g = [file |-> f, gen |-> gen, from |-> s.from, to |-> s.to, label |-> s.label, src |-> src, code |-> 0]
    BY <1>4
  <2>2. s \in Spans /\ s.from <= s.to
    BY LayoutFacts
  <2>3. 0 \in 0..(Files * N)
    BY Sizes
  <2> QED
    BY <2>1, <2>2, <2>3, SpanType DEF Segment
<1>7. \A g, h \in new : g # h => ~Overlap(g, h)
  <2> SUFFICES ASSUME NEW g \in new, NEW h \in new, g # h PROVE ~Overlap(g, h)
    OBVIOUS
  <2>1. PICK s \in layout : g.from = s.from /\ g.to = s.to /\ g = [file |-> f, gen |-> gen, from |-> s.from, to |-> s.to, label |-> s.label, src |-> src, code |-> 0]
    BY <1>4
  <2>2. PICK t \in layout : h.from = t.from /\ h.to = t.to /\ h = [file |-> f, gen |-> gen, from |-> t.from, to |-> t.to, label |-> t.label, src |-> src, code |-> 0]
    BY <1>4
  <2>3. s # t /\ s \in Spans /\ t \in Spans
    BY <2>1, <2>2, LayoutFacts
  <2>4. s.to < t.from \/ t.to < s.from
    BY <2>3, LayoutFacts
  <2> QED
    BY <2>1, <2>2, <2>3, <2>4, SpanType DEF Overlap
<1>8. \A g \in mine, h \in new : ~Overlap(g, h) /\ ~Overlap(h, g)
  <2> SUFFICES ASSUME NEW g \in mine, NEW h \in new PROVE ~Overlap(g, h) /\ ~Overlap(h, g)
    OBVIOUS
  <2>1. ~Overlap(g, h)
    BY <1>4
  <2>2. g \in Segment /\ h \in Segment
    BY <1>1, <1>6 DEF SegsSound
  <2>3. g.from \in Int /\ g.to \in Int /\ h.from \in Int /\ h.to \in Int
    BY <2>2, Sizes DEF Segment, Page
  <2> QED
    BY <2>1, <2>3 DEF Overlap
<1>9. S \subseteq Segment /\ Runs(S) /\ \A g \in S : g.src = "user" => g.label # Unknown
  BY <1>1, <1>3, <1>5, <1>6 DEF SegsSound, Runs
<1>10. \A g, h \in S : g.file = h.file /\ g.gen = h.gen /\ g # h => ~Overlap(g, h)
  <2> SUFFICES ASSUME NEW g \in S, NEW h \in S, g.file = h.file, g.gen = h.gen, g # h PROVE ~Overlap(g, h)
    OBVIOUS
  <2>1. CASE g \in segs /\ h \in segs
    BY <2>1 DEF SegsSound
  <2>2. CASE g \in new /\ h \in new
    BY <1>7, <2>2
  <2>3. CASE (g \in new /\ h \in segs) \/ (g \in segs /\ h \in new)
    <3>1. g.file = f /\ h.file = f
      BY <1>5, <2>3
    <3>2. (g \in new /\ h \in mine) \/ (g \in mine /\ h \in new) \/ (g \in new /\ h \in new)
      BY <1>1, <1>3, <2>3, <3>1
    <3> QED
      BY <1>7, <1>8, <3>2
  <2> QED
    BY <1>1, <1>3, <2>1, <2>2, <2>3
<1>11. \A h \in File, k \in 1..MaxGen : Mine(S, h, k) = IF h = f /\ k # gen THEN {} ELSE Mine(segs, h, k)
  BY <1>1, <1>3, <1>5 DEF Mine
<1>12. \A h \in File, k \in 1..MaxGen : Whole(S, h, k)
  <2> SUFFICES ASSUME NEW h \in File, NEW k \in 1..MaxGen PROVE Whole(S, h, k)
    OBVIOUS
  <2>1. Mine(S, h, k) = {} \/ Mine(S, h, k) = Mine(segs, h, k)
    BY <1>11
  <2>2. Whole(segs, h, k)
    BY DEF SegsSound
  <2> QED
    BY <2>1, <2>2 DEF Whole
<1> QED
  BY <1>9, <1>10, <1>11, <1>12 DEF SegsSound

-----------------------------------------------------------------------------
(* What a save makes of its plan.                                          *)

LEMMA PlacedType ==
    ASSUME NEW s \in Placed
    PROVE  /\ s.file \in File /\ s.from \in Page /\ s.to \in Page /\ s.label \in Labels /\ s.code \in Nat
           /\ s.from \in Int /\ s.to \in Int /\ s.file \in Int /\ s.code \in Int
BY Sizes DEF Placed, Page, File

(* There are no more documents than the files have pages.                  *)
LEMMA PlanSize ==
    ASSUME NEW plan, plan \subseteq Placed, Runs(plan), Apart(plan)
    PROVE  IsFiniteSet(plan) /\ Cardinality(plan) <= Files * N /\ Cardinality(plan) \in Nat
<1>1. PICK f : f = [s \in plan |-> <<s.file, s.from>>]
  OBVIOUS
<1>2. PICK T : T = File \X Page
  OBVIOUS
<1>3. IsFiniteSet(File) /\ Cardinality(File) = Files /\ IsFiniteSet(Page) /\ Cardinality(Page) = N
  BY Sizes, FS_Interval DEF File, Page
<1>4. IsFiniteSet(T) /\ Cardinality(T) = Files * N
  BY <1>2, <1>3, FS_Product
<1>5. f \in [plan -> T]
  BY <1>1, <1>2, PlacedType
<1>6. ASSUME NEW s \in plan, NEW t \in plan, f[s] = f[t] PROVE s = t
  <2>1. s.file = t.file /\ s.from = t.from
    BY <1>1, <1>6
  <2>2. Overlap(s, t)
    BY <2>1, PlacedType DEF Overlap, Runs
  <2> QED
    BY <2>1, <2>2 DEF Apart
<1>7. f \in Injection(plan, T)
  BY <1>5, <1>6 DEF Injection, IsInjective
<1>8. IsFiniteSet(plan) /\ Cardinality(plan) <= Cardinality(T)
  BY <1>4, <1>7, FS_Injection
<1> QED
  BY <1>4, <1>8, FS_CardinalityType

LEMMA RankType ==
    ASSUME NEW plan, PlanSound(plan), NEW s \in plan
    PROVE  Rank(plan, s.code) \in 1..(Files * N)
<1>1. IsFiniteSet(plan) /\ Cardinality(plan) <= Files * N /\ Cardinality(plan) \in Nat
  BY PlanSize DEF PlanSound
<1>2. PICK A : A = {t \in plan : t.code <= s.code}
  OBVIOUS
<1>3. IsFiniteSet(A) /\ Cardinality(A) <= Cardinality(plan) /\ Cardinality(A) \in Nat
  BY <1>1, <1>2, FS_Subset, FS_CardinalityType
<1>4. PICK B : B = {t.code : t \in A}
  OBVIOUS
<1>5. IsFiniteSet(B) /\ Cardinality(B) <= Cardinality(A) /\ Cardinality(B) \in Nat
  <2>1. PICK f : f = [t \in A |-> t.code]
    OBVIOUS
  <2>2. f \in Surjection(A, B)
    BY <1>4, <2>1 DEF Surjection
  <2> QED
    BY <1>3, <2>2, FS_Surjection, FS_CardinalityType
<1>6. s.code \in B
  <2>1. s.code \in Int
    BY PlacedType DEF PlanSound
  <2> QED
    BY <1>2, <1>4, <2>1
<1>7. Cardinality(B) # 0
  BY <1>5, <1>6, FS_EmptySet
<1>8. Rank(plan, s.code) = Cardinality(B)
  BY <1>2, <1>4 DEF Rank
<1>9. Files * N \in Nat
  BY Sizes
<1> QED
  BY <1>1, <1>3, <1>5, <1>7, <1>8, <1>9


LEMMA SavedSound ==
    ASSUME SegsSound(segs), doc \in [File -> DocRow], NEW plan, PlanSound(plan), NEW S, S = Saved(plan)
    PROVE  /\ SegsSound(S)
           /\ \A h \in File \ Planned(plan) : OfFile(S, h) = OfFile(segs, h)
           /\ \A h \in Planned(plan) : Text(Mine(S, h, doc[h].gen)) = Text(OfFile(plan, h))
           /\ \A g \in S : g.file \in Planned(plan) => g.src = "user" /\ g.gen = doc[g.file].gen
           /\ \A h \in Planned(plan) : Mine(S, h, doc[h].gen) # {}
<1>1. PICK kept : kept = {g \in segs : g.file \notin Planned(plan)}
  OBVIOUS
<1>2. PICK new : new = {[file |-> s.file, gen |-> doc[s.file].gen, from |-> s.from, to |-> s.to, label |-> s.label,
                         src |-> "user", code |-> Rank(plan, s.code)] : s \in plan}
  OBVIOUS
<1>3. S = kept \cup new
  BY <1>1, <1>2 DEF Saved
<1>4. ASSUME NEW s \in plan, NEW g,
             g = [file |-> s.file, gen |-> doc[s.file].gen, from |-> s.from, to |-> s.to, label |-> s.label,
                  src |-> "user", code |-> Rank(plan, s.code)]
      PROVE  /\ g.file = s.file /\ g.gen = doc[g.file].gen /\ g.from = s.from /\ g.to = s.to /\ g.label = s.label
             /\ g.src = "user" /\ g.code \in 1..(Files * N) /\ g \in Segment /\ g.from <= g.to
  <2>1. Rank(plan, s.code) \in 1..(Files * N) /\ Rank(plan, s.code) \in 0..(Files * N)
    BY RankType, Sizes
  <2>2. s \in Placed /\ s.from <= s.to
    BY DEF PlanSound, Runs
  <2>3. doc[s.file].gen \in 1..MaxGen
    BY <2>2, PlacedType DEF DocRow
  <2> QED
    BY <1>4, <2>1, <2>2, <2>3, PlacedType DEF Segment
<1>5. ASSUME NEW g \in new
      PROVE  \E s \in plan : /\ g.file = s.file /\ g.gen = doc[g.file].gen /\ g.from = s.from /\ g.to = s.to /\ g.label = s.label
                             /\ g.src = "user" /\ g.code \in 1..(Files * N) /\ g \in Segment /\ g.from <= g.to
                             /\ g = [file |-> s.file, gen |-> doc[s.file].gen, from |-> s.from, to |-> s.to, label |-> s.label,
                                     src |-> "user", code |-> Rank(plan, s.code)]
  BY <1>2, <1>4
<1>6. ASSUME NEW s \in plan
      PROVE  \E g \in new : g.file = s.file /\ g.gen = doc[s.file].gen /\ g.from = s.from /\ g.to = s.to /\ g.label = s.label /\ g.src = "user"
  BY <1>2, <1>4
<1>7. \A g \in kept : g \in segs /\ g.file \notin Planned(plan)
  BY <1>1
<1>8. \A g \in new : g.file \in Planned(plan)
  BY <1>5 DEF Planned
<1>9. S \subseteq Segment /\ Runs(S)
  BY <1>3, <1>5, <1>7 DEF SegsSound, Runs
<1>17. \A g \in S : g.src = "user" => g.label # Unknown
  BY <1>3, <1>5, <1>7 DEF SegsSound, PlanSound
<1>10. \A g, h \in S : g.file = h.file /\ g.gen = h.gen /\ g # h => ~Overlap(g, h)
  <2> SUFFICES ASSUME NEW g \in S, NEW h \in S, g.file = h.file, g.gen = h.gen, g # h PROVE ~Overlap(g, h)
    OBVIOUS
  <2>1. CASE g \in kept /\ h \in kept
    BY <1>7, <2>1 DEF SegsSound
  <2>2. CASE g \in new /\ h \in new
    <3>1. PICK s \in plan : g.file = s.file /\ g.from = s.from /\ g.to = s.to
                            /\ g = [file |-> s.file, gen |-> doc[s.file].gen, from |-> s.from, to |-> s.to, label |-> s.label,
                                     src |-> "user", code |-> Rank(plan, s.code)]
      BY <1>5, <2>2
    <3>2. PICK t \in plan : h.file = t.file /\ h.from = t.from /\ h.to = t.to
                            /\ h = [file |-> t.file, gen |-> doc[t.file].gen, from |-> t.from, to |-> t.to, label |-> t.label,
                                     src |-> "user", code |-> Rank(plan, t.code)]
      BY <1>5, <2>2
    <3>3. s # t /\ s.file = t.file
      BY <3>1, <3>2
    <3>4. ~Overlap(s, t)
      BY <3>3 DEF PlanSound, Apart
    <3> QED
      BY <3>1, <3>2, <3>4 DEF Overlap
  <2> QED
    BY <1>3, <1>7, <1>8, <2>1, <2>2
<1>11. \A h \in File \ Planned(plan) : OfFile(S, h) = OfFile(segs, h)
  BY <1>1, <1>3, <1>8 DEF OfFile
<1>12. \A g \in S : g.file \in Planned(plan) => g \in new
  BY <1>3, <1>7
<1>13. ASSUME NEW h \in Planned(plan)
       PROVE  Text(Mine(S, h, doc[h].gen)) = Text(OfFile(plan, h))
  <2>1. \A g \in Mine(S, h, doc[h].gen) : \E s \in plan : s.file = h /\ <<g.from, g.to, g.label>> = <<s.from, s.to, s.label>>
    BY <1>5, <1>12 DEF Mine
  <2>2. \A s \in plan : s.file = h => \E g \in Mine(S, h, doc[h].gen) : <<g.from, g.to, g.label>> = <<s.from, s.to, s.label>>
    BY <1>3, <1>6 DEF Mine
  <2> QED
    BY <2>1, <2>2 DEF Text, OfFile
<1>14. ASSUME NEW h \in File, NEW k \in 1..MaxGen PROVE Whole(S, h, k)
  <2>1. CASE h \notin Planned(plan)
    <3>1. Mine(S, h, k) = Mine(segs, h, k)
      BY <1>11, <2>1 DEF Mine, OfFile
    <3> QED
      BY <3>1 DEF SegsSound, Whole
  <2>2. CASE h \in Planned(plan)
    <3> SUFFICES ASSUME Mine(S, h, k) # {}
                 PROVE  /\ \A n \in Page : \E g \in Mine(S, h, k) : n \in g.from..g.to
                        /\ \A g \in Mine(S, h, k) : g.code # 0
      BY DEF Whole
    <3>1. \A g \in Mine(S, h, k) : g \in new /\ g.file = h /\ g.gen = k
      BY <1>12, <2>2 DEF Mine
    <3>2. k = doc[h].gen
      BY <1>5, <3>1
    <3>3. \A g \in Mine(S, h, k) : g.code # 0
      BY <1>5, <3>1, Sizes
    <3>4. ASSUME NEW n \in Page PROVE \E g \in Mine(S, h, k) : n \in g.from..g.to
      <4>1. PICK s \in plan : s.file = h
        BY <2>2 DEF Planned
      <4>2. PICK t \in plan : t.file = h /\ n \in t.from..t.to
        BY <4>1 DEF PlanSound
      <4>3. PICK g \in new : g.file = t.file /\ g.gen = doc[t.file].gen /\ g.from = t.from /\ g.to = t.to /\ g.src = "user"
        BY <1>6
      <4> QED
        BY <1>3, <3>2, <4>2, <4>3 DEF Mine
    <3> QED
      BY <3>3, <3>4
  <2> QED
    BY <2>1, <2>2
<1>15. \A g \in S : g.file \in Planned(plan) => g.src = "user" /\ g.gen = doc[g.file].gen
  BY <1>5, <1>12
<1>16. ASSUME NEW h \in Planned(plan) PROVE Mine(S, h, doc[h].gen) # {}
  <2>1. PICK s \in plan : s.file = h
    BY DEF Planned
  <2>2. PICK g \in new : g.file = s.file /\ g.gen = doc[s.file].gen /\ g.src = "user"
    BY <1>6
  <2> QED
    BY <1>3, <2>1, <2>2 DEF Mine
<1> QED
  BY <1>9, <1>10, <1>11, <1>13, <1>14, <1>15, <1>16, <1>17 DEF SegsSound


-----------------------------------------------------------------------------
(* What the screen shows, and what confirming it would save.               *)

LEMMA SegmentType ==
    ASSUME NEW g \in Segment
    PROVE  /\ g.file \in File /\ g.gen \in 1..MaxGen /\ g.from \in Page /\ g.to \in Page /\ g.label \in Labels
           /\ g.code \in 0..(Files * N) /\ g.code \in Nat /\ g.from \in Int /\ g.to \in Int /\ g.file \in Int
BY Sizes DEF Segment, Page, File

LEMMA ViewFacts ==
    ASSUME SegsSound(segs), doc \in [File -> DocRow], NEW f \in File
    PROVE  /\ InView(f) \subseteq segs /\ InView(f) \subseteq Segment /\ Runs(InView(f)) /\ Apart(InView(f))
           /\ \A g \in InView(f) : g.file = f /\ g.gen = doc[f].gen
<1>1. InView(f) \subseteq segs /\ \A g \in InView(f) : g.file = f /\ g.gen = doc[f].gen
  BY DEF InView, Current, Of
<1> QED
  BY <1>1 DEF SegsSound, Runs, Apart

LEMMA CoversFacts ==
    ASSUME SegsSound(segs), doc \in [File -> DocRow], NEW f \in File
    PROVE  \A n : n \in Covers(InView(f)) <=> \E g \in InView(f) : n \in g.from..g.to
BY DEF Covers

LEMMA GapsFacts ==
    ASSUME SegsSound(segs), doc \in [File -> DocRow], NEW f \in File
    PROVE  /\ \A g \in Gaps(f) : /\ g.file = f /\ g.from \in Page /\ g.to \in Page /\ g.from <= g.to /\ g.label = Unknown /\ g.code = 0
                                 /\ g \in Placed
                                 /\ \A n \in g.from..g.to : n \in Page /\ n \notin Covers(InView(f))
           /\ Apart(Gaps(f))
           /\ \A n \in Page \ Covers(InView(f)) : \E g \in Gaps(f) : n \in g.from..g.to
<1>1. PICK free : free = Page \ Covers(InView(f))
  OBVIOUS
<1>2. ASSUME NEW g \in Gaps(f)
      PROVE  \E a \in Page, b \in Page : /\ a <= b /\ a..b \subseteq free /\ a - 1 \notin free /\ b + 1 \notin free
                                         /\ g = [file |-> f, from |-> a, to |-> b, label |-> Unknown, code |-> 0]
  BY <1>1 DEF Gaps
<1>3. ASSUME NEW g \in Gaps(f)
      PROVE  /\ g.file = f /\ g.from \in Page /\ g.to \in Page /\ g.from <= g.to /\ g.label = Unknown /\ g.code = 0
             /\ g \in Placed
             /\ \A n \in g.from..g.to : n \in Page /\ n \notin Covers(InView(f))
  <2>1. PICK a \in Page, b \in Page : /\ a <= b /\ a..b \subseteq free /\ a - 1 \notin free /\ b + 1 \notin free
                                      /\ g = [file |-> f, from |-> a, to |-> b, label |-> Unknown, code |-> 0]
    BY <1>2
  <2>2. g \in Placed
    BY <2>1 DEF Placed, Labels
  <2> QED
    BY <1>1, <2>1, <2>2
<1>4. Apart(Gaps(f))
  <2> SUFFICES ASSUME NEW g \in Gaps(f), NEW h \in Gaps(f), Overlap(g, h) PROVE g = h
    BY DEF Apart
  <2>1. PICK a \in Page, b \in Page : /\ a <= b /\ a..b \subseteq free /\ a - 1 \notin free /\ b + 1 \notin free
                                      /\ g = [file |-> f, from |-> a, to |-> b, label |-> Unknown, code |-> 0]
    BY <1>2
  <2>2. PICK c \in Page, d \in Page : /\ c <= d /\ c..d \subseteq free /\ c - 1 \notin free /\ d + 1 \notin free
                                      /\ h = [file |-> f, from |-> c, to |-> d, label |-> Unknown, code |-> 0]
    BY <1>2
  <2>3. a \in Int /\ b \in Int /\ c \in Int /\ d \in Int
    BY Sizes DEF Page
  <2>4. a <= d /\ b >= c
    BY <2>1, <2>2 DEF Overlap
  <2>5. ~(a < c)
    <3>1. a < c => c - 1 \in a..b
      BY <2>3, <2>4
    <3> QED
      BY <2>1, <2>2, <3>1
  <2>6. ~(c < a)
    <3>1. c < a => a - 1 \in c..d
      BY <2>3, <2>4
    <3> QED
      BY <2>1, <2>2, <3>1
  <2>7. ~(b < d)
    <3>1. b < d => b + 1 \in c..d
      BY <2>3, <2>4
    <3> QED
      BY <2>1, <2>2, <3>1
  <2>8. ~(d < b)
    <3>1. d < b => d + 1 \in a..b
      BY <2>3, <2>4
    <3> QED
      BY <2>1, <2>2, <3>1
  <2>9. a = c /\ b = d
    BY <2>3, <2>5, <2>6, <2>7, <2>8
  <2> QED
    BY <2>1, <2>2, <2>9
<1>5. ASSUME NEW n \in free PROVE \E g \in Gaps(f) : n \in g.from..g.to
  <2>1. n \in Page /\ n \in Nat /\ N \in Nat
    BY <1>1, Sizes DEF Page
  <2>2. PICK A : A = {a \in Page : a..n \subseteq free /\ a <= n}
    OBVIOUS
  <2>3. A \in SUBSET Nat /\ A # {}
    <3>1. n..n \subseteq free
      BY <2>1
    <3>2. n \in A
      BY <2>1, <2>2, <3>1
    <3> QED
      BY <2>2, <3>2 DEF Page
  <2>4. PICK a \in A : \A m \in A : a <= m
    BY <2>3, Smallest
  <2>5. a \in Page /\ a \in Int /\ a <= n /\ a..n \subseteq free
    BY <2>2, <2>4, Sizes DEF Page
  <2>6. a - 1 \notin free
    <3> SUFFICES ASSUME a - 1 \in free PROVE FALSE
      OBVIOUS
    <3>1. a - 1 \in Page
      BY <1>1
    <3>2. (a - 1)..n \subseteq free
      BY <2>1, <2>5
    <3>3. a - 1 \in A
      BY <2>1, <2>2, <2>5, <3>1, <3>2
    <3> QED
      BY <2>4, <2>5, <3>3
  <2>7. PICK B : B = {b \in Page : n..b \subseteq free /\ n <= b}
    OBVIOUS
  <2>8. B \in SUBSET (0..N) /\ B # {}
    <3>1. n..n \subseteq free
      BY <2>1
    <3>2. n \in B
      BY <2>1, <2>7, <3>1
    <3> QED
      BY <2>1, <2>7, <3>2 DEF Page
  <2>9. PICK b \in B : \A m \in B : m <= b
    BY <2>1, <2>8, Largest
  <2>10. b \in Page /\ b \in Int /\ n <= b /\ n..b \subseteq free
    BY <2>7, <2>9, Sizes DEF Page
  <2>11. b + 1 \notin free
    <3> SUFFICES ASSUME b + 1 \in free PROVE FALSE
      OBVIOUS
    <3>1. b + 1 \in Page
      BY <1>1
    <3>2. n..(b + 1) \subseteq free
      BY <2>1, <2>10
    <3>3. b + 1 \in B
      BY <2>1, <2>7, <2>10, <3>1, <3>2
    <3> QED
      BY <2>9, <2>10, <3>3
  <2>12. a..b \subseteq free /\ a <= b
    BY <2>1, <2>5, <2>10
  <2>13. PICK g : g = [file |-> f, from |-> a, to |-> b, label |-> Unknown, code |-> 0]
    OBVIOUS
  <2>14. g \in Gaps(f)
    <3>1. <<a, b>> \in Page \X Page
      BY <2>5, <2>10
    <3> QED
      BY <1>1, <2>6, <2>11, <2>12, <2>13, <3>1 DEF Gaps
  <2> QED
    BY <2>1, <2>5, <2>10, <2>13, <2>14
<1> QED
  BY <1>1, <1>3, <1>4, <1>5


(* The screen shows a whole split of every indexed file.                   *)
Line(f, g) == [file |-> f, from |-> g.from, to |-> g.to, label |-> g.label, code |-> g.code]

LEMMA RowsFacts ==
    ASSUME SegsSound(segs), doc \in [File -> DocRow]
    PROVE  /\ Rows \subseteq Placed /\ Runs(Rows) /\ Apart(Rows)
           /\ \A g \in Rows : \A n \in Page : \E h \in Rows : h.file = g.file /\ n \in h.from..h.to
           /\ \A g \in Rows : g \in Gaps(g.file) \/ \E h \in InView(g.file) : g = Line(g.file, h)
           /\ \A g \in Rows : doc[g.file].indexed
           /\ \A f \in File : \A h \in InView(f) : doc[f].indexed => Line(f, h) \in Rows
           /\ \A g \in Rows : g.code \in 0..(Files * N)
<1>1. \A g : g \in Rows <=> \E f \in File : doc[f].indexed /\ (g \in Gaps(f) \/ \E h \in InView(f) : g = Line(f, h))
  BY DEF Rows, Line
<1>2. ASSUME NEW f \in File, NEW h \in InView(f), NEW g, g = Line(f, h)
      PROVE  /\ g.file = f /\ g.from = h.from /\ g.to = h.to /\ g.label = h.label /\ g.code = h.code
             /\ g \in Placed /\ g.from <= g.to /\ g.code \in 0..(Files * N)
  <2>1. h \in Segment /\ h.from <= h.to
    BY ViewFacts DEF Runs
  <2>2. g = [file |-> f, from |-> h.from, to |-> h.to, label |-> h.label, code |-> h.code]
    BY <1>2 DEF Line
  <2> QED
    BY <2>1, <2>2, SegmentType DEF Placed
<1>3. ASSUME NEW g \in Rows
      PROVE  /\ g.file \in File /\ doc[g.file].indexed /\ g \in Placed /\ g.from <= g.to /\ g.code \in 0..(Files * N)
             /\ (g \in Gaps(g.file) \/ \E h \in InView(g.file) : g = Line(g.file, h))
  <2>1. PICK f \in File : doc[f].indexed /\ (g \in Gaps(f) \/ \E h \in InView(f) : g = Line(f, h))
    BY <1>1
  <2>2. CASE g \in Gaps(f)
    <3>1. 0 \in 0..(Files * N)
      BY Sizes
    <3> QED
      BY <2>1, <2>2, <3>1, GapsFacts
  <2>3. CASE \E h \in InView(f) : g = Line(f, h)
    BY <1>2, <2>1, <2>3
  <2> QED
    BY <2>1, <2>2, <2>3
<1>4. Apart(Rows)
  <2> SUFFICES ASSUME NEW g \in Rows, NEW h \in Rows, g.file = h.file, g # h PROVE ~Overlap(g, h)
    BY DEF Apart
  <2>1. PICK f : f = g.file /\ f = h.file /\ f \in File
    BY <1>3
  <2>2. CASE g \in Gaps(f) /\ h \in Gaps(f)
    BY <2>1, <2>2, GapsFacts DEF Apart
  <2>3. ASSUME NEW a \in InView(f), NEW b \in Gaps(f) PROVE ~Overlap(Line(f, a), b) /\ ~Overlap(b, Line(f, a))
    <3>1. a.from <= a.to /\ a.from \in Int /\ a.to \in Int
      BY <2>1, ViewFacts, SegmentType DEF Runs
    <3>2. b.from <= b.to /\ b.from \in Int /\ b.to \in Int /\ \A n \in b.from..b.to : n \notin Covers(InView(f))
      BY <2>1, GapsFacts, Sizes DEF Page
    <3>3. \A n \in a.from..a.to : n \in Covers(InView(f))
      BY <2>1, CoversFacts
    <3>4. \A n \in b.from..b.to : ~(n \in a.from..a.to)
      BY <3>2, <3>3
    <3>5. ~(a.from <= b.to /\ a.to >= b.from)
      <4>1. CASE a.from >= b.from
        <5>1. a.from <= b.to => a.from \in b.from..b.to /\ a.from \in a.from..a.to
          BY <3>1, <3>2, <4>1
        <5> QED
          BY <3>4, <5>1
      <4>2. CASE a.from < b.from
        <5>1. a.to >= b.from => b.from \in b.from..b.to /\ b.from \in a.from..a.to
          BY <3>1, <3>2, <4>2
        <5> QED
          BY <3>4, <5>1
      <4> QED
        BY <3>1, <3>2, <4>1, <4>2
    <3>6. Line(f, a).from = a.from /\ Line(f, a).to = a.to
      BY DEF Line
    <3> QED
      BY <3>1, <3>2, <3>5, <3>6 DEF Overlap
  <2>4. CASE (g \in Gaps(f) /\ \E b \in InView(f) : h = Line(f, b)) \/ (h \in Gaps(f) /\ \E a \in InView(f) : g = Line(f, a))
    BY <2>3, <2>4
  <2>5. CASE (\E a \in InView(f) : g = Line(f, a)) /\ \E b \in InView(f) : h = Line(f, b)
    <3>1. PICK a \in InView(f) : g = Line(f, a)
      BY <2>5
    <3>2. PICK b \in InView(f) : h = Line(f, b)
      BY <2>5
    <3>3. a # b /\ a.file = b.file
      BY <2>1, <3>1, <3>2, ViewFacts
    <3>4. ~Overlap(a, b)
      BY <2>1, <3>3, ViewFacts DEF Apart
    <3>5. g.from = a.from /\ g.to = a.to /\ h.from = b.from /\ h.to = b.to
      BY <1>2, <2>1, <3>1, <3>2
    <3> QED
      BY <3>4, <3>5 DEF Overlap
  <2> QED
    BY <1>3, <2>1, <2>2, <2>4, <2>5
<1>5. ASSUME NEW g \in Rows, NEW n \in Page PROVE \E h \in Rows : h.file = g.file /\ n \in h.from..h.to
  <2>1. PICK f : f = g.file /\ f \in File /\ doc[f].indexed
    BY <1>3
  <2>2. CASE n \in Covers(InView(f))
    <3>1. PICK a \in InView(f) : n \in a.from..a.to
      BY <2>1, <2>2, CoversFacts
    <3>2. Line(f, a) \in Rows
      BY <1>1, <2>1
    <3> QED
      BY <1>2, <2>1, <3>1, <3>2
  <2>3. CASE n \notin Covers(InView(f))
    <3>1. PICK b \in Gaps(f) : n \in b.from..b.to
      BY <2>1, <2>3, GapsFacts
    <3>2. b \in Rows /\ b.file = f
      BY <1>1, <2>1, GapsFacts
    <3> QED
      BY <2>1, <3>1, <3>2
  <2> QED
    BY <2>2, <2>3
<1>6. \A f \in File : \A h \in InView(f) : doc[f].indexed => Line(f, h) \in Rows
  BY <1>1
<1> QED
  BY <1>3, <1>4, <1>5, <1>6 DEF Runs

LEMMA BundleType ==
    ASSUME SegsSound(segs), doc \in [File -> DocRow], NEW g \in Rows
    PROVE  Bundle(g) \in Nat
<1>1. PICK heads : heads = {h \in Rows : (Keeps(h) \/ Starts(h)) /\ ~Before(g, h)}
  OBVIOUS
<1>2. \A h \in Rows : Spot(h) /\ h.code \in 0..(Files * N) /\ h.code \in Nat /\ h \in Placed
  BY RowsFacts, PlacedType DEF Spot
<1>3. heads # {}
  <2>1. PICK r \in Rows : \A h \in Rows : ~Before(h, r)
    BY <1>2, FirstOf
  <2>2. Keeps(r) \/ Starts(r)
    BY <2>1 DEF Starts
  <2> QED
    BY <1>1, <2>1, <2>2
<1>4. PICK head : head = CHOOSE h \in heads : \A k \in heads : ~Before(h, k)
  OBVIOUS
<1>5. head \in heads
  <2>1. \E h \in heads : \A k \in heads : ~Before(h, k)
    BY <1>1, <1>2, <1>3, LastOf
  <2> QED
    BY <1>4, <2>1
<1>6. PICK top : top = CHOOSE n \in {h.code : h \in Rows} : \A h \in Rows : h.code <= n
  OBVIOUS
<1>7. top \in Nat
  <2>1. PICK T : T = {h.code : h \in Rows}
    OBVIOUS
  <2>2. T \in SUBSET (0..(Files * N)) /\ T # {} /\ Files * N \in Nat
    BY <1>2, <2>1, Sizes
  <2>3. PICK n \in T : \A m \in T : m <= n
    BY <2>2, Largest
  <2>4. \E k \in T : \A h \in Rows : h.code <= k
    BY <2>1, <2>3
  <2>5. top \in T
    BY <1>6, <2>1, <2>4
  <2> QED
    BY <2>2, <2>5
<1>8. PICK C : C = {h \in heads : Starts(h)}
  OBVIOUS
<1>9. Cardinality(C) \in Nat
  <2>1. IsFiniteSet(Rows)
    BY RowsFacts, PlanSize
  <2>2. C \subseteq Rows
    BY <1>1, <1>8
  <2> QED
    BY <2>1, <2>2, FS_Subset, FS_CardinalityType
<1>10. Bundle(g) = IF Keeps(head) THEN head.code ELSE top + Cardinality(C)
  BY <1>1, <1>4, <1>6, <1>8 DEF Bundle
<1> QED
  BY <1>1, <1>2, <1>5, <1>7, <1>9, <1>10

Confirmed(g) == [g EXCEPT !.label = IF g.label = Unknown THEN Other ELSE g.label, !.code = Bundle(g)]

LEMMA AutoPlanForm ==
    \A s : s \in AutoPlan <=> \E g \in Rows : InView(g.file) # {} /\ s = Confirmed(g)
BY DEF AutoPlan, Confirmed

LEMMA ConfirmedType ==
    ASSUME SegsSound(segs), doc \in [File -> DocRow], NEW g \in Rows, NEW s, s = Confirmed(g)
    PROVE  /\ s.file = g.file /\ s.from = g.from /\ s.to = g.to /\ s \in Placed /\ s.from <= s.to
           /\ s.label = (IF g.label = Unknown THEN Other ELSE g.label) /\ s.label # Unknown
<1>1. g \in Placed /\ g.from <= g.to /\ Bundle(g) \in Nat
  BY RowsFacts, BundleType DEF Runs
<1>2. PICK l \in Labels : l = (IF g.label = Unknown THEN Other ELSE g.label) /\ l # Unknown
  BY <1>1, PlacedType DEF Labels, Unknown, Other
<1>3. s = [g EXCEPT !.label = l, !.code = Bundle(g)]
  BY <1>2 DEF Confirmed
<1> QED
  BY <1>1, <1>2, <1>3 DEF Placed

LEMMA AutoPlanSound ==
    ASSUME SegsSound(segs), doc \in [File -> DocRow]
    PROVE  PlanSound(AutoPlan)
<1>3. ASSUME NEW s \in AutoPlan
      PROVE  \E g \in Rows : /\ s = Confirmed(g) /\ InView(g.file) # {} /\ s.file = g.file /\ s.from = g.from /\ s.to = g.to
                             /\ s \in Placed /\ s.from <= s.to /\ s.label # Unknown
  <2>1. PICK g \in Rows : InView(g.file) # {} /\ s = Confirmed(g)
    BY AutoPlanForm
  <2> QED
    BY <2>1, ConfirmedType
<1>4. AutoPlan \subseteq Placed /\ Runs(AutoPlan) /\ \A s \in AutoPlan : s.label # Unknown
  BY <1>3 DEF Runs
<1>5. Apart(AutoPlan)
  <2> SUFFICES ASSUME NEW s \in AutoPlan, NEW t \in AutoPlan, s.file = t.file, s # t PROVE ~Overlap(s, t)
    BY DEF Apart
  <2>1. PICK g \in Rows : /\ s.file = g.file /\ s.from = g.from /\ s.to = g.to
                          /\ s = Confirmed(g)
    BY <1>3
  <2>2. PICK h \in Rows : /\ t.file = h.file /\ t.from = h.from /\ t.to = h.to
                          /\ t = Confirmed(h)
    BY <1>3
  <2>3. g # h /\ g.file = h.file
    BY <2>1, <2>2
  <2>4. ~Overlap(g, h)
    BY <2>3, RowsFacts DEF Apart
  <2> QED
    BY <2>1, <2>2, <2>4 DEF Overlap
<1>6. ASSUME NEW s \in AutoPlan, NEW n \in Page PROVE \E t \in AutoPlan : t.file = s.file /\ n \in t.from..t.to
  <2>1. PICK g \in Rows : s.file = g.file /\ InView(g.file) # {}
    BY <1>3
  <2>2. PICK h \in Rows : h.file = g.file /\ n \in h.from..h.to
    BY RowsFacts
  <2>3. PICK t : t = Confirmed(h)
    OBVIOUS
  <2>4. t \in AutoPlan
    BY AutoPlanForm, <2>1, <2>2, <2>3
  <2> QED
    BY <2>1, <2>2, <2>3, <2>4, ConfirmedType
<1> QED
  BY <1>4, <1>5, <1>6 DEF PlanSound

(* Of a file with a saved split, confirming the screen saves that split:   *)
(* what the pipeline proposed lies beside no page of it.                   *)
LEMMA AutoPlanKeeps ==
    ASSUME SegsSound(segs), doc \in [File -> DocRow], NEW f \in Planned(AutoPlan), Mine(segs, f, doc[f].gen) # {}
    PROVE  f \in File /\ Text(OfFile(AutoPlan, f)) = Text(Mine(segs, f, doc[f].gen))
<1>1. PICK mine : mine = Mine(segs, f, doc[f].gen)
  OBVIOUS
<1>2. f \in File /\ doc[f].indexed /\ doc[f].gen \in 1..MaxGen
  <2>1. PICK s \in AutoPlan : s.file = f
    BY DEF Planned
  <2>2. PICK g \in Rows : s.file = g.file
    BY AutoPlanForm, ConfirmedType
  <2> QED
    BY <2>1, <2>2, RowsFacts, PlacedType DEF DocRow
<1>3. mine \subseteq Segment /\ mine \subseteq segs /\ mine # {} /\ \A n \in Page : \E g \in mine : n \in g.from..g.to
  BY <1>1, <1>2 DEF SegsSound, Whole, Mine
<1>4. InView(f) = mine
  <2>1. mine = Of(Current(f), "user")
    BY <1>1 DEF Mine, Of, Current
  <2>2. ASSUME NEW g \in Current(f) PROVE g \in mine
    <3>1. g \in segs /\ g.file = f /\ g.gen = doc[f].gen /\ g \in Segment /\ g.from <= g.to
      BY DEF Current, SegsSound, Runs
    <3>2. PICK h \in mine : g.from \in h.from..h.to
      BY <1>3, <3>1, SegmentType
    <3>3. Overlap(g, h)
      <4>1. h \in Segment
        BY <1>3
      <4> QED
        BY <3>1, <3>2, <4>1, SegmentType DEF Overlap
    <3>4. h \in segs /\ h.file = f /\ h.gen = doc[f].gen
      BY <1>1 DEF Mine
    <3> QED
      BY <3>1, <3>2, <3>3, <3>4 DEF SegsSound
  <2>3. mine \subseteq Current(f)
    BY <2>1 DEF Of
  <2> QED
    BY <2>1, <2>2, <2>3 DEF InView
<1>5. Gaps(f) = {}
  <2> SUFFICES ASSUME NEW g \in Gaps(f) PROVE FALSE
    OBVIOUS
  <2>1. g.from \in g.from..g.to /\ g.from \in Page /\ g.from \notin Covers(InView(f))
    BY <1>2, GapsFacts, Sizes DEF Page
  <2> QED
    BY <1>2, <1>3, <1>4, <2>1, CoversFacts
<1>6. ASSUME NEW s \in AutoPlan, s.file = f PROVE \E h \in mine : <<s.from, s.to, s.label>> = <<h.from, h.to, h.label>>
  <2>1. PICK g \in Rows : s = Confirmed(g)
    BY AutoPlanForm
  <2>3. s.file = g.file /\ s.from = g.from /\ s.to = g.to /\ s.label = IF g.label = Unknown THEN Other ELSE g.label
    BY <2>1, ConfirmedType
  <2>4. PICK h \in InView(f) : g = Line(f, h)
    BY <1>5, <1>6, <2>3, RowsFacts
  <2>5. h.label # Unknown
    BY <1>1, <1>4 DEF Mine, SegsSound
  <2> QED
    BY <1>4, <2>3, <2>4, <2>5 DEF Line
<1>7. ASSUME NEW h \in mine PROVE \E s \in AutoPlan : s.file = f /\ <<s.from, s.to, s.label>> = <<h.from, h.to, h.label>>
  <2>1. Line(f, h) \in Rows
    BY <1>2, <1>4, RowsFacts
  <2>2. PICK g : g = Line(f, h)
    OBVIOUS
  <2>3. g \in Placed /\ g.file = f /\ g.from = h.from /\ g.to = h.to /\ g.label = h.label
    BY <2>1, <2>2, RowsFacts DEF Line
  <2>4. g.label # Unknown
    BY <1>1, <2>3 DEF Mine, SegsSound
  <2>5. PICK s : s = Confirmed(g)
    OBVIOUS
  <2>6. s \in AutoPlan
    BY <1>3, <1>4, <2>1, <2>2, <2>3, <2>5, AutoPlanForm
  <2>7. s.file = f /\ s.from = g.from /\ s.to = g.to /\ s.label = g.label
    <3>1. g \in Rows
      BY <2>1, <2>2
    <3>2. s.file = g.file /\ s.from = g.from /\ s.to = g.to /\ s.label = IF g.label = Unknown THEN Other ELSE g.label
      BY <2>5, <3>1, ConfirmedType
    <3> QED
      BY <2>3, <2>4, <3>2
  <2> QED
    BY <2>3, <2>6, <2>7
<1> QED
  BY <1>1, <1>2, <1>6, <1>7 DEF Text, OfFile


-----------------------------------------------------------------------------
(* The steps.                                                              *)

LEMMA ShownType ==
    ASSUME NEW S \in SUBSET Segment
    PROVE  Shown(S) \in Trees
<1>1. PICK keep : keep = {g \in S : g.src = "user" \/ ~\E u \in Of(S, "user") : Overlap(g, u)}
  OBVIOUS
<1>2. ASSUME NEW n \in Page
      PROVE  (IF \E g \in keep : n \in g.from..g.to
              THEN LET h == CHOOSE h \in keep : n \in h.from..h.to IN <<h.from, h.to, h.label>>
              ELSE <<Unknown>>) \in {<<>>, <<Unknown>>} \cup (Page \X Page \X Labels)
  <2>1. CASE \E g \in keep : n \in g.from..g.to
    <3>1. PICK g : g = CHOOSE h \in keep : n \in h.from..h.to
      OBVIOUS
    <3>2. g \in Segment
      BY <1>1, <2>1, <3>1
    <3>3. <<g.from, g.to, g.label>> \in Page \X Page \X Labels
      BY <3>2, SegmentType
    <3> QED
      BY <2>1, <3>1, <3>3
  <2>2. CASE ~\E g \in keep : n \in g.from..g.to
    BY <2>2
  <2> QED
    BY <2>1, <2>2
<1>3. Shown(S) = [n \in Page |-> IF \E g \in keep : n \in g.from..g.to
                                 THEN LET h == CHOOSE h \in keep : n \in h.from..h.to IN <<h.from, h.to, h.label>>
                                 ELSE <<Unknown>>]
  BY <1>1 DEF Shown
<1> QED
  BY <1>2, <1>3 DEF Trees

LEMMA NoTreeType == NoTree \in Trees
BY DEF NoTree, Trees

LEMMA BecomeSound ==
    ASSUME NEW p, NEW q, Become(p, q), \A o \in procs : ProcSound(o), ProcSound(q)
    PROVE  \A o \in procs' : ProcSound(o)
BY DEF Become

LEMMA EndSound ==
    ASSUME NEW p, End(p), \A o \in procs : ProcSound(o)
    PROVE  \A o \in procs' : ProcSound(o)
BY DEF End

LEMMA DocFields ==
    ASSUME doc \in [File -> DocRow], NEW f \in File
    PROVE  /\ doc[f] \in DocRow /\ doc[f].gen \in 1..MaxGen /\ doc[f].layout \in Layout /\ doc[f].gen \in Nat
           /\ \A g \in 1..MaxGen, l \in Layout, u \in BOOLEAN :
                 [doc EXCEPT ![f].gen = g, ![f].layout = l, ![f].unbuilt = u] \in [File -> DocRow]
           /\ \A c \in {"none", "running", "done", "failed"} : [doc EXCEPT ![f].classify = c] \in [File -> DocRow]
           /\ \A u \in BOOLEAN : [doc EXCEPT ![f].unbuilt = u] \in [File -> DocRow]
           /\ \A l \in Layout : [doc EXCEPT ![f].layout = l] \in [File -> DocRow]
           /\ [doc EXCEPT ![f].indexed = TRUE] \in [File -> DocRow]
<1>1. doc[f] \in DocRow
  OBVIOUS
<1>2. doc[f].gen \in 1..MaxGen /\ doc[f].layout \in Layout /\ doc[f].gen \in Nat
  BY <1>1, Sizes DEF DocRow
<1>3. \A g \in 1..MaxGen, l \in Layout, u \in BOOLEAN : [doc EXCEPT ![f].gen = g, ![f].layout = l, ![f].unbuilt = u] \in [File -> DocRow]
  BY <1>1 DEF DocRow
<1>4. \A c \in {"none", "running", "done", "failed"} : [doc EXCEPT ![f].classify = c] \in [File -> DocRow]
  BY <1>1 DEF DocRow
<1>5. \A u \in BOOLEAN : [doc EXCEPT ![f].unbuilt = u] \in [File -> DocRow]
  BY <1>1 DEF DocRow
<1>6. \A l \in Layout : [doc EXCEPT ![f].layout = l] \in [File -> DocRow]
  BY <1>1 DEF DocRow
<1>7. [doc EXCEPT ![f].indexed = TRUE] \in [File -> DocRow]
  BY <1>1 DEF DocRow
<1> QED
  BY <1>1, <1>2, <1>3, <1>4, <1>5, <1>6, <1>7

LEMMA ResultType ==
    ASSUME doc \in [File -> DocRow], NEW p, ProcSound(p), p.kind \in {"tree", "auto"}, NEW ok \in BOOLEAN
    PROVE  Result(p, ok) \in [File -> DocRow]
<1>1. p.id \in File
  BY DEF ProcSound
<1>2. doc[p.id] \in DocRow /\ doc[p.id].unbuilt \in BOOLEAN
  BY <1>1 DEF DocRow
<1>3. PICK u \in BOOLEAN : u = (IF p.gen = doc[p.id].gen THEN ~ok ELSE doc[p.id].unbuilt)
  BY <1>2
<1>4. Result(p, ok) = [doc EXCEPT ![p.id].unbuilt = u]
  BY <1>3 DEF Result
<1>5. [doc EXCEPT ![p.id].unbuilt = u] \in [File -> DocRow]
  BY <1>1, DocFields
<1> QED
  BY <1>4, <1>5

LEMMA ProcFields ==
    ASSUME NEW p \in ProcRow
    PROVE  /\ p.id \in Nat /\ p.file \in File /\ p.gen \in Nat /\ p.read \in 1..MaxGen /\ p.try \in 0..MaxTry
           /\ p.plan \in SUBSET (Placed \cup Spans) /\ p.at \in Trees /\ p.todo \in SUBSET File
           /\ p.kind \in {"tree", "auto", "save", "ask", "classify"}
BY DEF ProcRow

LEMMA ReadType ==
    ASSUME SplitInv, NEW p \in procs, Read(p)
    PROVE  SplitInv'
<1>1. ProcSound(p) /\ p \in ProcRow /\ p.pc = "spans"
  BY DEF SplitInv, ProcSound, Read
<1>2. PICK f \in File : f = p.file /\ doc[f].gen \in 1..MaxGen /\ doc[f].layout \in Layout
  BY <1>1, ProcFields, DocFields DEF SplitInv
<1>3. PICK q : q = [p EXCEPT !.read = doc[f].gen]
  OBVIOUS
<1>4. q \in ProcRow /\ q.kind = p.kind /\ q.id = p.id
  BY <1>1, <1>2, <1>3 DEF ProcRow
<1>5. \/ End(p)
      \/ Become(p, [p EXCEPT !.pc = "next"])
      \/ Become(p, [q EXCEPT !.pc = "propose", !.plan = doc[f].layout])
      \/ Become(p, [q EXCEPT !.pc = "store", !.at = Shown(Current(f))])
  BY <1>2, <1>3 DEF Read, Goto
<1>6. ProcSound([p EXCEPT !.pc = "next"])
  BY <1>1 DEF ProcSound, ProcRow
<1>7. ProcSound([q EXCEPT !.pc = "propose", !.plan = doc[f].layout])
  <2>1. doc[f].layout \subseteq Placed \cup Spans
    BY <1>2, LayoutFacts
  <2> QED
    BY <1>1, <1>2, <1>4, <2>1 DEF ProcSound, ProcRow
<1>8. ProcSound([q EXCEPT !.pc = "store", !.at = Shown(Current(f))])
  <2>1. Current(f) \in SUBSET Segment
    BY DEF SplitInv, SegsSound, Current
  <2>2. Shown(Current(f)) \in Trees
    BY <2>1, ShownType
  <2> QED
    BY <1>1, <1>4, <2>2 DEF ProcSound, ProcRow
<1>9. \A o \in procs' : ProcSound(o)
  BY <1>5, <1>6, <1>7, <1>8, BecomeSound, EndSound DEF SplitInv
<1> QED
  BY <1>9 DEF SplitInv, Read

LEMMA ProposeType ==
    ASSUME SplitInv, NEW p \in procs, Propose(p)
    PROVE  SplitInv'
<1>1. ProcSound(p) /\ p \in ProcRow /\ p.pc = "propose" /\ p.plan \in Layout
  BY DEF SplitInv, ProcSound, Propose
<1>2. p.file \in File /\ p.read \in 1..MaxGen
  BY <1>1, ProcFields
<1>3. SegsSound(segs')
  BY <1>1, <1>2, ProposedSound DEF SplitInv, Propose
<1>4. doc' \in [File -> DocRow]
  BY <1>2, DocFields DEF SplitInv, Propose
<1>5. ProcSound([p EXCEPT !.pc = "reread", !.plan = {}])
  BY <1>1 DEF ProcSound, ProcRow
<1>6. \A o \in procs' : ProcSound(o)
  BY <1>5, BecomeSound DEF SplitInv, Propose
<1> QED
  BY <1>3, <1>4, <1>6 DEF SplitInv, Propose

LEMMA StoreType ==
    ASSUME SplitInv, NEW p \in procs, Reread(p) \/ Store(p) \/ Append1(p)
    PROVE  SplitInv'
<1>1. ProcSound(p) /\ p \in ProcRow /\ p.file \in File
  BY ProcFields DEF SplitInv, ProcSound
<1>2. CASE Reread(p)
  <2>1. Current(p.file) \in SUBSET Segment
    BY DEF SplitInv, SegsSound, Current
  <2>2. Shown(Current(p.file)) \in Trees
    BY <2>1, ShownType
  <2>3. ProcSound([p EXCEPT !.pc = "store", !.at = Shown(Current(p.file))])
    BY <1>1, <2>2 DEF ProcSound, ProcRow
  <2>4. \A o \in procs' : ProcSound(o)
    BY <1>2, <2>3, BecomeSound DEF SplitInv, Reread
  <2> QED
    BY <1>2, <2>4 DEF SplitInv, Reread
<1>3. CASE Store(p)
  <2>1. ProcSound([p EXCEPT !.at = NoTree, !.pc = IF p.kind = "tree" THEN "append" ELSE "next"])
    BY <1>1, NoTreeType DEF ProcSound, ProcRow
  <2>2. \A o \in procs' : ProcSound(o)
    BY <1>3, <2>1, BecomeSound DEF SplitInv, Store
  <2>3. tree' \in [File -> Trees]
    BY <1>1, <1>3, ProcFields DEF SplitInv, Store
  <2> QED
    BY <1>3, <2>2, <2>3 DEF SplitInv, Store
<1>4. CASE Append1(p)
  <2>1. ProcSound([p EXCEPT !.pc = "confirm"])
    BY <1>1, <1>4 DEF ProcSound, ProcRow, Append1, SplitInv
  <2>2. \A o \in procs' : ProcSound(o)
    BY <1>4, <2>1, BecomeSound DEF SplitInv, Append1, Goto
  <2>3. doc' \in [File -> DocRow]
    BY <1>1, <1>4, DocFields DEF SplitInv, Append1
  <2> QED
    BY <1>4, <2>2, <2>3 DEF SplitInv, Append1
<1> QED
  BY <1>2, <1>3, <1>4

LEMMA ConfirmType ==
    ASSUME SplitInv, NEW p \in procs, Confirm(p)
    PROVE  SplitInv'
<1>1. ProcSound(p) /\ p \in ProcRow /\ p.pc = "confirm"
  BY DEF SplitInv, ProcSound, Confirm
<1>2. PICK plan : plan = AutoPlan
  OBVIOUS
<1>3. PlanSound(plan) /\ plan \subseteq Placed \cup Spans
  BY <1>2, AutoPlanSound DEF SplitInv, PlanSound
<1>4. ProcSound([p EXCEPT !.kind = "auto", !.pc = "save", !.plan = plan])
  BY <1>1, <1>3 DEF ProcSound, ProcRow
<1>5. ProcSound([p EXCEPT !.pc = "next"])
  BY <1>1 DEF ProcSound, ProcRow
<1>6. Become(p, [p EXCEPT !.pc = "next"]) \/ Become(p, [p EXCEPT !.kind = "auto", !.pc = "save", !.plan = plan])
  BY <1>2 DEF Confirm, Goto
<1> QED
  BY <1>4, <1>5, <1>6, BecomeSound DEF SplitInv, Confirm


LEMMA SaveType ==
    ASSUME SplitInv, NEW p \in procs, Save(p)
    PROVE  SplitInv'
<1>1. ProcSound(p) /\ p \in ProcRow /\ PlanSound(p.plan)
  BY DEF SplitInv, ProcSound, Save
<1>2. SegsSound(segs')
  BY <1>1, SavedSound DEF SplitInv, Save
<1>3. doc' \in [File -> DocRow]
  <2>1. \A f \in File : [doc[f] EXCEPT !.reviewed = TRUE] \in DocRow
    BY DEF SplitInv, DocRow
  <2> QED
    BY <2>1 DEF SplitInv, Save
<1>4. Planned(p.plan) \subseteq File
  BY <1>1, PlacedType DEF Planned, PlanSound
<1>5. ProcSound([p EXCEPT !.pc = "next", !.todo = Planned(p.plan), !.plan = {}])
  BY <1>1, <1>4 DEF ProcSound, ProcRow
<1>6. \A o \in procs' : ProcSound(o)
  BY <1>5, BecomeSound DEF SplitInv, Save
<1> QED
  BY <1>2, <1>3, <1>6 DEF SplitInv, Save

LEMMA NextType ==
    ASSUME SplitInv, NEW p \in procs, ClassifyStart(p) \/ \E f \in File : NextFile(p, f)
    PROVE  SplitInv'
<1>1. ProcSound(p) /\ p \in ProcRow /\ p.file \in File
  BY ProcFields DEF SplitInv, ProcSound
<1>2. CASE ClassifyStart(p)
  <2>1. doc[p.file].gen \in 1..MaxGen
    BY <1>1, DocFields DEF SplitInv
  <2>2. ProcSound([p EXCEPT !.pc = "model", !.read = doc[p.file].gen])
    BY <1>1, <2>1 DEF ProcSound, ProcRow
  <2>3. \A o \in procs' : ProcSound(o)
    BY <1>2, <2>2, BecomeSound DEF SplitInv, ClassifyStart
  <2> QED
    BY <1>2, <2>3 DEF SplitInv, ClassifyStart
<1>3. ASSUME NEW f \in File, NextFile(p, f) PROVE SplitInv'
  <2>1. PICK td : td = p.todo \ {f} /\ td \in SUBSET File
    BY <1>1, ProcFields
  <2>2. ProcSound([p EXCEPT !.file = f, !.todo = td, !.pc = "spans"])
    BY <1>1, <2>1 DEF ProcSound, ProcRow
  <2>3. Become(p, [p EXCEPT !.file = f, !.todo = td, !.pc = "spans"])
    BY <1>3, <2>1 DEF NextFile
  <2>4. \A o \in procs' : ProcSound(o)
    BY <2>2, <2>3, BecomeSound DEF SplitInv
  <2> QED
    BY <1>3, <2>4 DEF SplitInv, NextFile
<1> QED
  BY <1>2, <1>3

LEMMA ClassifySaveType ==
    ASSUME SplitInv, NEW p \in procs, NEW layout \in Layout, ClassifySave(p, layout)
    PROVE  SplitInv'
<1>1. ProcSound(p) /\ p \in ProcRow /\ p.pc = "model" /\ p.file \in File /\ p.read \in 1..MaxGen
  BY ProcFields DEF SplitInv, ProcSound, ClassifySave
<1>2. SegsSound(segs')
  BY <1>1, ProposedSound DEF SplitInv, ClassifySave
<1>3. doc' \in [File -> DocRow]
  BY <1>1, DocFields DEF SplitInv, ClassifySave
<1>4. ProcSound([p EXCEPT !.pc = "next", !.todo = {p.file}])
  BY <1>1 DEF ProcSound, ProcRow
<1>5. \A o \in procs' : ProcSound(o)
  BY <1>4, BecomeSound DEF SplitInv, ClassifySave
<1> QED
  BY <1>2, <1>3, <1>5 DEF SplitInv, ClassifySave

LEMMA RetryType ==
    ASSUME SplitInv, NEW p, NEW t, ProcSound(t), t.kind \in {"tree", "classify"}, t.try = p.try, Again(p, t)
    PROVE  \A o \in procs' : ProcSound(o)
<1>1. CASE p.try < MaxTry
  <2>1. t \in ProcRow /\ t.file \in File /\ t.try \in 0..MaxTry /\ t.gen \in Nat /\ t.id \in Nat
    BY ProcFields DEF ProcSound
  <2>2. doc[t.file].gen \in 1..MaxGen /\ doc[t.file].gen \in Nat /\ t.try + 1 \in 0..MaxTry
    <3>1. t.try + 1 \in 0..MaxTry
      BY <1>1, <2>1, Sizes
    <3>2. doc[t.file].gen \in 1..MaxGen /\ doc[t.file].gen \in Nat
      BY <2>1, DocFields DEF SplitInv
    <3> QED
      BY <3>1, <3>2
  <2>3. PICK q : q = Proc(t.kind, t.id, t.file, IF t.kind = "classify" THEN "start" ELSE "spans")
    OBVIOUS
  <2>4. q \in ProcRow /\ q.pc \in {"start", "spans"} /\ q.kind = t.kind /\ q.id = t.id
    BY <2>1, <2>2, <2>3, NoTreeType, Sizes DEF Proc, ProcRow
  <2>5. ProcSound([q EXCEPT !.try = t.try + 1, !.gen = t.gen])
    BY <2>1, <2>2, <2>4 DEF ProcSound, ProcRow
  <2>6. Become(p, [q EXCEPT !.try = t.try + 1, !.gen = t.gen])
    BY <1>1, <2>3 DEF Again, Retry
  <2> QED
    BY <2>5, <2>6, BecomeSound DEF SplitInv
<1>2. CASE ~(p.try < MaxTry)
  BY <1>2, EndSound DEF SplitInv, Again
<1> QED
  BY <1>1, <1>2

LEMMA FinishType ==
    ASSUME SplitInv, NEW p \in procs, Finish(p) \/ Fails(p)
    PROVE  SplitInv'
<1>1. ProcSound(p) /\ p \in ProcRow /\ p.file \in File
  BY ProcFields DEF SplitInv, ProcSound
<1>2. p.kind \in {"tree", "auto"} => Result(p, TRUE) \in [File -> DocRow] /\ Result(p, FALSE) \in [File -> DocRow]
  BY <1>1, ResultType DEF SplitInv
<1>3. [doc EXCEPT ![p.file].classify = "failed"] \in [File -> DocRow] /\ doc \in [File -> DocRow]
  BY <1>1, DocFields DEF SplitInv
<1>4. CASE Finish(p)
  <2>1. doc' \in [File -> DocRow]
    BY <1>2, <1>3, <1>4 DEF Finish
  <2>2. \A o \in procs' : ProcSound(o)
    BY <1>4, EndSound DEF SplitInv, Finish
  <2> QED
    BY <1>4, <2>1, <2>2 DEF SplitInv, Finish
<1>5. CASE Fails(p)
  <2>1. doc' \in [File -> DocRow]
    BY <1>2, <1>3, <1>5 DEF Fails
  <2>2. ProcSound([p EXCEPT !.pc = "next", !.todo = {}, !.plan = {}, !.at = NoTree])
    BY <1>1, NoTreeType DEF ProcSound, ProcRow
  <2>3. \A o \in procs' : ProcSound(o)
    <3>1. CASE p.kind \in {"tree", "classify"}
      BY <1>1, <1>5, <3>1, RetryType DEF Fails
    <3>2. CASE p.kind = "auto"
      BY <1>5, <2>2, <3>2, BecomeSound DEF SplitInv, Fails
    <3>3. CASE p.kind \notin {"tree", "classify", "auto"}
      BY <1>5, <3>3, EndSound DEF SplitInv, Fails
    <3> QED
      BY <3>1, <3>2, <3>3
  <2> QED
    BY <1>5, <2>1, <2>3 DEF SplitInv, Fails
<1> QED
  BY <1>4, <1>5

LEMMA SpendType ==
    ASSUME used \in [req : Nat, crash : Nat], NEW bound \in {"req", "crash"}, Spend(bound)
    PROVE  used' \in [req : Nat, crash : Nat]
BY DEF Spend

LEMMA DiesType ==
    ASSUME SplitInv, NEW p \in procs, Dies(p)
    PROVE  SplitInv'
<1>1. ProcSound(p) /\ p \in ProcRow
  BY DEF SplitInv, ProcSound
<1>2. \A o \in procs' : ProcSound(o)
  <2>1. CASE p.kind \in {"tree", "classify"}
    BY <1>1, <2>1, RetryType DEF Dies
  <2>2. CASE p.kind = "auto"
    <3>1. PICK q : q = [p EXCEPT !.kind = "tree", !.file = p.id]
      OBVIOUS
    <3>2. ProcSound(q) /\ q.kind = "tree" /\ q.try = p.try /\ Again(p, q)
      BY <1>1, <2>2, <3>1 DEF ProcSound, ProcRow, Dies
    <3> QED
      BY <3>2, RetryType
  <2>3. CASE p.kind \notin {"tree", "classify", "auto"}
    BY <2>3, EndSound DEF SplitInv, Dies
  <2> QED
    BY <2>1, <2>2, <2>3
<1>3. used' \in [req : Nat, crash : Nat]
  BY SpendType DEF SplitInv, Dies
<1> QED
  BY <1>2, <1>3 DEF SplitInv, Dies


LEMMA PlanAskedSound ==
    ASSUME NEW F \in SUBSET File, NEW choice \in [F -> Review], NEW apart \in BOOLEAN, NEW plan,
           plan = UNION {{[file |-> f, from |-> s.from, to |-> s.to, label |-> s.label,
                           code |-> IF apart THEN (f - 1) * N + s.from ELSE 1] : s \in choice[f]} : f \in DOMAIN choice}
    PROVE  PlanSound(plan)
<1>1. ASSUME NEW f \in F, NEW s \in choice[f], NEW t,
             t = [file |-> f, from |-> s.from, to |-> s.to, label |-> s.label, code |-> IF apart THEN (f - 1) * N + s.from ELSE 1]
      PROVE  /\ t.file = f /\ t.from = s.from /\ t.to = s.to /\ t.label = s.label /\ t.label # Unknown
             /\ t \in Placed /\ t.from <= t.to /\ s \in Spans
  <2>1. choice[f] \in Review /\ f \in File
    OBVIOUS
  <2>2. s \in Spans /\ s.from <= s.to /\ s.label # Unknown
    BY <2>1, LayoutFacts, SplitAssumption
  <2>3. f \in Nat /\ f >= 1 /\ N \in Nat /\ s.from \in Nat /\ s.from \in Page /\ s.to \in Page /\ s.label \in Labels
    BY <2>1, <2>2, SpanType, Sizes DEF File, Page
  <2>4. (f - 1) * N + s.from \in Nat
    <3>1. f - 1 \in Nat
      BY <2>3
    <3>2. (f - 1) * N \in Nat
      BY <2>3, <3>1
    <3> QED
      BY <2>3, <3>2
  <2>5. PICK c \in Nat : c = IF apart THEN (f - 1) * N + s.from ELSE 1
    BY <2>4
  <2>6. t = [file |-> f, from |-> s.from, to |-> s.to, label |-> s.label, code |-> c]
    BY <1>1, <2>5
  <2>7. t \in Placed
    BY <2>1, <2>3, <2>6 DEF Placed
  <2> QED
    BY <2>2, <2>6, <2>7
<1>2. ASSUME NEW t \in plan
      PROVE  \E f \in F : \E s \in choice[f] : /\ t.file = f /\ t.from = s.from /\ t.to = s.to /\ t.label # Unknown
                                               /\ t \in Placed /\ t.from <= t.to /\ s \in Spans
                                               /\ t = [file |-> f, from |-> s.from, to |-> s.to, label |-> s.label,
                                                       code |-> IF apart THEN (f - 1) * N + s.from ELSE 1]
  <2>1. PICK f \in F : \E s \in choice[f] : t = [file |-> f, from |-> s.from, to |-> s.to, label |-> s.label,
                                                 code |-> IF apart THEN (f - 1) * N + s.from ELSE 1]
    OBVIOUS
  <2>2. PICK s \in choice[f] : t = [file |-> f, from |-> s.from, to |-> s.to, label |-> s.label,
                                   code |-> IF apart THEN (f - 1) * N + s.from ELSE 1]
    BY <2>1
  <2>3. /\ t.file = f /\ t.from = s.from /\ t.to = s.to /\ t.label = s.label /\ t.label # Unknown
        /\ t \in Placed /\ t.from <= t.to /\ s \in Spans
    BY <1>1, <2>2
  <2> QED
    BY <2>2, <2>3
<1>3. ASSUME NEW f \in F, NEW s \in choice[f] PROVE \E t \in plan : t.file = f /\ t.from = s.from /\ t.to = s.to
  <2>1. PICK t : t = [file |-> f, from |-> s.from, to |-> s.to, label |-> s.label, code |-> IF apart THEN (f - 1) * N + s.from ELSE 1]
    OBVIOUS
  <2>2. t \in plan
    BY <2>1
  <2> QED
    BY <1>1, <2>1, <2>2
<1>4. plan \subseteq Placed /\ Runs(plan) /\ \A s \in plan : s.label # Unknown
  BY <1>2 DEF Runs
<1>5. Apart(plan)
  <2> SUFFICES ASSUME NEW t \in plan, NEW u \in plan, t.file = u.file, t # u PROVE ~Overlap(t, u)
    BY DEF Apart
  <2>1. PICK f \in F : \E s \in choice[f] : /\ t.file = f /\ t.from = s.from /\ t.to = s.to /\ s \in Spans
                                            /\ t = [file |-> f, from |-> s.from, to |-> s.to, label |-> s.label,
                                                    code |-> IF apart THEN (f - 1) * N + s.from ELSE 1]
    BY <1>2
  <2>2. PICK s \in choice[f] : /\ t.file = f /\ t.from = s.from /\ t.to = s.to /\ s \in Spans
                               /\ t = [file |-> f, from |-> s.from, to |-> s.to, label |-> s.label,
                                       code |-> IF apart THEN (f - 1) * N + s.from ELSE 1]
    BY <2>1
  <2>3. PICK g \in F : \E r \in choice[g] : /\ u.file = g /\ u.from = r.from /\ u.to = r.to /\ r \in Spans
                                            /\ u = [file |-> g, from |-> r.from, to |-> r.to, label |-> r.label,
                                                    code |-> IF apart THEN (g - 1) * N + r.from ELSE 1]
    BY <1>2
  <2>4. PICK r \in choice[f] : /\ u.file = f /\ u.from = r.from /\ u.to = r.to /\ r \in Spans
                               /\ u = [file |-> f, from |-> r.from, to |-> r.to, label |-> r.label,
                                       code |-> IF apart THEN (f - 1) * N + r.from ELSE 1]
    BY <2>2, <2>3
  <2>5. s # r
    BY <2>2, <2>4
  <2>6. choice[f] \in Review
    OBVIOUS
  <2>7. s.to < r.from \/ r.to < s.from
    BY <2>5, <2>6, LayoutFacts
  <2> QED
    BY <2>2, <2>4, <2>7, SpanType DEF Overlap
<1>6. ASSUME NEW t \in plan, NEW n \in Page PROVE \E u \in plan : u.file = t.file /\ n \in u.from..u.to
  <2>1. PICK f \in F : t.file = f
    BY <1>2
  <2>2. choice[f] \in Review
    OBVIOUS
  <2>3. n \in Covers(choice[f])
    BY <2>2, SplitAssumption
  <2>4. PICK s \in choice[f] : n \in s.from..s.to
    BY <2>3 DEF Covers
  <2> QED
    BY <1>3, <2>1, <2>4
<1> QED
  BY <1>4, <1>5, <1>6 DEF PlanSound

LEMMA ProcType ==
    ASSUME doc \in [File -> DocRow], NEW kind \in {"tree", "auto", "save", "ask", "classify"}, NEW id \in Nat, NEW f \in File,
           NEW pc \in {"spans", "save", "start", "queue"}, NEW q, q = Proc(kind, id, f, pc)
    PROVE  /\ q \in ProcRow /\ q.kind = kind /\ q.id = id /\ q.file = f /\ q.pc = pc /\ q.todo = {} /\ q.plan = {}
           /\ q.gen = doc[f].gen /\ q.read = doc[f].gen /\ q.try = 0 /\ q.at = NoTree
<1>1. doc[f].gen \in 1..MaxGen /\ doc[f].gen \in Nat /\ 0 \in 0..MaxTry
  <2>1. doc[f].gen \in 1..MaxGen /\ doc[f].gen \in Nat
    BY DocFields
  <2>2. 0 \in 0..MaxTry
    BY Sizes
  <2> QED
    BY <2>1, <2>2
<1>2. q = [kind |-> kind, id |-> id, file |-> f, gen |-> doc[f].gen, read |-> doc[f].gen, pc |-> pc, try |-> 0, plan |-> {},
           at |-> NoTree, todo |-> {}]
  BY DEF Proc
<1> QED
  BY <1>1, <1>2, NoTreeType DEF ProcRow

LEMMA AskedType ==
    ASSUME SplitInv, NEW F \in SUBSET File, NEW choice \in [F -> Review], NEW apart \in BOOLEAN, SaveAsked(choice, apart)
    PROVE  SplitInv'
<1>1. PICK plan : plan = UNION {{[file |-> f, from |-> s.from, to |-> s.to, label |-> s.label,
                           code |-> IF apart THEN (f - 1) * N + s.from ELSE 1] : s \in choice[f]} : f \in DOMAIN choice}
  OBVIOUS
<1>2. PlanSound(plan) /\ plan \subseteq Placed \cup Spans
  <2>1. PlanSound(plan)
    BY <1>1, PlanAskedSound
  <2> QED
    BY <2>1 DEF PlanSound
<1>3. PICK f \in File : f = CHOOSE g \in DOMAIN choice : TRUE
  <2>1. DOMAIN choice = F /\ F # {}
    BY DEF SaveAsked
  <2> QED
    BY <2>1
<1>4. used.req + 1 \in Nat
  BY DEF SplitInv
<1>5. PICK q : q = Proc("save", used.req + 1, f, "save")
  OBVIOUS
<1>6. q \in ProcRow /\ q.kind = "save" /\ q.pc = "save"
  BY <1>4, <1>5, ProcType DEF SplitInv
<1>7. ProcSound([q EXCEPT !.plan = plan])
  BY <1>2, <1>6 DEF ProcSound, ProcRow
<1>8. procs' = procs \cup {[q EXCEPT !.plan = plan]}
  BY <1>1, <1>3, <1>5 DEF SaveAsked
<1>9. used' \in [req : Nat, crash : Nat]
  BY SpendType DEF SplitInv, SaveAsked, Ask
<1> QED
  BY <1>7, <1>8, <1>9 DEF SplitInv, SaveAsked

LEMMA ClassifyAskedType ==
    ASSUME SplitInv, NEW f \in File, ClassifyAsked(f)
    PROVE  SplitInv'
<1>1. used.req + 1 \in Nat
  BY DEF SplitInv
<1>2. ProcSound(Proc("ask", used.req + 1, f, "queue"))
  BY <1>1, ProcType DEF SplitInv, ProcSound
<1>3. doc' \in [File -> DocRow]
  BY DocFields DEF SplitInv, ClassifyAsked
<1>4. used' \in [req : Nat, crash : Nat]
  BY SpendType DEF SplitInv, ClassifyAsked, Ask
<1> QED
  BY <1>2, <1>3, <1>4 DEF SplitInv, ClassifyAsked

LEMMA ClassifyQueueType ==
    ASSUME SplitInv, NEW p \in procs, NEW ok \in BOOLEAN, ClassifyQueue(p, ok)
    PROVE  SplitInv'
<1>1. ProcSound(p) /\ p.file \in File /\ p.id \in Nat
  BY ProcFields DEF SplitInv, ProcSound
<1>2. ProcSound(Proc("classify", p.id, p.file, "start"))
  BY <1>1, ProcType DEF SplitInv, ProcSound
<1>3. doc' \in [File -> DocRow]
  <2>1. [doc EXCEPT ![p.file].classify = "failed"] \in [File -> DocRow]
    BY <1>1, DocFields DEF SplitInv
  <2>2. doc' = doc \/ doc' = [doc EXCEPT ![p.file].classify = "failed"]
    BY DEF ClassifyQueue
  <2> QED
    BY <2>1, <2>2 DEF SplitInv
<1>4. \A o \in procs' : ProcSound(o)
  BY <1>2, BecomeSound, EndSound DEF SplitInv, ClassifyQueue
<1> QED
  BY <1>3, <1>4 DEF SplitInv, ClassifyQueue

LEMMA TreeType ==
    ASSUME SplitInv, NEW f \in File, NEW gen \in Nat
    PROVE  ProcSound(Tree(f, gen))
<1>1. PICK q : q = Proc("tree", f, f, "spans")
  OBVIOUS
<1>2. f \in Nat
  BY DEF File
<1>3. q \in ProcRow /\ q.kind = "tree" /\ q.id = f /\ q.pc = "spans"
  BY <1>1, <1>2, ProcType DEF SplitInv
<1> QED
  BY <1>1, <1>3 DEF ProcSound, ProcRow, Tree

LEMMA PagesType ==
    ASSUME SplitInv, NEW f \in File, NEW layout \in Layout, Reparse(f, layout) \/ PickPages(f, layout)
    PROVE  SplitInv'
<1>1. doc[f].gen \in Nat /\ doc[f].gen \in 1..MaxGen
  BY DocFields DEF SplitInv
<1>2. used' \in [req : Nat, crash : Nat]
  BY SpendType DEF SplitInv, Reparse, PickPages, Ask
<1>3. CASE Reparse(f, layout)
  <2>1. PICK g \in 1..MaxGen : g = doc[f].gen + 1 /\ g \in Nat
    BY <1>1, <1>3, Sizes DEF Reparse
  <2>2. doc' = [doc EXCEPT ![f].gen = g, ![f].layout = layout, ![f].unbuilt = FALSE]
    BY <1>3, <2>1 DEF Reparse
  <2>3. [doc EXCEPT ![f].gen = g, ![f].layout = layout, ![f].unbuilt = FALSE] \in [File -> DocRow]
    BY DocFields DEF SplitInv
  <2>4. ProcSound(Tree(f, g))
    BY <2>1, TreeType
  <2>5. procs' = procs \cup {Tree(f, g)}
    BY <1>3, <2>1 DEF Reparse
  <2>6. tree' \in [File -> Trees]
    BY <1>3, NoTreeType DEF SplitInv, Reparse
  <2> QED
    BY <1>2, <1>3, <2>2, <2>3, <2>4, <2>5, <2>6 DEF SplitInv, Reparse
<1>4. CASE PickPages(f, layout)
  <2>1. doc' \in [File -> DocRow]
    BY <1>4, DocFields DEF SplitInv, PickPages
  <2>2. ProcSound(Tree(f, doc[f].gen))
    BY <1>1, TreeType
  <2> QED
    BY <1>2, <1>4, <2>1, <2>2 DEF SplitInv, PickPages
<1> QED
  BY <1>3, <1>4

LEMMA SplitInit == Init => SplitInv
<1> SUFFICES ASSUME Init PROVE SplitInv
  OBVIOUS
<1>1. 1 \in 1..MaxGen
  BY Sizes
<1>2. doc \in [File -> DocRow]
  BY <1>1 DEF Init, DocRow
<1>3. SegsSound(segs)
  BY DEF Init, SegsSound, Runs, Whole, Mine
<1>4. ASSUME NEW p \in procs PROVE ProcSound(p)
  <2>1. PICK f \in File : p = [kind |-> "tree", id |-> f, file |-> f, gen |-> 1, read |-> 1, pc |-> "spans", try |-> 0,
                               plan |-> {}, at |-> NoTree, todo |-> {}]
    BY DEF Init
  <2>2. f \in Nat /\ 0 \in 0..MaxTry
    BY Sizes DEF File
  <2> QED
    BY <1>1, <2>1, <2>2, NoTreeType DEF ProcSound, ProcRow
<1>5. tree \in [File -> Trees] /\ used \in [req : Nat, crash : Nat]
  BY NoTreeType DEF Init
<1> QED
  BY <1>2, <1>3, <1>4, <1>5 DEF SplitInv

LEMMA SplitStep == SplitInv /\ [Next]_vars => SplitInv'
<1> SUFFICES ASSUME SplitInv, [Next]_vars PROVE SplitInv'
  OBVIOUS
<1>1. CASE UNCHANGED vars
  BY <1>1 DEF SplitInv, vars
<1>2. ASSUME NEW p \in procs, Step(p) PROVE SplitInv'
  BY <1>2, ReadType, ProposeType, StoreType, ConfirmType, SaveType, NextType, ClassifySaveType, FinishType, ClassifyQueueType DEF Step
<1>3. ASSUME NEW p \in procs, Fails(p) \/ Dies(p) PROVE SplitInv'
  BY <1>3, FinishType, DiesType
<1>4. CASE \E F \in SUBSET File : \E choice \in [F -> Review], apart \in BOOLEAN : SaveAsked(choice, apart)
  BY <1>4, AskedType
<1>5. CASE \E f \in File : ClassifyAsked(f)
  BY <1>5, ClassifyAskedType
<1>6. CASE \E f \in File, layout \in Layout : Reparse(f, layout) \/ PickPages(f, layout)
  BY <1>6, PagesType
<1> QED
  BY <1>1, <1>2, <1>3, <1>4, <1>5, <1>6 DEF Next

(* What the invariant says of a state.                                     *)
LEMMA SplitInvSound == SplitInv => SplitSound
<1> SUFFICES ASSUME SplitInv PROVE SplitSound
  OBVIOUS
<1>1. TypeOK
  <2>1. doc \in [File -> [gen : 1..MaxGen, indexed : BOOLEAN, reviewed : BOOLEAN,
                          classify : {"none", "running", "done", "failed"}, layout : Layout, unbuilt : BOOLEAN]]
    BY DEF SplitInv, DocRow
  <2>2. ASSUME NEW g \in segs
        PROVE  /\ g.file \in File /\ g.gen \in 1..MaxGen
               /\ [from |-> g.from, to |-> g.to, label |-> g.label] \in Spans
               /\ g.src \in {"user", "image", "titles"} /\ g.code \in 0..(Files * N)
    BY DEF SplitInv, SegsSound, Segment, Spans, Labels
  <2>3. \A p \in procs : p.kind \in {"tree", "auto", "save", "ask", "classify"} /\ p.try \in 0..MaxTry
    BY ProcFields DEF SplitInv, ProcSound
  <2> QED
    BY <2>1, <2>2, <2>3 DEF TypeOK
<1>2. OneDocumentPerPage
  BY DEF SplitInv, SegsSound, OneDocumentPerPage
<1>3. ReviewWhole
  <2> SUFFICES ASSUME NEW f \in File, NEW mine, mine = Of(Current(f), "user"), mine # {}
               PROVE  Covers(mine) = Page /\ \A g \in mine : g.code # 0
    BY DEF ReviewWhole
  <2>1. mine = Mine(segs, f, doc[f].gen) /\ doc[f].gen \in 1..MaxGen
    BY DocFields DEF Of, Current, Mine, SplitInv
  <2>2. Whole(segs, f, doc[f].gen)
    BY <2>1 DEF SplitInv, SegsSound
  <2>3. (\A n \in Page : \E g \in mine : n \in g.from..g.to) /\ \A g \in mine : g.code # 0
    BY <2>1, <2>2 DEF Whole
  <2>4. \A g \in mine : \A n \in g.from..g.to : n \in Page
    <3> SUFFICES ASSUME NEW g \in mine, NEW n \in g.from..g.to PROVE n \in Page
      OBVIOUS
    <3>1. g \in Segment
      BY <2>1 DEF Mine, SplitInv, SegsSound
    <3>2. g.from \in 1..N /\ g.to \in 1..N /\ N \in Nat
      BY <3>1, SegmentType, Sizes DEF Page
    <3> QED
      BY <3>2 DEF Page
  <2> QED
    BY <2>3, <2>4 DEF Covers
<1> QED
  BY <1>1, <1>2, <1>3 DEF SplitSound

(* A page of a file is in one document, and a split the user saved covers  *)
(* every page, each document in a bundle, or is gone: whatever proposals,  *)
(* saves, confirmations and readings of the case follow each other, run at *)
(* once, fail or are repeated.  Nothing is assumed of their timing.        *)
THEOREM SplitIsSound == Spec => []SplitSound
<1>1. Init => SplitInv
  BY SplitInit
<1>2. SplitInv /\ [Next]_vars => SplitInv'
  BY SplitStep
<1>3. SplitInv => SplitSound
  BY SplitInvSound
<1> QED
  BY <1>1, <1>2, <1>3, PTL DEF Spec


-----------------------------------------------------------------------------
(* The quiet case: what the user split stands.                             *)

KeepInv ==
    /\ \A g \in segs : g.gen <= doc[g.file].gen
    /\ \A p \in procs : p.pc \in Reading => p.read = doc[p.file].gen
    /\ \A p \in procs : p.pc = "save" => p.kind \in {"auto", "save"}
    /\ \A p, q \in procs : p.pc = "save" /\ q.pc = "save" => p = q
    /\ \A p \in procs : p.kind = "auto" /\ p.pc = "save" =>
          \A f \in File : f \in Planned(p.plan) /\ Mine(segs, f, doc[f].gen) # {} =>
              Text(OfFile(p.plan, f)) = Text(Mine(segs, f, doc[f].gen))

(* A step that reparses nothing leaves the generations.                    *)
LEMMA GenKept ==
    ASSUME SplitInv,
           \/ \E p \in procs : Step(p) \/ Fails(p) \/ Dies(p)
           \/ \E F \in SUBSET File : \E choice \in [F -> Review], apart \in BOOLEAN : SaveAsked(choice, apart)
           \/ \E f \in File : ClassifyAsked(f)
           \/ \E f \in File, layout \in Layout : PickPages(f, layout)
    PROVE  \A h \in File : doc'[h].gen = doc[h].gen
<1>1. doc \in [File -> DocRow] /\ \A f \in File : doc[f] \in DocRow
  BY DEF SplitInv
<1>2. \A f \in File, c \in {"none", "running", "done", "failed"} : \A h \in File : [doc EXCEPT ![f].classify = c][h].gen = doc[h].gen
  BY <1>1 DEF DocRow
<1>3. \A f \in File, l \in Layout : \A h \in File : [doc EXCEPT ![f].layout = l][h].gen = doc[h].gen
  BY <1>1 DEF DocRow
<1>4. \A f \in File : \A h \in File : [doc EXCEPT ![f].indexed = TRUE][h].gen = doc[h].gen
  BY <1>1 DEF DocRow
<1>5. ASSUME NEW p \in procs, p.kind \in {"tree", "auto"}, NEW ok \in BOOLEAN, NEW h \in File PROVE Result(p, ok)[h].gen = doc[h].gen
  BY <1>1, <1>5 DEF Result, DocRow
<1>6. \A p \in procs : p.file \in File
  BY ProcFields DEF SplitInv, ProcSound
<1>7. ASSUME NEW p \in procs, Step(p) PROVE \A h \in File : doc'[h].gen = doc[h].gen
  <2>1. CASE Read(p) \/ Reread(p) \/ Store(p) \/ Confirm(p) \/ ClassifyStart(p) \/ \E f \in File : NextFile(p, f)
    BY <2>1 DEF Read, Reread, Store, Confirm, ClassifyStart, NextFile
  <2>2. CASE Propose(p) \/ \E layout \in Layout : ClassifySave(p, layout)
    <3>1. doc' = [doc EXCEPT ![p.file].classify = "done"]
      BY <2>2 DEF Propose, ClassifySave
    <3>2. \A h \in File : [doc EXCEPT ![p.file].classify = "done"][h].gen = doc[h].gen
      BY <1>2, <1>6
    <3> QED
      BY <3>1, <3>2
  <2>3. CASE Append1(p)
    BY <1>4, <1>6, <2>3 DEF Append1
  <2>4. CASE Save(p)
    <3>1. \A h \in File : doc'[h] = IF h \in Planned(p.plan) THEN [doc[h] EXCEPT !.reviewed = TRUE] ELSE doc[h]
      BY <2>4 DEF Save
    <3> QED
      BY <1>1, <3>1 DEF DocRow
  <2>5. CASE Finish(p)
    BY <1>2, <1>5, <1>6, <2>5 DEF Finish
  <2>6. CASE \E ok \in BOOLEAN : ClassifyQueue(p, ok)
    <3>1. doc' = doc \/ doc' = [doc EXCEPT ![p.file].classify = "failed"]
      BY <2>6 DEF ClassifyQueue
    <3>2. \A h \in File : [doc EXCEPT ![p.file].classify = "failed"][h].gen = doc[h].gen
      BY <1>2, <1>6
    <3> QED
      BY <3>1, <3>2
  <2> QED
    BY <1>7, <2>1, <2>2, <2>3, <2>4, <2>5, <2>6 DEF Step
<1>8. ASSUME NEW p \in procs, Fails(p) PROVE \A h \in File : doc'[h].gen = doc[h].gen
  BY <1>2, <1>5, <1>6, <1>8 DEF Fails
<1>9. ASSUME NEW p \in procs, Dies(p) PROVE \A h \in File : doc'[h].gen = doc[h].gen
  BY <1>9 DEF Dies
<1>10. CASE \E F \in SUBSET File : \E choice \in [F -> Review], apart \in BOOLEAN : SaveAsked(choice, apart)
  BY <1>10 DEF SaveAsked
<1>11. CASE \E f \in File : ClassifyAsked(f)
  BY <1>2, <1>11 DEF ClassifyAsked
<1>12. CASE \E f \in File, layout \in Layout : PickPages(f, layout)
  BY <1>3, <1>12 DEF PickPages
<1> QED
  BY <1>7, <1>8, <1>9, <1>10, <1>11, <1>12

(* A step that changes no segment and starts no save.                      *)
LEMMA KeepQuiet ==
    ASSUME SplitInv, KeepInv, segs' = segs, \A h \in File : doc'[h].gen = doc[h].gen,
           \A o \in procs' : \/ o \in procs
                             \/ o.pc # "save" /\ o.file \in File /\ (o.pc \in Reading => o.read = doc[o.file].gen)
    PROVE  KeepInv'
<1>1. \A g \in segs' : g.gen <= doc'[g.file].gen
  BY SegmentType DEF KeepInv, SplitInv, SegsSound
<1>2. \A p \in procs : p.file \in File
  BY ProcFields DEF SplitInv, ProcSound
<1>3. \A p \in procs' : p.pc \in Reading => p.read = doc'[p.file].gen
  BY <1>2 DEF KeepInv
<1>4. \A p \in procs' : p.pc = "save" => p \in procs
  OBVIOUS
<1>5. \A p \in procs' : p.pc = "save" => p.kind \in {"auto", "save"}
  BY <1>4 DEF KeepInv
<1>6. \A p, q \in procs' : p.pc = "save" /\ q.pc = "save" => p = q
  BY <1>4 DEF KeepInv
<1>7. ASSUME NEW p \in procs', p.kind = "auto", p.pc = "save", NEW f \in File, f \in Planned(p.plan), Mine(segs', f, doc'[f].gen) # {}
      PROVE  Text(OfFile(p.plan, f)) = Text(Mine(segs', f, doc'[f].gen))
  BY <1>4, <1>7 DEF KeepInv
<1> QED
  BY <1>1, <1>3, <1>5, <1>6, <1>7 DEF KeepInv

LEMMA ProcSteps ==
    ASSUME NEW p, NEW q, Become(p, q) \/ End(p)
    PROVE  \A o \in procs' : o \in procs \/ o = q
BY DEF Become, End

LEMMA AgainFits ==
    ASSUME SplitInv, NEW p, NEW t, ProcSound(t), Again(p, t)
    PROVE  \A o \in procs' : o \in procs \/ (o.pc \in {"spans", "start"} /\ o.file = t.file /\ o.file \in File)
<1>1. t.file \in File
  BY ProcFields DEF ProcSound
<1>2. PICK r : r = Proc(t.kind, t.id, t.file, IF t.kind = "classify" THEN "start" ELSE "spans")
  OBVIOUS
<1>3. PICK q : q = [r EXCEPT !.try = t.try + 1, !.gen = t.gen]
  OBVIOUS
<1>4. q.pc \in {"spans", "start"} /\ q.file = t.file
  BY <1>2, <1>3 DEF Proc
<1>5. Become(p, q) \/ End(p)
  BY <1>2, <1>3 DEF Again, Retry
<1> QED
  BY <1>1, <1>4, <1>5 DEF Become, End

LEMMA KeepReads ==
    ASSUME SplitInv, KeepInv, NEW p \in procs, Read(p) \/ Reread(p) \/ Store(p) \/ Append1(p) \/ ClassifyStart(p) \/ (\E f \in File : NextFile(p, f))
    PROVE  KeepInv'
<1>1. \A h \in File : doc'[h].gen = doc[h].gen
  BY GenKept DEF Step
<1>2. p \in ProcRow /\ p.file \in File /\ (p.pc \in Reading => p.read = doc[p.file].gen)
  BY ProcFields DEF SplitInv, ProcSound, KeepInv
<1>3. segs' = segs
  BY DEF Read, Reread, Store, Append1, ClassifyStart, NextFile
<1>4. CASE Read(p)
  <2>1. PICK q : q = [p EXCEPT !.read = doc[p.file].gen]
    OBVIOUS
  <2>2. \/ End(p)
        \/ Become(p, [p EXCEPT !.pc = "next"])
        \/ Become(p, [q EXCEPT !.pc = "propose", !.plan = doc[p.file].layout])
        \/ Become(p, [q EXCEPT !.pc = "store", !.at = Shown(Current(p.file))])
    BY <1>4, <2>1 DEF Read, Goto
  <2>3. q.file = p.file /\ q.read = doc[p.file].gen /\ q \in ProcRow
    <3>1. doc[p.file].gen \in 1..MaxGen
      BY <1>2, DocFields DEF SplitInv
    <3> QED
      BY <1>2, <2>1, <3>1 DEF ProcRow
  <2>4. ASSUME NEW o, o \in {[p EXCEPT !.pc = "next"], [q EXCEPT !.pc = "propose", !.plan = doc[p.file].layout],
                               [q EXCEPT !.pc = "store", !.at = Shown(Current(p.file))]}
        PROVE  o.pc # "save" /\ o.file = p.file /\ (o.pc \in Reading => o.read = doc[p.file].gen)
    BY <1>2, <2>3, <2>4 DEF ProcRow, Reading
  <2>5. \A o \in procs' : o \in procs \/ (o.pc # "save" /\ o.file = p.file /\ (o.pc \in Reading => o.read = doc[p.file].gen))
    BY <2>2, <2>4 DEF Become, End
  <2>6. \A o \in procs' : o \in procs \/ (o.pc # "save" /\ o.file \in File /\ (o.pc \in Reading => o.read = doc[o.file].gen))
    BY <1>2, <2>5
  <2> QED
    BY <1>1, <1>3, <2>6, KeepQuiet
<1>5. CASE Reread(p)
  <2>1. PICK q : q = [p EXCEPT !.pc = "store", !.at = Shown(Current(p.file))]
    OBVIOUS
  <2>2. q.pc = "store" /\ q.file = p.file /\ q.read = doc[p.file].gen
    BY <1>2, <1>5, <2>1 DEF ProcRow, Reading, Reread
  <2>3. Become(p, q)
    BY <1>5, <2>1 DEF Reread
  <2> QED
    BY <1>1, <1>2, <1>3, <2>2, <2>3, KeepQuiet, ProcSteps
<1>6. CASE Store(p) \/ Append1(p)
  <2>1. PICK q : Become(p, q) /\ (q = [p EXCEPT !.at = NoTree, !.pc = IF p.kind = "tree" THEN "append" ELSE "next"] \/ q = [p EXCEPT !.pc = "confirm"])
    BY <1>6 DEF Store, Append1, Goto
  <2>2. q.pc \in {"append", "next", "confirm"} /\ q.file = p.file
    BY <1>2, <2>1 DEF ProcRow
  <2> QED
    BY <1>1, <1>2, <1>3, <2>1, <2>2, KeepQuiet, ProcSteps DEF Reading
<1>7. CASE ClassifyStart(p)
  <2>1. PICK q : q = [p EXCEPT !.pc = "model", !.read = doc[p.file].gen]
    OBVIOUS
  <2>2. q.pc = "model" /\ q.file = p.file /\ q.read = doc[p.file].gen
    BY <1>2, <2>1 DEF ProcRow
  <2>3. Become(p, q)
    BY <1>7, <2>1 DEF ClassifyStart
  <2> QED
    BY <1>1, <1>2, <1>3, <2>2, <2>3, KeepQuiet, ProcSteps
<1>8. ASSUME NEW f \in File, NextFile(p, f) PROVE KeepInv'
  <2>1. PICK q : q = [p EXCEPT !.file = f, !.todo = @ \ {f}, !.pc = "spans"]
    OBVIOUS
  <2>2. q.pc = "spans" /\ q.file = f
    BY <1>2, <2>1 DEF ProcRow
  <2>3. Become(p, q)
    BY <1>8, <2>1 DEF NextFile
  <2> QED
    BY <1>1, <1>2, <1>3, <2>2, <2>3, KeepQuiet, ProcSteps DEF Reading
<1> QED
  BY <1>4, <1>5, <1>6, <1>7, <1>8

LEMMA KeepEnds ==
    ASSUME SplitInv, KeepInv, NEW p \in procs, Finish(p) \/ Fails(p) \/ Dies(p) \/ (\E ok \in BOOLEAN : ClassifyQueue(p, ok))
    PROVE  KeepInv'
<1>1. \A h \in File : doc'[h].gen = doc[h].gen
  BY GenKept DEF Step
<1>2. ProcSound(p) /\ p \in ProcRow /\ p.file \in File /\ p.id \in Nat
  BY ProcFields DEF SplitInv, ProcSound
<1>3. segs' = segs
  BY DEF Finish, Fails, Dies, ClassifyQueue
<1>4. ASSUME \A o \in procs' : o \in procs \/ (o.pc \in {"spans", "start", "next"} /\ o.file \in File) PROVE KeepInv'
  BY <1>1, <1>3, <1>4, KeepQuiet DEF Reading
<1>5. CASE Finish(p)
  BY <1>4, <1>5 DEF Finish, End
<1>6. CASE Fails(p)
  <2>1. CASE p.kind \in {"tree", "classify"}
    <3>1. Again(p, p)
      BY <1>6, <2>1 DEF Fails
    <3> QED
      BY <1>2, <1>4, <3>1, AgainFits
  <2>2. CASE p.kind = "auto"
    <3>1. PICK q : q = [p EXCEPT !.pc = "next", !.todo = {}, !.plan = {}, !.at = NoTree]
      OBVIOUS
    <3>2. q.pc = "next" /\ q.file = p.file
      BY <1>2, <3>1 DEF ProcRow
    <3>3. Become(p, q)
      BY <1>6, <2>2, <3>1 DEF Fails
    <3> QED
      BY <1>2, <1>4, <3>2, <3>3 DEF Become
  <2>3. CASE p.kind \notin {"tree", "classify", "auto"}
    BY <1>4, <1>6, <2>3 DEF Fails, End
  <2> QED
    BY <2>1, <2>2, <2>3
<1>7. CASE Dies(p)
  <2>1. CASE p.kind \in {"tree", "classify"}
    <3>1. Again(p, p)
      BY <1>7, <2>1 DEF Dies
    <3> QED
      BY <1>2, <1>4, <3>1, AgainFits
  <2>2. CASE p.kind = "auto"
    <3>1. PICK q : q = [p EXCEPT !.kind = "tree", !.file = p.id]
      OBVIOUS
    <3>2. ProcSound(q) /\ Again(p, q)
      BY <1>2, <1>7, <2>2, <3>1 DEF ProcSound, ProcRow, Dies
    <3> QED
      BY <1>4, <3>2, AgainFits
  <2>3. CASE p.kind \notin {"tree", "classify", "auto"}
    BY <1>4, <1>7, <2>3 DEF Dies, End
  <2> QED
    BY <2>1, <2>2, <2>3
<1>8. ASSUME NEW ok \in BOOLEAN, ClassifyQueue(p, ok) PROVE KeepInv'
  <2>1. PICK q : q = Proc("classify", p.id, p.file, "start")
    OBVIOUS
  <2>2. q.pc = "start" /\ q.file = p.file
    BY <2>1 DEF Proc
  <2>3. \A o \in procs' : o \in procs \/ o = q
    BY <1>8, <2>1 DEF ClassifyQueue, Become, End
  <2> QED
    BY <1>2, <1>4, <2>2, <2>3
<1> QED
  BY <1>5, <1>6, <1>7, <1>8


LEMMA ProposedMine ==
    ASSUME NEW f, NEW gen, NEW layout, NEW src \in {"image", "titles"}, NEW S, S = Proposed(f, gen, layout, src)
    PROVE  \A h, k : Mine(S, h, k) = IF h = f /\ k # gen THEN {} ELSE Mine(segs, h, k)
<1>1. PICK new : new = {[file |-> f, gen |-> gen, from |-> s.from, to |-> s.to, label |-> s.label, src |-> src, code |-> 0] :
                            s \in {s \in layout : ~\E u \in {g \in segs : g.file = f /\ g.gen = gen /\ g.src = "user"} : Overlap(u, s)}}
  OBVIOUS
<1>2. \A g \in new : g.src # "user"
  BY <1>1
<1>3. S = {g \in segs : g.file # f} \cup {g \in segs : g.file = f /\ g.gen = gen /\ g.src = "user"} \cup new
  BY <1>1 DEF Proposed
<1> QED
  BY <1>2, <1>3 DEF Mine

(* The proposals of a generation are of that generation.                   *)
LEMMA ProposedGens ==
    ASSUME NEW f, NEW gen, NEW layout, NEW src
    PROVE  \A g \in Proposed(f, gen, layout, src) : g \in segs \/ (g.file = f /\ g.gen = gen)
BY DEF Proposed

LEMMA KeepProposed ==
    ASSUME Calm, SplitInv, KeepInv, NEW p \in procs, Propose(p) \/ \E layout \in Layout : ClassifySave(p, layout)
    PROVE  /\ KeepInv'
           /\ \A h \in File : Mine(segs, h, doc[h].gen)' = Mine(segs, h, doc[h].gen)
<1>1. \A h \in File : doc'[h].gen = doc[h].gen
  BY GenKept DEF Step
<1>2. ProcSound(p) /\ p \in ProcRow /\ p.file \in File /\ p.read = doc[p.file].gen /\ p.read \in 1..MaxGen
  BY ProcFields DEF SplitInv, ProcSound, KeepInv, Reading, Propose, ClassifySave
<1>3. PICK layout \in Layout, src \in {"image", "titles"} : segs' = Proposed(p.file, p.read, layout, src)
  BY DEF Propose, ClassifySave, SplitInv, ProcSound
<1>4. \A h \in File, k \in 1..MaxGen : Mine(segs', h, k) = IF h = p.file /\ k # p.read THEN {} ELSE Mine(segs, h, k)
  <2>1. PICK S : S = segs'
    OBVIOUS
  <2>2. S = Proposed(p.file, p.read, layout, src) /\ SegsSound(segs)
    BY <1>3, <2>1 DEF SplitInv
  <2>3. PICK f \in File, gen \in 1..MaxGen : f = p.file /\ gen = p.read
    BY <1>2
  <2>4. S = Proposed(f, gen, layout, src)
    BY <2>2, <2>3
  <2>5. \A h \in File, k \in 1..MaxGen : Mine(S, h, k) = IF h = f /\ k # gen THEN {} ELSE Mine(segs, h, k)
    BY <2>4, ProposedMine
  <2> QED
    BY <2>1, <2>3, <2>5
<1>5. ASSUME NEW h \in File PROVE Mine(segs', h, doc'[h].gen) = Mine(segs, h, doc[h].gen)
  <2>1. doc[h].gen \in 1..MaxGen
    BY DocFields DEF SplitInv
  <2> QED
    BY <1>1, <1>2, <1>4, <2>1
<1>6. \A g \in segs' : g.gen <= doc'[g.file].gen
  <2> SUFFICES ASSUME NEW g \in segs' PROVE g.gen <= doc'[g.file].gen
    OBVIOUS
  <2>1. CASE g \in segs
    <3>1. g.file \in File /\ g.gen <= doc[g.file].gen
      BY <2>1, SegmentType DEF KeepInv, SplitInv, SegsSound
    <3> QED
      BY <1>1, <3>1
  <2>2. CASE g.file = p.file /\ g.gen = p.read
    BY <1>1, <1>2, <2>2
  <2> QED
    BY <1>3, <2>1, <2>2, ProposedGens
<1>7. PICK q : Become(p, q) /\ (q = [p EXCEPT !.pc = "reread", !.plan = {}] \/ q = [p EXCEPT !.pc = "next", !.todo = {p.file}])
  BY DEF Propose, ClassifySave
<1>8. q.pc \in {"reread", "next"} /\ q.file = p.file /\ q.read = p.read
  BY <1>2, <1>7 DEF ProcRow
<1>9. \A o \in procs' : (o \in procs /\ o.file \in File) \/ o = q
  <2>1. \A o \in procs : o.file \in File
    BY ProcFields DEF SplitInv, ProcSound
  <2> QED
    BY <1>7, <2>1, ProcSteps
<1>10. \A o \in procs' : o.pc \in Reading => o.read = doc'[o.file].gen
  <2> SUFFICES ASSUME NEW o \in procs', o.pc \in Reading PROVE o.read = doc'[o.file].gen
    OBVIOUS
  <2>1. CASE o \in procs /\ o.file \in File
    BY <1>1, <2>1 DEF KeepInv
  <2>2. CASE o = q
    BY <1>1, <1>2, <1>8, <2>2
  <2> QED
    BY <1>9, <2>1, <2>2
<1>11. \A o \in procs' : o.pc = "save" => o \in procs
  BY <1>8, <1>9
<1>12. /\ \A o \in procs' : o.pc = "save" => o.kind \in {"auto", "save"}
       /\ \A o, r \in procs' : o.pc = "save" /\ r.pc = "save" => o = r
  BY <1>11 DEF KeepInv
<1>13. ASSUME NEW o \in procs', o.kind = "auto", o.pc = "save", NEW f \in File, f \in Planned(o.plan), Mine(segs', f, doc'[f].gen) # {}
       PROVE  Text(OfFile(o.plan, f)) = Text(Mine(segs', f, doc'[f].gen))
  BY <1>5, <1>11, <1>13 DEF KeepInv
<1>14. KeepInv'
  BY <1>6, <1>10, <1>12, <1>13 DEF KeepInv
<1> QED
  BY <1>5, <1>14

LEMMA KeepConfirm ==
    ASSUME Calm, SplitInv, KeepInv, NEW p \in procs, Confirm(p)
    PROVE  KeepInv'
<1>1. p \in ProcRow /\ p.file \in File /\ UNCHANGED <<doc, segs>> /\ \A o \in procs : o.pc # "save"
  BY ProcFields DEF SplitInv, ProcSound, Confirm, Quiet
<1>2. CASE Goto(p, "next")
  <2>1. PICK q : q = [p EXCEPT !.pc = "next"] /\ Become(p, q)
    BY <1>2 DEF Goto
  <2>2. q.pc = "next" /\ q.file = p.file
    BY <1>1, <2>1 DEF ProcRow
  <2> QED
    BY <1>1, <2>1, <2>2, KeepQuiet, ProcSteps DEF Reading
<1>3. CASE ~Goto(p, "next")
  <2>1. PICK plan : plan = AutoPlan
    OBVIOUS
  <2>2. PICK q : q = [p EXCEPT !.kind = "auto", !.pc = "save", !.plan = plan]
    OBVIOUS
  <2>3. Become(p, q)
    BY <1>3, <2>1, <2>2 DEF Confirm
  <2>4. q.kind = "auto" /\ q.pc = "save" /\ q.plan = plan
    BY <1>1, <2>2 DEF ProcRow
  <2>5. \A o \in procs' : o \in procs \/ o = q
    BY <2>3, ProcSteps
  <2>6. \A f \in File : f \in Planned(plan) /\ Mine(segs, f, doc[f].gen) # {} =>
                            Text(OfFile(plan, f)) = Text(Mine(segs, f, doc[f].gen))
    BY <2>1, AutoPlanKeeps DEF SplitInv
  <2>7. \A o \in procs' : o.pc = "save" => o = q
    BY <1>1, <2>5
  <2>8. /\ \A o \in procs' : o.pc \in Reading => o \in procs
        /\ \A o \in procs' : o.pc = "save" => o.kind \in {"auto", "save"}
        /\ \A o, r \in procs' : o.pc = "save" /\ r.pc = "save" => o = r
    BY <2>4, <2>5, <2>7 DEF Reading
  <2>9. ASSUME NEW o \in procs', o.kind = "auto", o.pc = "save", NEW f \in File, f \in Planned(o.plan), Mine(segs', f, doc'[f].gen) # {}
        PROVE  Text(OfFile(o.plan, f)) = Text(Mine(segs', f, doc'[f].gen))
    BY <1>1, <2>4, <2>6, <2>7, <2>9
  <2> QED
    BY <1>1, <2>8, <2>9 DEF KeepInv
<1> QED
  BY <1>2, <1>3

(* A save leaves what the user's split says, or is the user's.             *)
LEMMA KeepSave ==
    ASSUME SplitInv, KeepInv, NEW p \in procs, Save(p)
    PROVE  /\ KeepInv'
           /\ \A h \in File : Mine(segs, h, doc[h].gen) # {} =>
                 \/ Text(Mine(segs, h, doc[h].gen))' = Text(Mine(segs, h, doc[h].gen))
                 \/ p.kind = "save" /\ p.pc = "save" /\ h \in Planned(p.plan)
<1>1. \A h \in File : doc'[h].gen = doc[h].gen
  BY GenKept DEF Step
<1>2. ProcSound(p) /\ p \in ProcRow /\ p.file \in File /\ PlanSound(p.plan) /\ p.pc = "save" /\ p.kind \in {"auto", "save"}
  BY ProcFields DEF SplitInv, ProcSound, KeepInv, Save
<1>3. segs' = Saved(p.plan)
  BY DEF Save
<1>4. /\ \A h \in File \ Planned(p.plan) : OfFile(segs', h) = OfFile(segs, h)
      /\ \A h \in Planned(p.plan) : Text(Mine(segs', h, doc[h].gen)) = Text(OfFile(p.plan, h))
      /\ \A g \in segs' : g.file \in Planned(p.plan) => g.gen = doc[g.file].gen
  BY <1>2, <1>3, SavedSound DEF SplitInv
<1>5. SegsSound(segs')
  BY <1>2, <1>3, SavedSound DEF SplitInv
<1>6. \A g \in segs' : g.gen <= doc'[g.file].gen
  <2> SUFFICES ASSUME NEW g \in segs' PROVE g.gen <= doc'[g.file].gen
    OBVIOUS
  <2>1. g.file \in File /\ g.gen \in Nat
    BY <1>5, SegmentType, Sizes DEF SegsSound
  <2>2. CASE g.file \in Planned(p.plan)
    BY <1>1, <1>4, <2>1, <2>2
  <2>3. CASE g.file \notin Planned(p.plan)
    <3>1. g \in segs
      BY <1>4, <2>1, <2>3 DEF OfFile
    <3> QED
      BY <1>1, <2>1, <3>1 DEF KeepInv
  <2> QED
    BY <2>2, <2>3
<1>7. PICK q : q = [p EXCEPT !.pc = "next", !.todo = Planned(p.plan), !.plan = {}]
  OBVIOUS
<1>8. q.pc = "next" /\ Become(p, q)
  BY <1>2, <1>7 DEF ProcRow, Save
<1>9. \A o \in procs' : (o \in procs /\ o # p) \/ o = q
  BY <1>8 DEF Become
<1>10. \A o \in procs' : o.pc # "save"
  BY <1>2, <1>8, <1>9 DEF KeepInv
<1>11. \A o \in procs' : o.pc \in Reading => o.read = doc'[o.file].gen
  <2>1. \A o \in procs : o.file \in File
    BY ProcFields DEF SplitInv, ProcSound
  <2> QED
    BY <1>1, <1>8, <1>9, <2>1 DEF KeepInv, Reading
<1>12. KeepInv'
  BY <1>6, <1>10, <1>11 DEF KeepInv
<1>13. ASSUME NEW h \in File, Mine(segs, h, doc[h].gen) # {}, ~(p.kind = "save" /\ h \in Planned(p.plan))
       PROVE  Text(Mine(segs', h, doc'[h].gen)) = Text(Mine(segs, h, doc[h].gen))
  <2>1. doc'[h].gen = doc[h].gen /\ doc[h].gen \in 1..MaxGen
    BY <1>1, DocFields DEF SplitInv
  <2>2. CASE h \notin Planned(p.plan)
    <3>1. Mine(segs', h, doc[h].gen) = Mine(segs, h, doc[h].gen)
      BY <1>4, <2>2 DEF Mine, OfFile
    <3> QED
      BY <2>1, <3>1
  <2>3. CASE h \in Planned(p.plan)
    <3>1. p.kind = "auto"
      BY <1>2, <1>13, <2>3
    <3>2. Text(OfFile(p.plan, h)) = Text(Mine(segs, h, doc[h].gen))
      BY <1>2, <1>13, <2>3, <3>1 DEF KeepInv
    <3> QED
      BY <1>4, <2>1, <2>3, <3>2
  <2> QED
    BY <2>2, <2>3
<1> QED
  BY <1>2, <1>12, <1>13

LEMMA KeepAsked ==
    ASSUME Calm, SplitInv, KeepInv,
           \/ \E F \in SUBSET File : \E choice \in [F -> Review], apart \in BOOLEAN : SaveAsked(choice, apart)
           \/ \E f \in File : ClassifyAsked(f)
           \/ \E f \in File, layout \in Layout : PickPages(f, layout)
    PROVE  KeepInv'
<1>1. \A h \in File : doc'[h].gen = doc[h].gen
  BY GenKept
<1>2. segs' = segs
  BY DEF SaveAsked, ClassifyAsked, PickPages
<1>3. \A o \in procs : o.file \in File
  BY ProcFields DEF SplitInv, ProcSound
<1>4. CASE \E F \in SUBSET File : \E choice \in [F -> Review], apart \in BOOLEAN : SaveAsked(choice, apart)
  <2>1. PICK F \in SUBSET File : \E choice \in [F -> Review], apart \in BOOLEAN : SaveAsked(choice, apart)
    BY <1>4
  <2>2. PICK choice \in [F -> Review], apart \in BOOLEAN : SaveAsked(choice, apart)
    BY <2>1
  <2>3. \A o \in procs : o.pc # "save"
    BY <2>2 DEF SaveAsked, Quiet
  <2>4. PICK q, plan : procs' = procs \cup {[q EXCEPT !.plan = plan]} /\ q = Proc("save", used.req + 1, CHOOSE f \in DOMAIN choice : TRUE, "save")
    BY <2>2 DEF SaveAsked
  <2>5. PICK r : r = [q EXCEPT !.plan = plan]
    OBVIOUS
  <2>6. r.pc = "save" /\ r.kind = "save"
    BY <2>4, <2>5 DEF Proc
  <2>7. \A o \in procs' : o \in procs \/ o = r
    BY <2>4, <2>5
  <2>8. \A o \in procs' : o.pc \in Reading => o.read = doc'[o.file].gen
    BY <1>1, <1>3, <2>6, <2>7 DEF KeepInv, Reading
  <2>9. \A g \in segs' : g.gen <= doc'[g.file].gen
    BY <1>1, <1>2, SegmentType DEF KeepInv, SplitInv, SegsSound
  <2>10. \A o \in procs' : o.pc = "save" => o = r
    BY <2>3, <2>7
  <2> QED
    BY <2>6, <2>8, <2>9, <2>10 DEF KeepInv
<1>5. ASSUME NEW f \in File, ClassifyAsked(f) PROVE KeepInv'
  <2>1. PICK q : q = Proc("ask", used.req + 1, f, "queue")
    OBVIOUS
  <2>2. q.pc = "queue" /\ q.file = f
    BY <2>1 DEF Proc
  <2>3. procs' = procs \cup {q}
    BY <1>5, <2>1 DEF ClassifyAsked
  <2> QED
    BY <1>1, <1>2, <2>2, <2>3, KeepQuiet DEF Reading
<1>6. ASSUME NEW f \in File, NEW layout \in Layout, PickPages(f, layout) PROVE KeepInv'
  <2>1. PICK q : q = Tree(f, doc[f].gen)
    OBVIOUS
  <2>2. q.pc = "spans" /\ q.file = f
    BY <2>1 DEF Proc, Tree
  <2>3. procs' = procs \cup {q}
    BY <1>6, <2>1 DEF PickPages
  <2> QED
    BY <1>1, <1>2, <2>2, <2>3, KeepQuiet DEF Reading
<1> QED
  BY <1>4, <1>5, <1>6

LEMMA KeepReparse ==
    ASSUME Calm, SplitInv, KeepInv, NEW f \in File, NEW layout \in Layout, Reparse(f, layout)
    PROVE  KeepInv' /\ doc'[f].gen # doc[f].gen /\ \A h \in File \ {f} : doc'[h].gen = doc[h].gen
<1>1. doc[f].gen \in Nat /\ doc[f] \in DocRow
  BY DocFields DEF SplitInv
<1>2. doc'[f].gen = doc[f].gen + 1 /\ \A h \in File \ {f} : doc'[h].gen = doc[h].gen
  BY <1>1 DEF SplitInv, Reparse, DocRow
<1>3. segs' = segs /\ \A o \in procs : o.file # f
  BY DEF Reparse, Quiet, Working
<1>4. \A o \in procs : o.file \in File
  BY ProcFields DEF SplitInv, ProcSound
<1>5. PICK q : q = Tree(f, doc[f].gen + 1)
  OBVIOUS
<1>6. q.pc = "spans" /\ procs' = procs \cup {q}
  BY <1>5 DEF Proc, Tree, Reparse
<1>7. \A g \in segs : g.file \in File /\ g.gen \in Nat /\ g.gen <= doc[g.file].gen
  BY SegmentType, Sizes DEF KeepInv, SplitInv, SegsSound
<1>8. \A g \in segs' : g.gen <= doc'[g.file].gen
  <2> SUFFICES ASSUME NEW g \in segs' PROVE g.gen <= doc'[g.file].gen
    OBVIOUS
  <2>1. CASE g.file = f
    BY <1>1, <1>2, <1>3, <1>7, <2>1
  <2>2. CASE g.file # f
    BY <1>2, <1>3, <1>7, <2>2
  <2> QED
    BY <2>1, <2>2
<1>9. \A o \in procs' : o.pc \in Reading => o.read = doc'[o.file].gen
  BY <1>2, <1>3, <1>4, <1>6 DEF KeepInv, Reading
<1>10. \A o \in procs' : o.pc = "save" => o \in procs
  BY <1>6
<1>11. /\ \A o \in procs' : o.pc = "save" => o.kind \in {"auto", "save"}
       /\ \A o, r \in procs' : o.pc = "save" /\ r.pc = "save" => o = r
  BY <1>10 DEF KeepInv
<1>12. ASSUME NEW o \in procs', o.kind = "auto", o.pc = "save", NEW h \in File, h \in Planned(o.plan), Mine(segs', h, doc'[h].gen) # {}
       PROVE  Text(OfFile(o.plan, h)) = Text(Mine(segs', h, doc'[h].gen))
  <2>1. CASE h = f
    <3>1. PICK g \in segs : g.file = f /\ g.gen = doc[f].gen + 1
      BY <1>2, <1>3, <1>12, <2>1 DEF Mine
    <3> QED
      BY <1>1, <1>7, <3>1
  <2>2. CASE h # f
    BY <1>2, <1>3, <1>10, <1>12, <2>2 DEF KeepInv
  <2> QED
    BY <2>1, <2>2
<1>13. KeepInv'
  BY <1>8, <1>9, <1>11, <1>12 DEF KeepInv
<1> QED
  BY <1>1, <1>2, <1>13

LEMMA KeepInit == Init => KeepInv
<1> SUFFICES ASSUME Init PROVE KeepInv
  OBVIOUS
<1>1. segs = {} /\ \A p \in procs : p.pc = "spans"
  BY DEF Init
<1> QED
  BY <1>1 DEF KeepInv, Reading

LEMMA KeepStep == Calm /\ SplitInv /\ KeepInv /\ [Next]_vars => KeepInv'
<1> SUFFICES ASSUME Calm, SplitInv, KeepInv, [Next]_vars PROVE KeepInv'
  OBVIOUS
<1>1. CASE UNCHANGED vars
  BY <1>1 DEF KeepInv, vars
<1>2. ASSUME NEW p \in procs, Step(p) PROVE KeepInv'
  BY <1>2, KeepReads, KeepProposed, KeepConfirm, KeepSave, KeepEnds DEF Step
<1>3. ASSUME NEW p \in procs, Fails(p) \/ Dies(p) PROVE KeepInv'
  BY <1>3, KeepEnds
<1>4. CASE \/ \E F \in SUBSET File : \E choice \in [F -> Review], apart \in BOOLEAN : SaveAsked(choice, apart)
           \/ \E f \in File : ClassifyAsked(f)
           \/ \E f \in File, layout \in Layout : PickPages(f, layout)
  BY <1>4, KeepAsked
<1>5. CASE \E f \in File, layout \in Layout : Reparse(f, layout)
  BY <1>5, KeepReparse
<1> QED
  BY <1>1, <1>2, <1>3, <1>4, <1>5 DEF Next

(* What a step does to the segments.                                       *)
LEMMA StandsStep ==
    ASSUME Calm, SplitInv, KeepInv, [Next]_vars, NEW f \in File, Mine(segs, f, doc[f].gen) # {}, doc'[f].gen = doc[f].gen
    PROVE  \/ Text(Mine(segs, f, doc[f].gen))' = Text(Mine(segs, f, doc[f].gen))
           \/ \E p \in procs : p.kind = "save" /\ p.pc = "save" /\ f \in Planned(p.plan)
<1>1. CASE segs' = segs
  BY <1>1
<1>2. ASSUME NEW p \in procs, Propose(p) \/ \E layout \in Layout : ClassifySave(p, layout)
      PROVE  Mine(segs, f, doc[f].gen)' = Mine(segs, f, doc[f].gen)
  BY <1>2, KeepProposed
<1>3. ASSUME NEW p \in procs, Save(p)
      PROVE  \/ Text(Mine(segs, f, doc[f].gen))' = Text(Mine(segs, f, doc[f].gen))
             \/ p.kind = "save" /\ p.pc = "save" /\ f \in Planned(p.plan)
  BY <1>3, KeepSave
<1>4. \/ segs' = segs
      \/ \E p \in procs : Propose(p) \/ (\E layout \in Layout : ClassifySave(p, layout)) \/ Save(p)
  <2>1. CASE UNCHANGED vars
    BY <2>1 DEF vars
  <2>2. ASSUME NEW p \in procs, Step(p)
        PROVE  segs' = segs \/ Propose(p) \/ (\E layout \in Layout : ClassifySave(p, layout)) \/ Save(p)
    BY <2>2 DEF Step, Read, Reread, Store, Append1, Confirm, NextFile, ClassifyStart, Finish, ClassifyQueue
  <2>3. ASSUME NEW p \in procs, Fails(p) \/ Dies(p) PROVE segs' = segs
    BY <2>3 DEF Fails, Dies
  <2>4. CASE \E F \in SUBSET File : \E choice \in [F -> Review], apart \in BOOLEAN : SaveAsked(choice, apart)
    BY <2>4 DEF SaveAsked
  <2>5. CASE \E g \in File : ClassifyAsked(g)
    BY <2>5 DEF ClassifyAsked
  <2>6. CASE \E g \in File, layout \in Layout : Reparse(g, layout) \/ PickPages(g, layout)
    BY <2>6 DEF Reparse, PickPages
  <2> QED
    BY <2>1, <2>2, <2>3, <2>4, <2>5, <2>6 DEF Next
<1> QED
  BY <1>1, <1>2, <1>3, <1>4

(* What the user's split of a file says changes by a save the user asked   *)
(* for, or with a new generation: no proposal touches it, and the          *)
(* automatic confirmation of another file saves it as it is.  Assumed is   *)
(* the quiet case: of two saves, one ends before the other's plan is made, *)
(* and no file is read again while a task works on it.                     *)
THEOREM SplitStands == ASSUME Calm PROVE Spec => ReviewStands
<1> DEFINE Stands == \A f \in File : (Of(Current(f), "user") # {} /\ doc'[f].gen = doc[f].gen) =>
          \/ Text(Of(Current(f), "user"))' = Text(Of(Current(f), "user"))
          \/ \E p \in procs : p.kind = "save" /\ p.pc = "save" /\ f \in Planned(p.plan)
<1>1. Init => SplitInv /\ KeepInv
  BY SplitInit, KeepInit
<1>2. SplitInv /\ KeepInv /\ [Next]_vars => SplitInv' /\ KeepInv'
  BY SplitStep, KeepStep
<1>3. SplitInv /\ KeepInv /\ [Next]_vars => Stands
  <2> SUFFICES ASSUME SplitInv, KeepInv, [Next]_vars, NEW f \in File, Of(Current(f), "user") # {}, doc'[f].gen = doc[f].gen
               PROVE  \/ Text(Of(Current(f), "user"))' = Text(Of(Current(f), "user"))
                      \/ \E p \in procs : p.kind = "save" /\ p.pc = "save" /\ f \in Planned(p.plan)
    OBVIOUS
  <2>1. Of(Current(f), "user") = Mine(segs, f, doc[f].gen) /\ Of(Current(f), "user")' = Mine(segs', f, doc'[f].gen)
    BY DEF Of, Current, Mine
  <2> QED
    BY <2>1, StandsStep
<1>4. SplitInv /\ KeepInv /\ [Next]_vars => [Stands]_vars
  BY <1>3
<1> QED
  BY <1>1, <1>2, <1>4, PTL DEF Spec, ReviewStands


-----------------------------------------------------------------------------
(* The quiet case: what the screens show.  First, a classification that    *)
(* runs has a request or a task that will end it.                          *)

Classifies(p, f) == p.file = f /\ ((p.kind = "ask" /\ p.pc = "queue") \/ (p.kind = "classify" /\ p.pc \in {"start", "model"}))
RunInv ==
    /\ \A f \in File : doc[f].classify = "running" => \E p \in procs : Classifies(p, f)
    /\ \A p \in procs : p.kind = "ask" => p.pc = "queue"

LEMMA RunQuiet ==
    ASSUME RunInv, NEW p, \A o \in procs : o = p \/ o \in procs',
           \A o \in procs' : o \in procs \/ (o.kind = "ask" => o.pc = "queue"),
           \A h \in File : doc'[h].classify = "running" =>
               (doc[h].classify = "running" /\ (Classifies(p, h) => \E q \in procs' : Classifies(q, h)))
    PROVE  RunInv'
<1>1. \A o \in procs' : o.kind = "ask" => o.pc = "queue"
  BY DEF RunInv
<1>2. ASSUME NEW h \in File, doc'[h].classify = "running" PROVE \E q \in procs' : Classifies(q, h)
  <2>1. PICK o \in procs : Classifies(o, h)
    BY <1>2 DEF RunInv
  <2> QED
    BY <1>2, <2>1
<1> QED
  BY <1>1, <1>2 DEF RunInv

(* What a step makes of the status of classifications.                     *)
LEMMA ClassifyOf ==
    ASSUME doc \in [File -> DocRow], NEW f \in File, NEW h \in File
    PROVE  /\ \A c : [doc EXCEPT ![f].classify = c][h].classify = IF h = f THEN c ELSE doc[h].classify
           /\ [doc EXCEPT ![f].indexed = TRUE][h].classify = doc[h].classify
           /\ \A l : [doc EXCEPT ![f].layout = l][h].classify = doc[h].classify
           /\ \A g, l : [doc EXCEPT ![f].gen = g, ![f].layout = l, ![f].unbuilt = FALSE][h].classify = doc[h].classify
BY DEF DocRow

LEMMA ResultOf ==
    ASSUME SplitInv, NEW p \in procs, p.kind \in {"tree", "auto"}, NEW ok \in BOOLEAN, NEW h \in File
    PROVE  /\ Result(p, ok)[h].classify = doc[h].classify
           /\ Result(p, ok)[h].unbuilt = IF h = p.id /\ p.gen = doc[h].gen THEN ~ok ELSE doc[h].unbuilt
BY DEF Result, DocRow, SplitInv, ProcSound

LEMMA RunReads ==
    ASSUME SplitInv, RunInv, NEW p \in procs,
           Read(p) \/ Propose(p) \/ Reread(p) \/ Store(p) \/ Append1(p) \/ Confirm(p) \/ Save(p) \/ (\E f \in File : NextFile(p, f))
    PROVE  RunInv'
<1>1. p \in ProcRow /\ p.file \in File /\ p.pc \in {"spans", "propose", "reread", "store", "append", "confirm", "save", "next"}
  BY ProcFields DEF SplitInv, ProcSound, Read, Propose, Reread, Store, Append1, Confirm, Save, NextFile
<1>2. p.kind # "ask" /\ \A h : ~Classifies(p, h)
  BY <1>1 DEF RunInv, Classifies
<1>3. \E q : (Become(p, q) \/ End(p)) /\ q.kind # "ask"
  <2>1. CASE Read(p)
    <3>1. PICK r : r = [p EXCEPT !.read = doc[p.file].gen]
      OBVIOUS
    <3>2. r.kind = p.kind /\ r \in ProcRow
      <4>1. doc[p.file].gen \in 1..MaxGen
        BY <1>1, DocFields DEF SplitInv
      <4> QED
        BY <1>1, <3>1, <4>1 DEF ProcRow
    <3>3. \/ End(p)
          \/ Become(p, [p EXCEPT !.pc = "next"])
          \/ Become(p, [r EXCEPT !.pc = "propose", !.plan = doc[p.file].layout])
          \/ Become(p, [r EXCEPT !.pc = "store", !.at = Shown(Current(p.file))])
      BY <2>1, <3>1 DEF Read, Goto
    <3>4. ASSUME NEW o, o \in {p, [p EXCEPT !.pc = "next"], [r EXCEPT !.pc = "propose", !.plan = doc[p.file].layout],
                                 [r EXCEPT !.pc = "store", !.at = Shown(Current(p.file))]}
          PROVE  o.kind = p.kind
      BY <1>1, <3>2, <3>4 DEF ProcRow
    <3> QED
      BY <1>2, <3>3, <3>4
  <2>2. CASE Propose(p) \/ Reread(p) \/ Store(p) \/ Append1(p)
    <3>1. PICK q : Become(p, q) /\ (\/ q = [p EXCEPT !.pc = "reread", !.plan = {}]
                                    \/ q = [p EXCEPT !.pc = "store", !.at = Shown(Current(p.file))]
                                    \/ q = [p EXCEPT !.at = NoTree, !.pc = IF p.kind = "tree" THEN "append" ELSE "next"]
                                    \/ q = [p EXCEPT !.pc = "confirm"])
      BY <2>2 DEF Propose, Reread, Store, Append1, Goto
    <3>2. q.kind = p.kind
      BY <1>1, <3>1 DEF ProcRow
    <3> QED
      BY <1>2, <3>1, <3>2
  <2>3. CASE Confirm(p)
    <3>1. PICK plan : plan = AutoPlan
      OBVIOUS
    <3>2. PICK q : Become(p, q) /\ (q = [p EXCEPT !.pc = "next"] \/ q = [p EXCEPT !.kind = "auto", !.pc = "save", !.plan = plan])
      BY <2>3, <3>1 DEF Confirm, Goto
    <3>3. q.kind \in {p.kind, "auto"}
      BY <1>1, <3>2 DEF ProcRow
    <3> QED
      BY <1>2, <3>2, <3>3
  <2>4. CASE Save(p) \/ \E f \in File : NextFile(p, f)
    <3>1. PICK f, q : Become(p, q) /\ (q = [p EXCEPT !.pc = "next", !.todo = Planned(p.plan), !.plan = {}]
                                       \/ q = [p EXCEPT !.file = f, !.todo = @ \ {f}, !.pc = "spans"])
      BY <2>4 DEF Save, NextFile
    <3>2. q.kind = p.kind
      BY <1>1, <3>1 DEF ProcRow
    <3> QED
      BY <1>2, <3>1, <3>2
  <2> QED
    BY <2>1, <2>2, <2>3, <2>4
<1>4. PICK q : (Become(p, q) \/ End(p)) /\ q.kind # "ask"
  BY <1>3
<1>5. (\A o \in procs : o = p \/ o \in procs') /\ \A o \in procs' : o \in procs \/ (o.kind = "ask" => o.pc = "queue")
  BY <1>4 DEF Become, End
<1>6. ASSUME NEW h \in File, doc'[h].classify = "running" PROVE doc[h].classify = "running"
  <2>1. CASE Propose(p)
    <3>1. doc'[h].classify = IF h = p.file THEN "done" ELSE doc[h].classify
      BY <1>1, <2>1, ClassifyOf DEF SplitInv, Propose
    <3> QED
      BY <1>6, <3>1
  <2>2. CASE Append1(p)
    BY <1>1, <1>6, <2>2, ClassifyOf DEF SplitInv, Append1
  <2>3. CASE Save(p)
    <3>1. doc'[h] = IF h \in Planned(p.plan) THEN [doc[h] EXCEPT !.reviewed = TRUE] ELSE doc[h]
      BY <2>3 DEF Save
    <3> QED
      BY <1>6, <3>1 DEF SplitInv, DocRow
  <2>4. CASE UNCHANGED doc
    BY <1>6, <2>4
  <2> QED
    BY <2>1, <2>2, <2>3, <2>4 DEF Read, Reread, Store, Confirm, NextFile
<1> QED
  BY <1>2, <1>5, <1>6, RunQuiet

LEMMA RunClassify ==
    ASSUME SplitInv, RunInv, NEW p \in procs,
           ClassifyStart(p) \/ (\E layout \in Layout : ClassifySave(p, layout)) \/ Finish(p) \/ (\E ok \in BOOLEAN : ClassifyQueue(p, ok))
    PROVE  RunInv'
<1>1. p \in ProcRow /\ p.file \in File
  BY ProcFields DEF SplitInv, ProcSound
<1>2. CASE ClassifyStart(p)
  <2>1. PICK q : q = [p EXCEPT !.pc = "model", !.read = doc[p.file].gen]
    OBVIOUS
  <2>2. q.pc = "model" /\ q.file = p.file /\ q.kind = p.kind /\ p.kind # "ask"
    BY <1>1, <1>2, <2>1 DEF ProcRow, ClassifyStart, RunInv
  <2>3. Become(p, q) /\ doc' = doc
    BY <1>2, <2>1 DEF ClassifyStart
  <2>4. \A h : Classifies(p, h) => Classifies(q, h)
    BY <2>2 DEF Classifies
  <2> QED
    BY <2>2, <2>3, <2>4, RunQuiet DEF Become
<1>3. ASSUME NEW layout \in Layout, ClassifySave(p, layout) PROVE RunInv'
  <2>1. PICK q : q = [p EXCEPT !.pc = "next", !.todo = {p.file}]
    OBVIOUS
  <2>2. q.kind = p.kind /\ p.kind # "ask"
    BY <1>1, <1>3, <2>1 DEF ProcRow, ClassifySave, RunInv
  <2>3. Become(p, q)
    BY <1>3, <2>1 DEF ClassifySave
  <2>4. \A h \in File : doc'[h].classify = IF h = p.file THEN "done" ELSE doc[h].classify
    BY <1>1, <1>3, ClassifyOf DEF SplitInv, ClassifySave
  <2>5. \A h \in File : doc'[h].classify = "running" => doc[h].classify = "running" /\ ~Classifies(p, h)
    BY <2>4 DEF Classifies
  <2> QED
    BY <2>2, <2>3, <2>5, RunQuiet DEF Become
<1>4. CASE Finish(p)
  <2>1. \A h : ~Classifies(p, h)
    BY <1>4 DEF Finish, Classifies
  <2>2. ASSUME NEW h \in File PROVE doc'[h].classify \in {doc[h].classify, "failed"}
    <3>1. CASE p.kind \in {"tree", "auto"}
      BY <1>4, <3>1, ResultOf DEF Finish
    <3>2. CASE p.kind = "classify" /\ p.try = MaxTry
      <4>1. doc' = [doc EXCEPT ![p.file].classify = "failed"]
        BY <1>4, <3>2 DEF Finish
      <4>2. \A g \in File : doc'[g].classify = IF g = p.file THEN "failed" ELSE doc[g].classify
        BY <1>1, <4>1, ClassifyOf DEF SplitInv
      <4> QED
        BY <1>1, <4>2
    <3>3. CASE ~(p.kind \in {"tree", "auto"}) /\ ~(p.kind = "classify" /\ p.try = MaxTry)
      BY <1>4, <3>3 DEF Finish
    <3> QED
      BY <3>1, <3>2, <3>3
  <2>3. End(p)
    BY <1>4 DEF Finish
  <2> QED
    BY <2>1, <2>2, <2>3, RunQuiet DEF End
<1>5. ASSUME NEW ok \in BOOLEAN, ClassifyQueue(p, ok) PROVE RunInv'
  <2>1. CASE ok
    <3>1. PICK q : q = Proc("classify", p.id, p.file, "start")
      OBVIOUS
    <3>2. q.kind = "classify" /\ q.pc = "start" /\ q.file = p.file
      BY <3>1 DEF Proc
    <3>3. Become(p, q) /\ doc' = doc
      BY <1>5, <2>1, <3>1 DEF ClassifyQueue
    <3>4. \A h : Classifies(p, h) => Classifies(q, h)
      BY <3>2 DEF Classifies
    <3> QED
      BY <3>2, <3>3, <3>4, RunQuiet DEF Become
  <2>2. CASE ~ok
    <3>1. doc' = [doc EXCEPT ![p.file].classify = "failed"] /\ End(p)
      BY <1>5, <2>2 DEF ClassifyQueue
    <3>2. \A h \in File : doc'[h].classify = IF h = p.file THEN "failed" ELSE doc[h].classify
      BY <1>1, <3>1, ClassifyOf DEF SplitInv
    <3>3. \A h \in File : doc'[h].classify = "running" => doc[h].classify = "running" /\ ~Classifies(p, h)
      BY <3>2 DEF Classifies
    <3> QED
      BY <3>1, <3>3, RunQuiet DEF End
  <2> QED
    BY <2>1, <2>2
<1> QED
  BY <1>2, <1>3, <1>4, <1>5

(* A task that is tried again.                                             *)
LEMMA AgainForm ==
    ASSUME NEW p, NEW t, Again(p, t), p.try < MaxTry
    PROVE  \E q : /\ Become(p, q) /\ q.kind = t.kind /\ q.id = t.id /\ q.file = t.file /\ q.gen = t.gen /\ q.todo = {}
                  /\ q.pc = IF t.kind = "classify" THEN "start" ELSE "spans"
<1>1. PICK r : r = Proc(t.kind, t.id, t.file, IF t.kind = "classify" THEN "start" ELSE "spans")
  OBVIOUS
<1>2. PICK q : q = [r EXCEPT !.try = t.try + 1, !.gen = t.gen]
  OBVIOUS
<1>3. /\ q.kind = t.kind /\ q.id = t.id /\ q.file = t.file /\ q.gen = t.gen /\ q.todo = {}
      /\ q.pc = IF t.kind = "classify" THEN "start" ELSE "spans"
  BY <1>1, <1>2 DEF Proc
<1>4. Become(p, q)
  BY <1>1, <1>2 DEF Again, Retry
<1> QED
  BY <1>3, <1>4

LEMMA RunFails ==
    ASSUME Calm, SplitInv, RunInv, NEW p \in procs, Fails(p) \/ Dies(p)
    PROVE  RunInv'
<1>1. p \in ProcRow /\ p.file \in File /\ p.kind # "ask"
  BY ProcFields DEF SplitInv, ProcSound, Fails, MayFail, Dies, Quiet, RunInv
<1>2. CASE Fails(p)
  <2>1. ASSUME NEW h \in File
        PROVE  doc'[h].classify \in {doc[h].classify, "failed"} /\ (p.kind = "classify" /\ p.try = MaxTry => doc'[p.file].classify = "failed")
    <3>1. CASE p.kind = "tree" /\ p.try = MaxTry
      <4>1. doc' = Result(p, FALSE)
        BY <1>2, <3>1 DEF Fails
      <4> QED
        BY <3>1, <4>1, ResultOf
    <3>2. CASE p.kind = "classify" /\ p.try = MaxTry
      <4>1. doc' = [doc EXCEPT ![p.file].classify = "failed"]
        BY <1>2, <3>2 DEF Fails
      <4>2. \A g \in File : doc'[g].classify = IF g = p.file THEN "failed" ELSE doc[g].classify
        BY <1>1, <4>1, ClassifyOf DEF SplitInv
      <4> QED
        BY <1>1, <4>2
    <3>3. CASE ~(p.kind = "tree" /\ p.try = MaxTry) /\ ~(p.kind = "classify" /\ p.try = MaxTry)
      BY <1>2, <3>3 DEF Fails
    <3> QED
      BY <3>1, <3>2, <3>3
  <2>2. CASE p.kind = "classify" /\ p.try # MaxTry
    <3>1. Again(p, p) /\ p.try < MaxTry
      BY <1>1, <1>2, <2>2, ProcFields, Sizes DEF Fails
    <3>2. PICK q : Become(p, q) /\ q.kind = p.kind /\ q.file = p.file /\ q.pc = IF p.kind = "classify" THEN "start" ELSE "spans"
      BY <3>1, AgainForm
    <3>3. \A h : Classifies(p, h) => Classifies(q, h)
      BY <2>2, <3>2 DEF Classifies
    <3>4. doc' = doc
      BY <1>2, <2>2 DEF Fails
    <3> QED
      BY <2>2, <3>2, <3>3, <3>4, RunQuiet DEF Become
  <2>3. CASE ~(p.kind = "classify" /\ p.try # MaxTry)
    <3>1. \A h \in File : doc'[h].classify = "running" => doc[h].classify = "running" /\ ~Classifies(p, h)
      BY <1>1, <2>1, <2>3 DEF Classifies
    <3>2. \E q : (Become(p, q) \/ End(p)) /\ q.kind # "ask"
      <4>1. CASE p.kind \in {"tree", "classify"}
        <5>1. Again(p, p)
          BY <1>2, <4>1 DEF Fails
        <5>2. End(p) \/ p.try < MaxTry
          BY <5>1 DEF Again
        <5> QED
          BY <1>1, <5>1, <5>2, AgainForm
      <4>2. CASE p.kind = "auto"
        <5>1. PICK q : q = [p EXCEPT !.pc = "next", !.todo = {}, !.plan = {}, !.at = NoTree]
          OBVIOUS
        <5>2. q.kind = p.kind /\ Become(p, q)
          BY <1>1, <1>2, <4>2, <5>1 DEF ProcRow, Fails
        <5> QED
          BY <1>1, <5>2
      <4>3. CASE p.kind \notin {"tree", "classify", "auto"}
        BY <1>1, <1>2, <4>3 DEF Fails
      <4> QED
        BY <4>1, <4>2, <4>3
    <3>3. PICK q : (Become(p, q) \/ End(p)) /\ q.kind # "ask"
      BY <3>2
    <3> QED
      BY <3>1, <3>3, RunQuiet DEF Become, End
  <2> QED
    BY <2>2, <2>3
<1>3. CASE Dies(p)
  <2>1. p.kind \in {"tree", "classify"} /\ p.try < MaxTry /\ Again(p, p) /\ doc' = doc
    BY <1>3 DEF Dies, Quiet
  <2>2. PICK q : Become(p, q) /\ q.kind = p.kind /\ q.file = p.file /\ q.pc = IF p.kind = "classify" THEN "start" ELSE "spans"
    BY <2>1, AgainForm
  <2>3. \A h : Classifies(p, h) => Classifies(q, h)
    BY <2>1, <2>2 DEF Classifies
  <2> QED
    BY <1>1, <2>1, <2>2, <2>3, RunQuiet DEF Become
<1> QED
  BY <1>2, <1>3

LEMMA RunAsked ==
    ASSUME SplitInv, RunInv,
           \/ \E F \in SUBSET File : \E choice \in [F -> Review], apart \in BOOLEAN : SaveAsked(choice, apart)
           \/ \E f \in File : ClassifyAsked(f)
           \/ \E f \in File, layout \in Layout : Reparse(f, layout) \/ PickPages(f, layout)
    PROVE  RunInv'
<1>1. CASE \E F \in SUBSET File : \E choice \in [F -> Review], apart \in BOOLEAN : SaveAsked(choice, apart)
  <2>1. PICK F \in SUBSET File : \E choice \in [F -> Review], apart \in BOOLEAN : SaveAsked(choice, apart)
    BY <1>1
  <2>2. PICK choice \in [F -> Review], apart \in BOOLEAN : SaveAsked(choice, apart)
    BY <2>1
  <2>3. PICK q, plan : procs' = procs \cup {[q EXCEPT !.plan = plan]} /\ q = Proc("save", used.req + 1, CHOOSE f \in DOMAIN choice : TRUE, "save")
    BY <2>2 DEF SaveAsked
  <2>4. PICK r : r = [q EXCEPT !.plan = plan]
    OBVIOUS
  <2>5. r.kind = "save"
    BY <2>3, <2>4 DEF Proc
  <2>6. doc' = doc
    BY <2>2 DEF SaveAsked
  <2> QED
    BY <2>3, <2>4, <2>5, <2>6 DEF RunInv
<1>2. ASSUME NEW f \in File, ClassifyAsked(f) PROVE RunInv'
  <2>1. PICK q : q = Proc("ask", used.req + 1, f, "queue")
    OBVIOUS
  <2>2. q.kind = "ask" /\ q.pc = "queue" /\ q.file = f /\ procs' = procs \cup {q}
    BY <1>2, <2>1 DEF Proc, ClassifyAsked
  <2>3. \A h \in File : doc'[h].classify = IF h = f THEN "running" ELSE doc[h].classify
    BY <1>2, ClassifyOf DEF SplitInv, ClassifyAsked
  <2>4. Classifies(q, f)
    BY <2>2 DEF Classifies
  <2> QED
    BY <2>2, <2>3, <2>4 DEF RunInv
<1>3. ASSUME NEW f \in File, NEW layout \in Layout, Reparse(f, layout) \/ PickPages(f, layout) PROVE RunInv'
  <2>1. PICK g : procs' = procs \cup {Tree(f, g)}
    BY <1>3 DEF Reparse, PickPages
  <2>2. Tree(f, g).kind = "tree"
    BY DEF Tree, Proc
  <2>3. \A h \in File : doc'[h].classify = doc[h].classify
    <3>1. PICK n : n = doc[f].gen + 1
      OBVIOUS
    <3>2. \/ doc' = [doc EXCEPT ![f].gen = n, ![f].layout = layout, ![f].unbuilt = FALSE]
          \/ doc' = [doc EXCEPT ![f].layout = layout]
      BY <1>3, <3>1 DEF Reparse, PickPages
    <3>3. CASE doc' = [doc EXCEPT ![f].gen = n, ![f].layout = layout, ![f].unbuilt = FALSE]
      <4>1. \A h \in File : [doc EXCEPT ![f].gen = n, ![f].layout = layout, ![f].unbuilt = FALSE][h].classify = doc[h].classify
        BY DEF SplitInv, DocRow
      <4> QED
        BY <3>3, <4>1
    <3>4. CASE doc' = [doc EXCEPT ![f].layout = layout]
      <4>1. \A h \in File : [doc EXCEPT ![f].layout = layout][h].classify = doc[h].classify
        BY ClassifyOf DEF SplitInv
      <4> QED
        BY <3>4, <4>1
    <3> QED
      BY <3>2, <3>3, <3>4
  <2> QED
    BY <2>1, <2>2, <2>3 DEF RunInv
<1> QED
  BY <1>1, <1>2, <1>3

LEMMA RunInit == Init => RunInv
<1> SUFFICES ASSUME Init PROVE RunInv
  OBVIOUS
<1>1. (\A f \in File : doc[f].classify = "none") /\ \A p \in procs : p.kind = "tree"
  <2>1. \A f \in File : doc[f] \in [gen : {1}, indexed : {FALSE}, reviewed : {FALSE}, classify : {"none"}, layout : Layout,
                                  unbuilt : {FALSE}]
    BY DEF Init
  <2>2. \A p \in procs : p.kind = "tree"
    BY DEF Init
  <2> QED
    BY <2>1, <2>2
<1> QED
  BY <1>1 DEF RunInv

LEMMA RunStep == Calm /\ SplitInv /\ RunInv /\ [Next]_vars => RunInv'
<1> SUFFICES ASSUME Calm, SplitInv, RunInv, [Next]_vars PROVE RunInv'
  OBVIOUS
<1>1. CASE UNCHANGED vars
  BY <1>1 DEF RunInv, vars
<1>2. ASSUME NEW p \in procs, Step(p) PROVE RunInv'
  BY <1>2, RunReads, RunClassify DEF Step
<1>3. ASSUME NEW p \in procs, Fails(p) \/ Dies(p) PROVE RunInv'
  BY <1>3, RunFails
<1>4. CASE \/ \E F \in SUBSET File : \E choice \in [F -> Review], apart \in BOOLEAN : SaveAsked(choice, apart)
           \/ \E f \in File : ClassifyAsked(f)
           \/ \E f \in File, layout \in Layout : Reparse(f, layout) \/ PickPages(f, layout)
  BY <1>4, RunAsked
<1> QED
  BY <1>1, <1>2, <1>3, <1>4 DEF Next


-----------------------------------------------------------------------------
(* Who works on the trees: one task builds a file's for the generation     *)
(* there is, and one process at a time.                                    *)

Builds == {"propose", "reread", "store"}
Loose(p) == p.kind \in {"tree", "auto"}

Formed(p) ==
    /\ p.pc \notin {"next", "spans"} \cup Builds => p.todo = {}
    /\ p.kind = "tree" => p.todo = {} /\ p.id = p.file /\ p.gen = doc[p.file].gen /\ p.pc \in {"spans", "append", "confirm", "next"} \cup Builds
    /\ Loose(p) => p.gen <= doc[p.id].gen

FormInv ==
    /\ \A p \in procs : Formed(p)
    /\ \A p, q \in procs : Loose(p) /\ Loose(q) /\ p.id = q.id /\ p.gen = doc[p.id].gen /\ q.gen = doc[q.id].gen => p = q
    /\ \A p, q \in procs : p.file = q.file /\ p.pc \in Builds /\ q.pc \in Builds => p = q

(* A process that goes on, or ends.                                        *)
LEMMA FormMoves ==
    ASSUME SplitInv, FormInv, \A h \in File : doc'[h].gen = doc[h].gen, NEW p \in procs, NEW q,
           Become(p, q) \/ End(p), ProcSound(q), Formed(q),
           Loose(q) => Loose(p) /\ p.id = q.id /\ p.gen = q.gen,
           q.pc \in Builds => (p.pc \in Builds /\ p.file = q.file) \/ ~Building(q.file)
    PROVE  FormInv'
<1>1. \A o \in procs' : (o \in procs /\ o # p) \/ o = q
  BY DEF Become, End
<1>2. \A o \in procs' : ProcSound(o) /\ o.file \in File /\ (Loose(o) => o.id \in File)
  <2>1. \A o \in procs' : ProcSound(o)
    BY <1>1 DEF SplitInv
  <2> QED
    BY <2>1, ProcFields DEF ProcSound, Loose
<1>3. \A o \in procs' : Formed(o)
  BY <1>1 DEF FormInv
<1>4. \A o \in procs' : Formed(o)'
  BY <1>2, <1>3 DEF Formed, Loose
<1>5. ASSUME NEW o \in procs', NEW r \in procs', Loose(o), Loose(r), o.id = r.id, o.gen = doc'[o.id].gen, r.gen = doc'[r.id].gen
      PROVE  o = r
  <2>1. o.gen = doc[o.id].gen /\ r.gen = doc[r.id].gen
    BY <1>2, <1>5
  <2> QED
    BY <1>1, <1>5, <2>1 DEF FormInv
<1>6. ASSUME NEW o \in procs', NEW r \in procs', o.file = r.file, o.pc \in Builds, r.pc \in Builds
      PROVE  o = r
  <2>1. CASE o \in procs /\ o # p /\ r \in procs /\ r # p
    BY <1>6, <2>1 DEF FormInv
  <2>2. ASSUME NEW s \in procs, s # p, s.pc \in Builds, s.file = q.file, q.pc \in Builds PROVE FALSE
    <3>1. Building(q.file)
      BY <2>2 DEF Building, Builds
    <3> QED
      BY <2>2, <3>1 DEF FormInv
  <2> QED
    BY <1>1, <1>6, <2>1, <2>2
<1> QED
  BY <1>4, <1>5, <1>6 DEF FormInv

(* A process that is new and builds nothing.                               *)
LEMMA FormAdds ==
    ASSUME SplitInv, FormInv, \A h \in File : doc'[h].gen = doc[h].gen, NEW q, procs' = procs \cup {q},
           ~Loose(q), q.pc \notin {"next", "spans"} \cup Builds, q.todo = {}
    PROVE  FormInv'
<1>1. \A o \in procs : o.file \in File /\ (Loose(o) => o.id \in File)
  BY ProcFields DEF SplitInv, ProcSound, Loose
<1>2. \A o \in procs : Formed(o)'
  BY <1>1 DEF FormInv, Formed, Loose
<1>3. Formed(q)'
  BY DEF Formed, Loose
<1>4. \A o, r \in procs' : Loose(o) /\ Loose(r) /\ o.id = r.id /\ o.gen = doc'[o.id].gen /\ r.gen = doc'[r.id].gen => o = r
  BY <1>1 DEF FormInv
<1>5. \A o, r \in procs' : o.file = r.file /\ o.pc \in Builds /\ r.pc \in Builds => o = r
  BY DEF FormInv
<1> QED
  BY <1>2, <1>3, <1>4, <1>5 DEF FormInv

LEMMA FormSteps ==
    ASSUME Calm, SplitInv, KeepInv, FormInv, NEW p \in procs, Step(p)
    PROVE  FormInv'
<1>1. \A h \in File : doc'[h].gen = doc[h].gen
  BY GenKept
<1>2. ProcSound(p) /\ p \in ProcRow /\ p.file \in File /\ Formed(p) /\ p.id \in Nat /\ (Loose(p) => p.id \in File)
  BY ProcFields DEF SplitInv, ProcSound, FormInv, Loose
<1>3. SplitInv'
  BY SplitStep DEF Next
<1>4. ASSUME NEW q, Become(p, q), q.kind = p.kind, q.id = p.id, q.gen = p.gen, q.todo = p.todo, q.file = p.file,
             \/ p.pc \in Builds /\ q.pc \in {"propose", "reread", "store", "append", "next"}
             \/ p.pc \in {"append", "confirm", "start", "spans"} /\ q.pc \in {"confirm", "next", "model"}
             \/ p.pc = "spans" /\ q.pc \in {"propose", "store"} /\ ~Building(p.file),
             p.kind = "tree" => q.pc # "model", q.pc \in {"append", "confirm", "model"} => p.todo = {}
      PROVE  FormInv'
  <2>1. ProcSound(q)
    BY <1>3, <1>4 DEF SplitInv, Become
  <2>2. Formed(q)
    BY <1>2, <1>4 DEF Formed, Builds, Loose
  <2> QED
    BY <1>1, <1>4, <2>1, <2>2, FormMoves DEF Loose, Builds
<1>5. CASE Read(p)
  <2>1. PICK r : r = [p EXCEPT !.read = doc[p.file].gen]
    OBVIOUS
  <2>2. r.kind = p.kind /\ r.id = p.id /\ r.gen = p.gen /\ r.todo = p.todo /\ r.file = p.file /\ r \in ProcRow
    <3>1. doc[p.file].gen \in 1..MaxGen
      BY <1>2, DocFields DEF SplitInv
    <3> QED
      BY <1>2, <2>1, <3>1 DEF ProcRow
  <2>3. p.pc = "spans" /\ ~Building(p.file)
    BY <1>5 DEF Read, Quiet
  <2>4. \/ End(p)
        \/ \E q : Become(p, q) /\ (\/ q = [p EXCEPT !.pc = "next"]
                                   \/ q = [r EXCEPT !.pc = "propose", !.plan = doc[p.file].layout]
                                   \/ q = [r EXCEPT !.pc = "store", !.at = Shown(Current(p.file))])
    BY <1>5, <2>1 DEF Read, Goto
  <2>5. CASE End(p)
    BY <1>1, <1>2, <2>3, <2>5, FormMoves DEF Builds
  <2>6. ASSUME NEW q, Become(p, q), \/ q = [p EXCEPT !.pc = "next"]
                                    \/ q = [r EXCEPT !.pc = "propose", !.plan = doc[p.file].layout]
                                    \/ q = [r EXCEPT !.pc = "store", !.at = Shown(Current(p.file))]
        PROVE  FormInv'
    <3>1. q.kind = p.kind /\ q.id = p.id /\ q.gen = p.gen /\ q.todo = p.todo /\ q.file = p.file /\ q.pc \in {"next", "propose", "store"}
      BY <1>2, <2>2, <2>6 DEF ProcRow
    <3> QED
      BY <1>4, <2>3, <2>6, <3>1
  <2> QED
    BY <2>4, <2>5, <2>6
<1>6. CASE Propose(p) \/ Reread(p) \/ Store(p) \/ Append1(p)
  <2>1. PICK q : Become(p, q) /\ (\/ q = [p EXCEPT !.pc = "reread", !.plan = {}]
                                  \/ q = [p EXCEPT !.pc = "store", !.at = Shown(Current(p.file))]
                                  \/ q = [p EXCEPT !.at = NoTree, !.pc = IF p.kind = "tree" THEN "append" ELSE "next"] /\ p.pc \in Builds
                                  \/ q = [p EXCEPT !.pc = "confirm"] /\ p.pc = "append")
                 /\ p.pc \in Builds \cup {"append"} /\ (p.pc = "append" => q = [p EXCEPT !.pc = "confirm"])
    BY <1>6 DEF Propose, Reread, Store, Append1, Goto, Builds
  <2>2. q.kind = p.kind /\ q.id = p.id /\ q.gen = p.gen /\ q.todo = p.todo /\ q.file = p.file
    BY <1>2, <2>1 DEF ProcRow
  <2>3. /\ q.pc \in {"reread", "store", "append", "next", "confirm"} /\ (q.pc = "append" => p.kind = "tree")
        /\ (q.pc = "confirm" <=> p.pc = "append")
    BY <1>2, <2>1 DEF ProcRow, Builds
  <2>4. q.pc \in {"append", "confirm"} => p.todo = {}
    BY <1>2, <2>3 DEF Formed, Builds
  <2> QED
    BY <1>4, <2>1, <2>2, <2>3, <2>4 DEF Builds
<1>7. CASE Confirm(p)
  <2>1. PICK plan : plan = AutoPlan
    OBVIOUS
  <2>2. PICK q : Become(p, q) /\ (q = [p EXCEPT !.pc = "next"] \/ q = [p EXCEPT !.kind = "auto", !.pc = "save", !.plan = plan])
    BY <1>7, <2>1 DEF Confirm, Goto
  <2>3. /\ q.id = p.id /\ q.gen = p.gen /\ q.todo = p.todo /\ q.file = p.file
        /\ (q.kind = p.kind /\ q.pc = "next") \/ (q.kind = "auto" /\ q.pc = "save")
    BY <1>2, <2>2 DEF ProcRow
  <2>4. p.pc = "confirm" /\ p.kind = "tree" /\ p.todo = {}
    BY <1>2, <1>7 DEF Confirm, ProcSound, Formed
  <2>5. ProcSound(q)
    BY <1>3, <2>2 DEF SplitInv, Become
  <2>6. Formed(q)
    BY <1>2, <2>3, <2>4 DEF Formed, Loose, Builds
  <2>7. Loose(p) /\ q.pc \notin Builds
    BY <2>3, <2>4 DEF Loose, Builds
  <2> QED
    BY <1>1, <2>2, <2>3, <2>5, <2>6, <2>7, FormMoves
<1>8. CASE Save(p) \/ (\E layout \in Layout : ClassifySave(p, layout))
  <2>1. PICK q : Become(p, q) /\ (q = [p EXCEPT !.pc = "next", !.todo = Planned(p.plan), !.plan = {}] \/ q = [p EXCEPT !.pc = "next", !.todo = {p.file}])
    BY <1>8 DEF Save, ClassifySave
  <2>2. q.kind = p.kind /\ q.id = p.id /\ q.gen = p.gen /\ q.file = p.file /\ q.pc = "next"
    BY <1>2, <2>1 DEF ProcRow
  <2>3. p.kind # "tree"
    BY <1>2, <1>8 DEF Formed, Save, ClassifySave, Builds
  <2>4. ProcSound(q)
    BY <1>3, <2>1 DEF SplitInv, Become
  <2>5. Formed(q)
    BY <1>2, <2>2, <2>3 DEF Formed, Loose, Builds
  <2> QED
    BY <1>1, <2>1, <2>2, <2>4, <2>5, FormMoves DEF Loose, Builds
<1>9. ASSUME NEW f \in File, NextFile(p, f) PROVE FormInv'
  <2>1. PICK q : q = [p EXCEPT !.file = f, !.todo = @ \ {f}, !.pc = "spans"]
    OBVIOUS
  <2>2. q.kind = p.kind /\ q.id = p.id /\ q.gen = p.gen /\ q.file = f /\ q.pc = "spans"
    BY <1>2, <2>1 DEF ProcRow
  <2>3. p.kind # "tree"
    BY <1>2, <1>9 DEF Formed, NextFile
  <2>4. ProcSound(q) /\ Become(p, q)
    BY <1>3, <1>9, <2>1 DEF SplitInv, Become, NextFile
  <2>5. Formed(q)
    BY <1>2, <2>2, <2>3 DEF Formed, Loose, Builds
  <2> QED
    BY <1>1, <2>2, <2>4, <2>5, FormMoves DEF Loose, Builds
<1>10. CASE ClassifyStart(p)
  <2>1. PICK q : q = [p EXCEPT !.pc = "model", !.read = doc[p.file].gen]
    OBVIOUS
  <2>2. q.kind = p.kind /\ q.id = p.id /\ q.gen = p.gen /\ q.file = p.file /\ q.todo = p.todo /\ q.pc = "model"
    BY <1>2, <2>1 DEF ProcRow
  <2>3. p.kind # "tree" /\ p.todo = {} /\ p.pc = "start" /\ Become(p, q)
    BY <1>2, <1>10, <2>1 DEF Formed, ClassifyStart, Builds
  <2> QED
    BY <1>4, <2>2, <2>3
<1>11. CASE Finish(p)
  <2>1. End(p) /\ p.pc \notin Builds
    BY <1>11 DEF Finish, Builds
  <2> QED
    BY <1>1, <1>2, <2>1, FormMoves
<1>12. ASSUME NEW ok \in BOOLEAN, ClassifyQueue(p, ok) PROVE FormInv'
  <2>1. PICK q : q = Proc("classify", p.id, p.file, "start")
    OBVIOUS
  <2>2. q.kind = "classify" /\ q.pc = "start" /\ q.todo = {} /\ (Become(p, q) \/ End(p))
    BY <1>12, <2>1 DEF Proc, ClassifyQueue
  <2>3. ProcSound(q)
    BY <1>2, <2>1, ProcType DEF SplitInv, ProcSound
  <2>4. Formed(q)
    BY <2>2 DEF Formed, Loose
  <2> QED
    BY <1>1, <2>2, <2>3, <2>4, FormMoves DEF Loose, Builds
<1> QED
  BY <1>5, <1>6, <1>7, <1>8, <1>9, <1>10, <1>11, <1>12 DEF Step


LEMMA FormFails ==
    ASSUME Calm, SplitInv, KeepInv, FormInv, NEW p \in procs, Fails(p) \/ Dies(p)
    PROVE  FormInv'
<1>1. \A h \in File : doc'[h].gen = doc[h].gen
  BY GenKept
<1>2. ProcSound(p) /\ p \in ProcRow /\ p.file \in File /\ Formed(p) /\ (Loose(p) => p.id \in File)
  BY ProcFields DEF SplitInv, ProcSound, FormInv, Loose
<1>3. SplitInv'
  BY SplitStep DEF Next
<1>4. ASSUME p.kind \in {"tree", "classify"}, Again(p, p) PROVE FormInv'
  <2>1. CASE End(p)
    <3>1. CASE p.pc \notin Builds
      BY <1>1, <1>2, <2>1, <3>1, FormMoves
    <3>2. CASE p.pc \in Builds
      BY <1>1, <1>2, <2>1, <3>2, FormMoves
    <3> QED
      BY <3>1, <3>2
  <2>2. CASE p.try < MaxTry
    <3>1. PICK q : /\ Become(p, q) /\ q.kind = p.kind /\ q.id = p.id /\ q.file = p.file /\ q.gen = p.gen /\ q.todo = {}
                   /\ q.pc = IF p.kind = "classify" THEN "start" ELSE "spans"
      BY <1>4, <2>2, AgainForm
    <3>2. ProcSound(q)
      BY <1>3, <3>1 DEF SplitInv, Become
    <3>3. Formed(q)
      BY <1>2, <1>4, <3>1 DEF Formed, Loose, Builds
    <3> QED
      BY <1>1, <3>1, <3>2, <3>3, FormMoves DEF Loose, Builds
  <2> QED
    BY <1>4, <2>1, <2>2 DEF Again
<1>5. CASE Fails(p)
  <2>1. CASE p.kind \in {"tree", "classify"}
    BY <1>4, <1>5, <2>1 DEF Fails
  <2>2. CASE p.kind = "auto"
    <3>1. PICK q : q = [p EXCEPT !.pc = "next", !.todo = {}, !.plan = {}, !.at = NoTree]
      OBVIOUS
    <3>2. q.kind = p.kind /\ q.id = p.id /\ q.gen = p.gen /\ q.file = p.file /\ q.pc = "next" /\ Become(p, q)
      BY <1>2, <1>5, <2>2, <3>1 DEF ProcRow, Fails
    <3>3. ProcSound(q)
      BY <1>3, <3>2 DEF SplitInv, Become
    <3>4. Formed(q)
      BY <1>2, <2>2, <3>2 DEF Formed, Loose, Builds
    <3> QED
      BY <1>1, <3>2, <3>3, <3>4, FormMoves DEF Loose, Builds
  <2>3. CASE p.kind \notin {"tree", "classify", "auto"}
    <3>1. End(p)
      BY <1>5, <2>3 DEF Fails
    <3> QED
      BY <1>1, <1>2, <3>1, FormMoves
  <2> QED
    BY <2>1, <2>2, <2>3
<1>6. CASE Dies(p)
  <2>1. p.kind \in {"tree", "classify"} /\ Again(p, p)
    BY <1>6 DEF Dies, Quiet
  <2> QED
    BY <1>4, <2>1
<1> QED
  BY <1>5, <1>6

LEMMA FormAsked ==
    ASSUME Calm, SplitInv, FormInv,
           \/ \E F \in SUBSET File : \E choice \in [F -> Review], apart \in BOOLEAN : SaveAsked(choice, apart)
           \/ \E f \in File : ClassifyAsked(f)
    PROVE  FormInv'
<1>1. \A h \in File : doc'[h].gen = doc[h].gen
  BY GenKept
<1>2. CASE \E F \in SUBSET File : \E choice \in [F -> Review], apart \in BOOLEAN : SaveAsked(choice, apart)
  <2>1. PICK F \in SUBSET File : \E choice \in [F -> Review], apart \in BOOLEAN : SaveAsked(choice, apart)
    BY <1>2
  <2>2. PICK choice \in [F -> Review], apart \in BOOLEAN : SaveAsked(choice, apart)
    BY <2>1
  <2>3. PICK q, plan : procs' = procs \cup {[q EXCEPT !.plan = plan]} /\ q = Proc("save", used.req + 1, CHOOSE f \in DOMAIN choice : TRUE, "save")
    BY <2>2 DEF SaveAsked
  <2>4. PICK r : r = [q EXCEPT !.plan = plan]
    OBVIOUS
  <2>5. r.kind = "save" /\ r.pc = "save" /\ r.todo = {} /\ procs' = procs \cup {r}
    BY <2>3, <2>4 DEF Proc
  <2> QED
    BY <1>1, <2>5, FormAdds DEF Loose, Builds
<1>3. ASSUME NEW f \in File, ClassifyAsked(f) PROVE FormInv'
  <2>1. PICK q : q = Proc("ask", used.req + 1, f, "queue")
    OBVIOUS
  <2>2. q.kind = "ask" /\ q.pc = "queue" /\ q.todo = {} /\ procs' = procs \cup {q}
    BY <1>3, <2>1 DEF Proc, ClassifyAsked
  <2> QED
    BY <1>1, <2>2, FormAdds DEF Loose, Builds
<1> QED
  BY <1>2, <1>3

LEMMA FormPages ==
    ASSUME Calm, SplitInv, FormInv, NEW f \in File, NEW layout \in Layout, Reparse(f, layout) \/ PickPages(f, layout)
    PROVE  FormInv'
<1>1. doc[f].gen \in Nat /\ \A o \in procs : o.file # f /\ f \notin o.todo
  BY DocFields DEF SplitInv, Reparse, PickPages, Quiet, Working
<1>2. \A o \in procs : o.file \in File /\ (Loose(o) => o.id \in File) /\ Formed(o) /\ o.gen \in Nat
  BY ProcFields DEF SplitInv, ProcSound, Loose, FormInv
<1>3. (\A h \in File \ {f} : doc'[h].gen = doc[h].gen) /\ doc'[f].gen \in {doc[f].gen, doc[f].gen + 1}
  <2>1. PICK n : n = doc[f].gen + 1
    OBVIOUS
  <2>2. \/ doc' = [doc EXCEPT ![f].gen = n, ![f].layout = layout, ![f].unbuilt = FALSE]
        \/ doc' = [doc EXCEPT ![f].layout = layout]
    BY <2>1 DEF Reparse, PickPages
  <2> QED
    BY <2>1, <2>2 DEF SplitInv, DocRow
<1>4. PICK q : procs' = procs \cup {q} /\ q = Tree(f, doc'[f].gen)
  <2>1. CASE Reparse(f, layout)
    <3>1. doc'[f].gen = doc[f].gen + 1
      BY <2>1 DEF SplitInv, DocRow, Reparse
    <3> QED
      BY <2>1, <3>1 DEF Reparse
  <2>2. CASE PickPages(f, layout)
    <3>1. doc'[f].gen = doc[f].gen
      BY <2>2 DEF SplitInv, DocRow, PickPages
    <3> QED
      BY <2>2, <3>1 DEF PickPages
  <2> QED
    BY <2>1, <2>2
<1>5. q.kind = "tree" /\ q.id = f /\ q.file = f /\ q.gen = doc'[f].gen /\ q.pc = "spans" /\ q.todo = {}
  BY <1>4 DEF Tree, Proc
<1>6. Formed(q)'
  BY <1>1, <1>3, <1>5 DEF Formed, Builds
<1>7. ASSUME NEW o \in procs PROVE Formed(o)'
  <2>1. doc'[o.file].gen = doc[o.file].gen
    BY <1>1, <1>2, <1>3
  <2>2. Loose(o) => o.gen <= doc'[o.id].gen
    <3>1. CASE o.id = f
      BY <1>1, <1>2, <1>3, <3>1 DEF Formed
    <3>2. CASE o.id # f
      BY <1>2, <1>3, <3>2 DEF Formed
    <3> QED
      BY <3>1, <3>2
  <2> QED
    BY <1>2, <2>1, <2>2 DEF Formed
<1>8. ASSUME NEW o \in procs, Loose(o), o.id = f PROVE o.gen # doc'[f].gen
  <2>1. CASE Reparse(f, layout)
    <3>1. doc'[f].gen = doc[f].gen + 1
      BY <2>1 DEF SplitInv, DocRow, Reparse
    <3> QED
      BY <1>1, <1>2, <1>8, <3>1 DEF Formed
  <2>2. CASE PickPages(f, layout)
    <3>1. doc'[f].gen = doc[f].gen
      BY <2>2 DEF SplitInv, DocRow, PickPages
    <3> QED
      BY <1>8, <2>2, <3>1 DEF PickPages, Settled, Loose
  <2> QED
    BY <2>1, <2>2
<1>9. ASSUME NEW o \in procs', NEW r \in procs', Loose(o), Loose(r), o.id = r.id, o.gen = doc'[o.id].gen, r.gen = doc'[r.id].gen
      PROVE  o = r
  <2>1. CASE o \in procs /\ r \in procs
    <3>1. CASE o.id = f
      BY <1>8, <1>9, <2>1, <3>1
    <3>2. CASE o.id # f
      BY <1>2, <1>3, <1>9, <2>1, <3>2 DEF FormInv
    <3> QED
      BY <3>1, <3>2
  <2>2. CASE o = q \/ r = q
    BY <1>4, <1>5, <1>8, <1>9, <2>2
  <2> QED
    BY <1>4, <2>1, <2>2
<1>10. \A o, r \in procs' : o.file = r.file /\ o.pc \in Builds /\ r.pc \in Builds => o = r
  BY <1>4, <1>5 DEF FormInv, Builds
<1> QED
  BY <1>4, <1>6, <1>7, <1>9, <1>10 DEF FormInv

LEMMA FormInit == Init => FormInv
<1> SUFFICES ASSUME Init PROVE FormInv
  OBVIOUS
<1>1. ASSUME NEW p \in procs
      PROVE  p.kind = "tree" /\ p.id = p.file /\ p.id \in File /\ p.gen = 1 /\ p.pc = "spans" /\ p.todo = {}
             /\ p = [kind |-> "tree", id |-> p.id, file |-> p.id, gen |-> 1, read |-> 1, pc |-> "spans", try |-> 0,
                     plan |-> {}, at |-> NoTree, todo |-> {}]
  BY DEF Init
<1>2. \A f \in File : doc[f].gen = 1
  <2>1. \A f \in File : doc[f] \in [gen : {1}, indexed : {FALSE}, reviewed : {FALSE}, classify : {"none"}, layout : Layout,
                                  unbuilt : {FALSE}]
    BY DEF Init
  <2> QED
    BY <2>1
<1>3. \A p \in procs : Formed(p)
  BY <1>1, <1>2 DEF Formed, Loose
<1>4. \A p, q \in procs : p.id = q.id => p = q
  BY <1>1
<1> QED
  BY <1>1, <1>3, <1>4 DEF FormInv, Builds

LEMMA FormStep == Calm /\ SplitInv /\ KeepInv /\ FormInv /\ [Next]_vars => FormInv'
<1> SUFFICES ASSUME Calm, SplitInv, KeepInv, FormInv, [Next]_vars PROVE FormInv'
  OBVIOUS
<1>1. CASE UNCHANGED vars
  BY <1>1 DEF FormInv, Formed, vars
<1>2. ASSUME NEW p \in procs, Step(p) PROVE FormInv'
  BY <1>2, FormSteps
<1>3. ASSUME NEW p \in procs, Fails(p) \/ Dies(p) PROVE FormInv'
  BY <1>3, FormFails
<1>4. CASE \/ \E F \in SUBSET File : \E choice \in [F -> Review], apart \in BOOLEAN : SaveAsked(choice, apart)
           \/ \E f \in File : ClassifyAsked(f)
  BY <1>4, FormAsked
<1>5. CASE \E f \in File, layout \in Layout : Reparse(f, layout) \/ PickPages(f, layout)
  BY <1>5, FormPages
<1> QED
  BY <1>1, <1>2, <1>3, <1>4, <1>5 DEF Next


-----------------------------------------------------------------------------
(* The quiet case: the trees.  A file has its tree, or owes it to a task:  *)
(* to one that will still read the file's documents (Later), to one that   *)
(* has read them (Due), or to the task that builds its index (Pend).       *)

Want(f) == Shown(Current(f))
LaterBy(q, f) == q.kind # "tree" /\ (f \in q.todo \/ (q.file = f /\ q.pc = "spans"))
DueBy(q, f) == q.kind # "tree" /\ (f \in q.todo \/ (q.file = f /\ q.pc \in {"spans"} \cup Builds))
PendBy(q, f) == q.kind = "tree" /\ q.file = f /\ q.pc \in {"spans"} \cup Builds
Later(f) == \E q \in procs : LaterBy(q, f)
Due(f) == \E q \in procs : DueBy(q, f)
Pend(f) == \E q \in procs : PendBy(q, f)
Fresh(f) == tree[f] = NoTree \/ tree[f] = Want(f)
Sat(f) == Fresh(f) \/ Due(f)
Past(p) == p.kind = "auto" \/ (p.kind = "tree" /\ p.pc \in {"append", "confirm", "next"})

TreeInv ==
    /\ \A p \in procs : p.pc = "store" => p.at = Want(p.file) \/ Later(p.file)
    /\ \A f \in File : Sat(f) \/ doc[f].unbuilt \/ Pend(f)
    /\ \A p \in procs : Past(p) /\ p.gen = doc[p.id].gen => Sat(p.id)

(* A step of one process p, which goes on as q, ends, or has just come:    *)
(* what it does to the files of F is said, the others keep their documents *)
(* and their trees.                                                        *)
Moves(p, q, F) ==
    /\ \A o \in procs' : o = q \/ o \in procs
    /\ \A o \in procs : o = p \/ o \in procs'
    /\ \A f \in File : f \notin F => Want(f)' = Want(f) /\ tree'[f] = tree[f] /\ doc'[f].gen = doc[f].gen
    /\ \A f \in File : f \notin F /\ LaterBy(p, f) => Later(f)' \/ \A r \in procs' : r # q /\ r.file = f => r.pc # "store"
    /\ \A f \in File : f \in F => Later(f)' \/ \A r \in procs' : r # q /\ r.file = f => r.pc # "store"
    /\ \A f \in File : f \in F => Sat(f)' \/ (Pend(f)' /\ \A r \in procs' : Past(r) /\ r.id = f => r.gen # doc'[f].gen)
    /\ \A f \in File : f \notin F /\ DueBy(p, f) => Due(f)' \/ Fresh(f)
    /\ \A f \in File : f \notin F /\ PendBy(p, f) => Pend(f)' \/ doc'[f].unbuilt
    /\ \A f \in File : doc[f].unbuilt => doc'[f].unbuilt \/ Sat(f)'
    /\ q \in procs' => ProcSound(q)
    /\ q \in procs' /\ q.pc = "store" => q.at = Want(q.file)'
    /\ q \in procs' /\ Past(q) /\ q.gen = doc'[q.id].gen =>
           Sat(q.id)' \/ (p \in procs /\ Past(p) /\ p.id = q.id /\ p.gen = q.gen)

LEMMA TreeMoves ==
    ASSUME SplitInv, TreeInv, NEW p, NEW q, NEW F, Moves(p, q, F)
    PROVE  TreeInv'
<1> USE DEF Moves
<1>1. \A o \in procs' : o.file \in File /\ (Past(o) => o.id \in File)
  <2>1. \A o \in procs' : ProcSound(o)
    BY DEF SplitInv
  <2> QED
    BY <2>1, ProcFields DEF ProcSound, Past
<1>2. ASSUME NEW f \in File, f \notin F, Later(f) PROVE Later(f)' \/ \A r \in procs' : r # q /\ r.file = f => r.pc # "store"
  <2>1. PICK o \in procs : LaterBy(o, f)
    BY <1>2 DEF Later
  <2>2. CASE o = p
    BY <1>2, <2>1, <2>2
  <2>3. CASE o \in procs'
    BY <2>1, <2>3 DEF Later
  <2> QED
    BY <2>2, <2>3
<1>3. ASSUME NEW f \in File, f \notin F, Sat(f) PROVE Sat(f)'
  <2>1. CASE Fresh(f)
    BY <1>3, <2>1 DEF Fresh, Sat, NoTree
  <2>2. CASE Due(f)
    <3>1. PICK o \in procs : DueBy(o, f)
      BY <2>2 DEF Due
    <3>2. CASE o = p
      BY <1>3, <2>1, <3>1, <3>2 DEF Sat
    <3>3. CASE o \in procs'
      BY <3>1, <3>3 DEF Due, Sat
    <3> QED
      BY <3>2, <3>3
  <2> QED
    BY <1>3, <2>1, <2>2 DEF Sat
<1>4. ASSUME NEW f \in File, f \notin F, Pend(f) PROVE Pend(f)' \/ doc'[f].unbuilt
  <2>1. PICK o \in procs : PendBy(o, f)
    BY <1>4 DEF Pend
  <2>2. CASE o = p
    BY <1>4, <2>1, <2>2
  <2>3. CASE o \in procs'
    BY <2>1, <2>3 DEF Pend
  <2> QED
    BY <2>2, <2>3
<1>5. ASSUME NEW o \in procs', o.pc = "store" PROVE o.at = Want(o.file)' \/ Later(o.file)'
  <2>1. CASE o = q
    BY <1>5, <2>1
  <2>2. CASE o # q
    <3>1. o \in procs /\ o.file \in File
      BY <1>1, <1>5, <2>2
    <3>2. CASE o.file \in F
      BY <1>5, <2>2, <3>1, <3>2
    <3>3. CASE o.file \notin F
      <4>1. o.at = Want(o.file) \/ Later(o.file)
        BY <1>5, <3>1 DEF TreeInv
      <4> QED
        BY <1>2, <1>5, <2>2, <3>1, <3>3, <4>1
    <3> QED
      BY <3>2, <3>3
  <2> QED
    BY <2>1, <2>2
<1>6. ASSUME NEW f \in File PROVE Sat(f)' \/ doc'[f].unbuilt \/ Pend(f)'
  <2>1. CASE f \in F
    BY <2>1
  <2>2. CASE f \notin F
    <3>1. Sat(f) \/ doc[f].unbuilt \/ Pend(f)
      BY DEF TreeInv
    <3> QED
      BY <1>3, <1>4, <2>2, <3>1
  <2> QED
    BY <2>1, <2>2
<1>7. ASSUME NEW o \in procs', Past(o), o.gen = doc'[o.id].gen PROVE Sat(o.id)'
  <2>1. o.id \in File
    BY <1>1, <1>7
  <2>2. CASE o.id \in F
    BY <1>7, <2>1, <2>2
  <2>3. CASE o.id \notin F
    <3>1. o.gen = doc[o.id].gen
      BY <1>7, <2>1, <2>3
    <3>2. CASE o = q /\ p \in procs /\ Past(p) /\ p.id = q.id /\ p.gen = q.gen
      BY <1>3, <2>1, <2>3, <3>1, <3>2 DEF TreeInv
    <3>3. CASE o \in procs
      BY <1>3, <1>7, <2>1, <2>3, <3>1, <3>3 DEF TreeInv
    <3>4. CASE o = q /\ Sat(q.id)'
      BY <3>4
    <3> QED
      BY <1>7, <3>2, <3>3, <3>4
  <2> QED
    BY <2>2, <2>3
<1>8. \A o \in procs' : o.pc = "store" => o.at = Want(o.file)' \/ Later(o.file)'
  BY <1>5
<1>9. \A f \in File : Sat(f)' \/ doc'[f].unbuilt \/ Pend(f)'
  BY <1>6
<1>10. \A o \in procs' : Past(o) /\ o.gen = doc'[o.id].gen => Sat(o.id)'
  BY <1>7
<1> QED
  BY <1>8, <1>9, <1>10 DEF TreeInv


(* What a step leaves of the files it does not concern.                    *)
LEMMA FilesKept ==
    ASSUME \A h \in File : doc'[h].gen = doc[h].gen, segs' = segs
    PROVE  \A h \in File : Want(h)' = Want(h)
<1>1. \A h \in File : Current(h)' = Current(h)
  BY DEF Current
<1> QED
  BY <1>1 DEF Want

LEMMA UnbuiltKept ==
    ASSUME doc \in [File -> DocRow], NEW f \in File, NEW h \in File
    PROVE  /\ \A c : [doc EXCEPT ![f].classify = c][h].unbuilt = doc[h].unbuilt
           /\ [doc EXCEPT ![f].indexed = TRUE][h].unbuilt = doc[h].unbuilt
           /\ \A l : [doc EXCEPT ![f].layout = l][h].unbuilt = doc[h].unbuilt
BY DEF DocRow

(* A step that changes no document and no tree.                            *)
LEMMA TreeQuiet ==
    ASSUME SplitInv, SplitInv', TreeInv, NEW p, NEW q,
           Become(p, q) \/ (End(p) /\ q = p) \/ (procs' = procs \cup {q} /\ q = p),
           \A h \in File : doc'[h].gen = doc[h].gen, segs' = segs, tree' = tree,
           \A f \in File : LaterBy(p, f) => Later(f)' \/ \A r \in procs' : r # q /\ r.file = f => r.pc # "store",
           \A f \in File : DueBy(p, f) => Due(f)' \/ Fresh(f),
           \A f \in File : PendBy(p, f) => Pend(f)' \/ doc'[f].unbuilt,
           \A f \in File : doc[f].unbuilt => doc'[f].unbuilt \/ Sat(f)',
           q \in procs' /\ q.pc = "store" => q.at = Want(q.file),
           q \in procs' /\ Past(q) => p \in procs /\ Past(p) /\ p.id = q.id /\ p.gen = q.gen
    PROVE  TreeInv'
<1>1. (\A o \in procs' : o = q \/ o \in procs) /\ (\A o \in procs : o = p \/ o \in procs')
  BY DEF Become, End
<1>2. \A h \in File : Want(h)' = Want(h)
  BY FilesKept
<1>3. q \in procs' => ProcSound(q)
  BY DEF SplitInv
<1>4. q \in procs' /\ q.pc = "store" => q.at = Want(q.file)'
  BY <1>2, <1>3, ProcFields DEF ProcSound
<1>5. PICK F : F = {}
  OBVIOUS
<1>6. \A f \in File : f \notin F => Want(f)' = Want(f) /\ tree'[f] = tree[f] /\ doc'[f].gen = doc[f].gen
  BY <1>2
<1>7. \A f \in File : f \in F => Later(f)' \/ \A r \in procs' : r # q /\ r.file = f => r.pc # "store"
  BY <1>5
<1>8. \A f \in File : f \in F => Sat(f)' \/ (Pend(f)' /\ \A r \in procs' : Past(r) /\ r.id = f => r.gen # doc'[f].gen)
  BY <1>5
<1>9. \A f \in File : f \notin F /\ LaterBy(p, f) => Later(f)' \/ \A r \in procs' : r # q /\ r.file = f => r.pc # "store"
  OBVIOUS
<1>10. \A f \in File : f \notin F /\ DueBy(p, f) => Due(f)' \/ Fresh(f)
  OBVIOUS
<1>11. \A f \in File : f \notin F /\ PendBy(p, f) => Pend(f)' \/ doc'[f].unbuilt
  OBVIOUS
<1>12. q \in procs' /\ Past(q) /\ q.gen = doc'[q.id].gen =>
           Sat(q.id)' \/ (p \in procs /\ Past(p) /\ p.id = q.id /\ p.gen = q.gen)
  OBVIOUS
<1>13. Moves(p, q, F)
  BY <1>1, <1>3, <1>4, <1>6, <1>7, <1>8, <1>9, <1>10, <1>11, <1>12 DEF Moves
<1> QED
  BY <1>13, TreeMoves

LEMMA TreeReads ==
    ASSUME Calm, SplitInv, KeepInv, FormInv, TreeInv, NEW p \in procs,
           Read(p) \/ Reread(p) \/ Append1(p) \/ Confirm(p) \/ ClassifyStart(p) \/ (\E f \in File : NextFile(p, f))
    PROVE  TreeInv'
<1>1. ProcSound(p) /\ p \in ProcRow /\ p.file \in File /\ Formed(p)
  BY ProcFields DEF SplitInv, ProcSound, FormInv
<1>2. SplitInv' /\ \A h \in File : doc'[h].gen = doc[h].gen
  BY SplitStep, GenKept DEF Next, Step
<1>3. segs' = segs /\ tree' = tree
  BY DEF Read, Reread, Append1, Confirm, ClassifyStart, NextFile
<1>4. \A f \in File : doc'[f].unbuilt = doc[f].unbuilt
  <2>1. doc' = doc \/ doc' = [doc EXCEPT ![p.file].indexed = TRUE]
    BY DEF Read, Reread, Append1, Confirm, ClassifyStart, NextFile
  <2>2. \A f \in File : [doc EXCEPT ![p.file].indexed = TRUE][f].unbuilt = doc[f].unbuilt
    BY <1>1, UnbuiltKept DEF SplitInv
  <2> QED
    BY <2>1, <2>2
<1>5. ASSUME NEW q, Become(p, q),
             \A f \in File : LaterBy(p, f) => LaterBy(q, f) \/ \A r \in procs' : r # q /\ r.file = f => r.pc # "store",
             \A f \in File : DueBy(p, f) => DueBy(q, f) \/ Fresh(f),
             \A f \in File : PendBy(p, f) => PendBy(q, f),
             q.pc = "store" => q.at = Want(q.file),
             Past(q) => Past(p) /\ p.id = q.id /\ p.gen = q.gen
      PROVE  TreeInv'
  <2>1. q \in procs'
    BY <1>5 DEF Become
  <2>2. \A f \in File : LaterBy(p, f) => Later(f)' \/ \A r \in procs' : r # q /\ r.file = f => r.pc # "store"
    BY <1>5, <2>1 DEF Later
  <2>3. \A f \in File : DueBy(p, f) => Due(f)' \/ Fresh(f)
    BY <1>5, <2>1 DEF Due
  <2>4. \A f \in File : PendBy(p, f) => Pend(f)'
    BY <1>5, <2>1 DEF Pend
  <2> QED
    BY <1>2, <1>3, <1>4, <1>5, <2>2, <2>3, <2>4, TreeQuiet
<1>6. CASE Read(p)
  <2>1. PICK f \in File : f = p.file
    BY <1>1
  <2>2. PICK r : r = [p EXCEPT !.read = doc[f].gen]
    OBVIOUS
  <2>3. r.kind = p.kind /\ r.id = p.id /\ r.gen = p.gen /\ r.todo = p.todo /\ r.file = f /\ r \in ProcRow
    <3>1. doc[f].gen \in 1..MaxGen
      BY DocFields DEF SplitInv
    <3> QED
      BY <1>1, <2>1, <2>2, <3>1 DEF ProcRow
  <2>4. p.pc = "spans" /\ ~Building(f)
    BY <1>6, <2>1 DEF Read, Quiet
  <2>5. \/ p.kind # "tree" /\ tree[f] = NoTree /\ Become(p, [p EXCEPT !.pc = "next"])
        \/ Become(p, [r EXCEPT !.pc = "propose", !.plan = doc[f].layout])
        \/ Become(p, [r EXCEPT !.pc = "store", !.at = Want(f)])
    BY <1>1, <1>6, <2>1, <2>2 DEF Read, Goto, Formed, Want
  <2>6. ASSUME NEW q PROVE \A o \in procs' : Become(p, q) /\ o # q /\ o.file = f => o.pc # "store"
    BY <2>4 DEF Become, Building
  <2>7. CASE p.kind # "tree" /\ tree[f] = NoTree /\ Become(p, [p EXCEPT !.pc = "next"])
    <3>1. PICK q : q = [p EXCEPT !.pc = "next"]
      OBVIOUS
    <3>2. q.kind = p.kind /\ q.id = p.id /\ q.gen = p.gen /\ q.todo = p.todo /\ q.file = p.file /\ q.pc = "next"
      BY <1>1, <3>1 DEF ProcRow
    <3>3. \A h \in File : LaterBy(p, h) => LaterBy(q, h) \/ h = f
      BY <2>1, <3>2 DEF LaterBy
    <3>4. \A h \in File : DueBy(p, h) => DueBy(q, h) \/ Fresh(h)
      BY <2>1, <2>7, <3>2 DEF DueBy, Fresh
    <3>5. (\A h \in File : ~PendBy(p, h)) /\ (Past(q) => Past(p))
      BY <2>7, <3>2 DEF PendBy, Past
    <3> QED
      BY <1>5, <2>6, <2>7, <3>1, <3>2, <3>3, <3>4, <3>5
  <2>8. ASSUME NEW q, Become(p, q), q = [r EXCEPT !.pc = "propose", !.plan = doc[f].layout] \/ q = [r EXCEPT !.pc = "store", !.at = Want(f)]
        PROVE  TreeInv'
    <3>1. q.kind = p.kind /\ q.id = p.id /\ q.gen = p.gen /\ q.todo = p.todo /\ q.file = f /\ q.pc \in {"propose", "store"}
      BY <2>3, <2>8 DEF ProcRow
    <3>2. q.pc = "store" => q.at = Want(f)
      <4>1. CASE q = [r EXCEPT !.pc = "propose", !.plan = doc[f].layout]
        BY <2>3, <4>1 DEF ProcRow
      <4>2. CASE q = [r EXCEPT !.pc = "store", !.at = Want(f)]
        BY <2>3, <4>2 DEF ProcRow
      <4> QED
        BY <2>8, <4>1, <4>2
    <3>3. \A h \in File : LaterBy(p, h) => LaterBy(q, h) \/ h = f
      BY <2>1, <3>1 DEF LaterBy
    <3>4. \A h \in File : DueBy(p, h) => DueBy(q, h)
      BY <2>1, <3>1 DEF DueBy, Builds
    <3>5. \A h \in File : PendBy(p, h) => PendBy(q, h)
      BY <2>1, <3>1 DEF PendBy, Builds
    <3>6. Past(q) => Past(p)
      BY <3>1 DEF Past
    <3> QED
      BY <1>5, <2>6, <2>8, <3>1, <3>2, <3>3, <3>4, <3>5, <3>6
  <2> QED
    BY <2>5, <2>7, <2>8
<1>7. CASE Reread(p)
  <2>1. PICK q : q = [p EXCEPT !.pc = "store", !.at = Want(p.file)]
    OBVIOUS
  <2>2. /\ q.kind = p.kind /\ q.id = p.id /\ q.gen = p.gen /\ q.todo = p.todo /\ q.file = p.file /\ q.pc = "store"
        /\ q.at = Want(p.file)
    BY <1>1, <2>1 DEF ProcRow
  <2>3. Become(p, q) /\ p.pc = "reread"
    BY <1>7, <2>1 DEF Reread, Want
  <2>4. \A h \in File : (LaterBy(p, h) => LaterBy(q, h)) /\ (DueBy(p, h) => DueBy(q, h)) /\ (PendBy(p, h) => PendBy(q, h))
    BY <2>2, <2>3 DEF LaterBy, DueBy, PendBy, Builds
  <2>5. Past(q) => Past(p)
    BY <2>2 DEF Past
  <2> QED
    BY <1>5, <2>2, <2>3, <2>4, <2>5
<1>8. CASE Append1(p) \/ Confirm(p)
  <2>1. PICK plan : plan = AutoPlan
    OBVIOUS
  <2>2. PICK q : Become(p, q) /\ (\/ q = [p EXCEPT !.pc = "confirm"] \/ q = [p EXCEPT !.pc = "next"]
                                  \/ q = [p EXCEPT !.kind = "auto", !.pc = "save", !.plan = plan])
    BY <1>8, <2>1 DEF Append1, Confirm, Goto
  <2>3. q.id = p.id /\ q.gen = p.gen /\ q.pc # "store"
    BY <1>1, <2>2 DEF ProcRow
  <2>4. p.kind = "tree" /\ p.pc \in {"append", "confirm"}
    BY <1>1, <1>8 DEF ProcSound, Append1, Confirm
  <2>5. \A h \in File : ~LaterBy(p, h) /\ ~DueBy(p, h) /\ ~PendBy(p, h)
    BY <2>4 DEF LaterBy, DueBy, PendBy, Builds
  <2>6. Past(p)
    BY <2>4 DEF Past
  <2> QED
    BY <1>5, <2>2, <2>3, <2>5, <2>6
<1>9. CASE ClassifyStart(p)
  <2>1. PICK q : q = [p EXCEPT !.pc = "model", !.read = doc[p.file].gen]
    OBVIOUS
  <2>2. q.kind = p.kind /\ q.id = p.id /\ q.gen = p.gen /\ q.pc = "model"
    BY <1>1, <2>1 DEF ProcRow
  <2>3. p.kind # "tree" /\ p.todo = {} /\ p.pc = "start" /\ Become(p, q)
    BY <1>1, <1>9, <2>1 DEF Formed, ClassifyStart, Builds
  <2>4. \A h \in File : ~LaterBy(p, h) /\ ~DueBy(p, h) /\ ~PendBy(p, h)
    BY <2>3 DEF LaterBy, DueBy, PendBy, Builds
  <2>5. Past(q) => Past(p)
    BY <2>2, <2>3 DEF Past
  <2> QED
    BY <1>5, <2>2, <2>3, <2>4, <2>5
<1>10. ASSUME NEW f \in File, NextFile(p, f) PROVE TreeInv'
  <2>1. PICK q : q = [p EXCEPT !.file = f, !.todo = @ \ {f}, !.pc = "spans"]
    OBVIOUS
  <2>2. q.kind = p.kind /\ q.id = p.id /\ q.gen = p.gen /\ q.file = f /\ q.pc = "spans" /\ q.todo = p.todo \ {f}
    BY <1>1, <2>1 DEF ProcRow
  <2>3. p.kind # "tree" /\ p.pc = "next" /\ Become(p, q)
    BY <1>1, <1>10, <2>1 DEF Formed, NextFile
  <2>4. \A h \in File : (LaterBy(p, h) => LaterBy(q, h)) /\ (DueBy(p, h) => DueBy(q, h)) /\ ~PendBy(p, h)
    BY <2>2, <2>3 DEF LaterBy, DueBy, PendBy, Builds
  <2>5. Past(q) => Past(p)
    BY <2>2, <2>3 DEF Past
  <2> QED
    BY <1>5, <2>2, <2>3, <2>4, <2>5
<1> QED
  BY <1>6, <1>7, <1>8, <1>9, <1>10


(* The other files' documents.                                             *)
LEMMA ProposedLeaves ==
    ASSUME NEW f, NEW gen, NEW layout, NEW src, segs' = Proposed(f, gen, layout, src), NEW h \in File, h # f, doc'[h].gen = doc[h].gen
    PROVE  Want(h)' = Want(h)
<1>1. PICK new : new = {[file |-> f, gen |-> gen, from |-> s.from, to |-> s.to, label |-> s.label, src |-> src, code |-> 0] :
                            s \in {s \in layout : ~\E u \in {g \in segs : g.file = f /\ g.gen = gen /\ g.src = "user"} : Overlap(u, s)}}
  OBVIOUS
<1>2. \A g \in new : g.file = f
  BY <1>1
<1>3. segs' = {g \in segs : g.file # f} \cup {g \in segs : g.file = f /\ g.gen = gen /\ g.src = "user"} \cup new
  BY <1>1 DEF Proposed
<1>4. Current(h)' = Current(h)
  BY <1>2, <1>3 DEF Current
<1> QED
  BY <1>4 DEF Want

LEMMA SavedLeaves ==
    ASSUME NEW plan, segs' = Saved(plan), NEW h \in File, h \notin Planned(plan), doc'[h].gen = doc[h].gen
    PROVE  Want(h)' = Want(h)
<1>1. PICK new : new = {[file |-> s.file, gen |-> doc[s.file].gen, from |-> s.from, to |-> s.to, label |-> s.label,
                         src |-> "user", code |-> Rank(plan, s.code)] : s \in plan}
  OBVIOUS
<1>2. \A g \in new : g.file \in Planned(plan)
  BY <1>1 DEF Planned
<1>3. segs' = {g \in segs : g.file \notin Planned(plan)} \cup new
  BY <1>1 DEF Saved
<1>4. Current(h)' = Current(h)
  BY <1>2, <1>3 DEF Current
<1> QED
  BY <1>4 DEF Want

LEMMA TreePropose ==
    ASSUME Calm, SplitInv, KeepInv, FormInv, TreeInv, NEW p \in procs, Propose(p)
    PROVE  TreeInv'
<1>1. ProcSound(p) /\ p \in ProcRow /\ p.file \in File /\ Formed(p)
  BY ProcFields DEF SplitInv, ProcSound, FormInv
<1>2. SplitInv' /\ \A h \in File : doc'[h].gen = doc[h].gen
  BY SplitStep, GenKept DEF Next, Step
<1>3. PICK f \in File : f = p.file
  BY <1>1
<1>4. PICK q : q = [p EXCEPT !.pc = "reread", !.plan = {}]
  OBVIOUS
<1>5. q.kind = p.kind /\ q.id = p.id /\ q.gen = p.gen /\ q.todo = p.todo /\ q.file = f /\ q.pc = "reread"
  BY <1>1, <1>3, <1>4 DEF ProcRow
<1>6. Become(p, q) /\ p.pc = "propose" /\ tree' = tree /\ segs' = Proposed(f, p.read, p.plan, "image")
  BY <1>3, <1>4 DEF Propose
<1>7. (\A o \in procs' : o = q \/ o \in procs) /\ (\A o \in procs : o = p \/ o \in procs') /\ q \in procs' /\ ProcSound(q)
  BY <1>2, <1>6 DEF Become, SplitInv
<1>8. \A h \in File : h # f => Want(h)' = Want(h)
  BY <1>2, <1>6, ProposedLeaves
<1>9. \A h \in File : doc'[h].unbuilt = doc[h].unbuilt
  <2>1. doc' = [doc EXCEPT ![f].classify = "done"]
    BY <1>3 DEF Propose
  <2>2. \A h \in File : [doc EXCEPT ![f].classify = "done"][h].unbuilt = doc[h].unbuilt
    BY <1>3, UnbuiltKept DEF SplitInv
  <2> QED
    BY <2>1, <2>2
<1>10. \A r \in procs' : r # q /\ r.file = f => r.pc # "store"
  <2>1. \A r \in procs : r.file = f /\ r.pc \in Builds => r = p
    BY <1>3, <1>6 DEF FormInv, Builds
  <2> QED
    BY <1>6, <1>7, <2>1 DEF Builds
<1>11. Sat(f)' \/ (Pend(f)' /\ \A r \in procs' : Past(r) /\ r.id = f => r.gen # doc'[f].gen)
  <2>1. CASE p.kind # "tree"
    <3>1. DueBy(q, f)
      BY <1>5, <2>1 DEF DueBy, Builds
    <3>2. Due(f)'
      BY <1>7, <3>1 DEF Due
    <3> QED
      BY <3>2 DEF Sat
  <2>2. CASE p.kind = "tree"
    <3>1. PendBy(q, f)
      BY <1>5, <2>2 DEF PendBy, Builds
    <3>2. Pend(f)'
      BY <1>7, <3>1 DEF Pend
    <3>3. p.id = f /\ p.gen = doc[f].gen /\ Loose(p) /\ ~Past(p) /\ ~Past(q)
      BY <1>1, <1>3, <1>5, <1>6, <2>2 DEF Formed, Loose, Past
    <3>4. ASSUME NEW r \in procs', Past(r), r.id = f, r.gen = doc'[f].gen PROVE FALSE
      <4>1. r \in procs /\ Loose(r) /\ r.gen = doc[f].gen
        BY <1>2, <1>7, <3>3, <3>4 DEF Loose, Past
      <4>2. r = p
        BY <3>3, <3>4, <4>1 DEF FormInv
      <4> QED
        BY <3>3, <3>4, <4>2
    <3> QED
      BY <3>2, <3>4
  <2> QED
    BY <2>1, <2>2
<1>12. \A h \in File : h # f => (LaterBy(p, h) => LaterBy(q, h)) /\ (DueBy(p, h) => DueBy(q, h)) /\ ~PendBy(p, h)
  BY <1>3, <1>5 DEF LaterBy, DueBy, PendBy
<1>13. \A h \in File : h # f => (LaterBy(p, h) => Later(h)') /\ (DueBy(p, h) => Due(h)')
  BY <1>7, <1>12 DEF Later, Due
<1>14. Past(q) => Past(p)
  BY <1>5 DEF Past
<1>15. Moves(p, q, {f})
  <2>1. \A h \in File : h \notin {f} => Want(h)' = Want(h) /\ tree'[h] = tree[h] /\ doc'[h].gen = doc[h].gen
    BY <1>2, <1>6, <1>8
  <2> QED
    BY <1>5, <1>7, <1>9, <1>10, <1>11, <1>12, <1>13, <1>14, <2>1 DEF Moves
<1> QED
  BY <1>15, TreeMoves

LEMMA TreeStore ==
    ASSUME Calm, SplitInv, KeepInv, FormInv, TreeInv, NEW p \in procs, Store(p)
    PROVE  TreeInv'
<1>1. ProcSound(p) /\ p \in ProcRow /\ p.file \in File /\ Formed(p)
  BY ProcFields DEF SplitInv, ProcSound, FormInv
<1>2. SplitInv' /\ \A h \in File : doc'[h].gen = doc[h].gen
  BY SplitStep, GenKept DEF Next, Step
<1>3. PICK f \in File : f = p.file
  BY <1>1
<1>4. PICK q : q = [p EXCEPT !.at = NoTree, !.pc = IF p.kind = "tree" THEN "append" ELSE "next"]
  OBVIOUS
<1>5. /\ q.kind = p.kind /\ q.id = p.id /\ q.gen = p.gen /\ q.todo = p.todo /\ q.file = f
      /\ q.pc = (IF p.kind = "tree" THEN "append" ELSE "next")
  BY <1>1, <1>3, <1>4 DEF ProcRow
<1>6. Become(p, q) /\ p.pc = "store" /\ segs' = segs /\ doc' = doc
  BY <1>4 DEF Store
<1>7. (\A o \in procs' : o = q \/ o \in procs) /\ (\A o \in procs : o = p \/ o \in procs') /\ q \in procs' /\ ProcSound(q)
  BY <1>2, <1>6 DEF Become, SplitInv
<1>8. tree' = [tree EXCEPT ![f] = p.at]
  BY <1>3, <1>6 DEF Store, KeepInv, Reading
<1>9. \A h \in File : Want(h)' = Want(h)
  BY <1>2, <1>6, FilesKept
<1>10. \A r \in procs' : r # q /\ r.file = f => r.pc # "store"
  <2>1. \A r \in procs : r.file = f /\ r.pc \in Builds => r = p
    BY <1>3, <1>6 DEF FormInv, Builds
  <2>2. \A r \in procs' : r # q => r \in procs /\ r # p
    BY <1>6 DEF Become
  <2> QED
    BY <2>1, <2>2 DEF Builds
<1>11. \A h \in File : (LaterBy(p, h) => LaterBy(q, h)) /\ (h # f => (DueBy(p, h) => DueBy(q, h)) /\ ~PendBy(p, h))
  BY <1>3, <1>5, <1>6 DEF LaterBy, DueBy, PendBy
<1>12. \A h \in File : (LaterBy(p, h) => Later(h)') /\ (h # f => (DueBy(p, h) => Due(h)'))
  BY <1>7, <1>11 DEF Later, Due
<1>13. Sat(f)'
  <2>1. CASE p.at = Want(f)
    <3>1. tree'[f] = Want(f)'
      BY <1>8, <1>9, <2>1 DEF SplitInv
    <3> QED
      BY <3>1 DEF Sat, Fresh
  <2>2. CASE Later(f)
    <3>1. PICK o \in procs : LaterBy(o, f)
      BY <2>2 DEF Later
    <3>2. Later(f)'
      BY <1>7, <1>12, <3>1 DEF Later
    <3>3. Due(f)'
      BY <3>2 DEF Later, Due, LaterBy, DueBy
    <3> QED
      BY <3>3 DEF Sat
  <2> QED
    BY <1>3, <1>6, <2>1, <2>2 DEF TreeInv
<1>14. Past(q) /\ q.gen = doc'[q.id].gen => Sat(q.id)' \/ (p \in procs /\ Past(p) /\ p.id = q.id /\ p.gen = q.gen)
  <2>1. CASE q.kind = "tree"
    <3>1. q.id = f
      BY <1>1, <1>3, <1>5, <2>1 DEF Formed
    <3> QED
      BY <1>13, <3>1
  <2>2. CASE q.kind = "auto"
    BY <1>5, <2>2 DEF Past
  <2> QED
    BY <2>1, <2>2 DEF Past
<1>15. Moves(p, q, {f})
  <2>1. \A h \in File : h \notin {f} => Want(h)' = Want(h) /\ tree'[h] = tree[h] /\ doc'[h].gen = doc[h].gen
    BY <1>6, <1>8, <1>9 DEF SplitInv
  <2> QED
    BY <1>5, <1>6, <1>7, <1>10, <1>11, <1>12, <1>13, <1>14, <2>1 DEF Moves
<1> QED
  BY <1>15, TreeMoves


LEMMA TreeSave ==
    ASSUME Calm, SplitInv, KeepInv, FormInv, TreeInv, NEW p \in procs, Save(p) \/ \E layout \in Layout : ClassifySave(p, layout)
    PROVE  TreeInv'
<1>1. ProcSound(p) /\ p \in ProcRow /\ p.file \in File /\ Formed(p)
  BY ProcFields DEF SplitInv, ProcSound, FormInv
<1>2. SplitInv' /\ \A h \in File : doc'[h].gen = doc[h].gen
  BY SplitStep, GenKept DEF Next, Step
<1>3. PICK F : F = IF p.pc = "save" THEN Planned(p.plan) ELSE {p.file}
  OBVIOUS
<1>4. PICK q : q = (IF p.pc = "save" THEN [p EXCEPT !.pc = "next", !.todo = F, !.plan = {}] ELSE [p EXCEPT !.pc = "next", !.todo = F])
  OBVIOUS
<1>5. q.kind = p.kind /\ q.id = p.id /\ q.gen = p.gen /\ q.todo = F /\ q.pc = "next"
  BY <1>1, <1>4 DEF ProcRow
<1>6. Become(p, q) /\ p.pc \in {"save", "model"} /\ tree' = tree
  BY <1>3, <1>4 DEF Save, ClassifySave
<1>7. (\A o \in procs' : o = q \/ o \in procs) /\ (\A o \in procs : o = p \/ o \in procs') /\ q \in procs' /\ ProcSound(q)
  BY <1>2, <1>6 DEF Become, SplitInv
<1>8. p.kind # "tree" /\ p.todo = {}
  BY <1>1, <1>6 DEF Formed, Builds
<1>9. \A h \in File : h \notin F => Want(h)' = Want(h)
  <2>1. CASE Save(p)
    <3>1. F = Planned(p.plan) /\ segs' = Saved(p.plan)
      BY <1>3, <2>1 DEF Save
    <3> QED
      BY <1>2, <3>1, SavedLeaves
  <2>2. ASSUME NEW layout \in Layout, ClassifySave(p, layout) PROVE \A h \in File : h \notin F => Want(h)' = Want(h)
    <3>1. F = {p.file} /\ segs' = Proposed(p.file, p.read, layout, "titles")
      BY <1>3, <2>2 DEF ClassifySave
    <3> QED
      BY <1>2, <3>1, ProposedLeaves
  <2> QED
    BY <2>1, <2>2
<1>10. \A h \in File : doc'[h].unbuilt = doc[h].unbuilt
  <2>1. CASE Save(p)
    <3>1. \A h \in File : doc'[h] = IF h \in Planned(p.plan) THEN [doc[h] EXCEPT !.reviewed = TRUE] ELSE doc[h]
      BY <2>1 DEF Save
    <3> QED
      BY <3>1 DEF SplitInv, DocRow
  <2>2. CASE \E layout \in Layout : ClassifySave(p, layout)
    <3>1. doc' = [doc EXCEPT ![p.file].classify = "done"]
      BY <2>2 DEF ClassifySave
    <3>2. \A h \in File : [doc EXCEPT ![p.file].classify = "done"][h].unbuilt = doc[h].unbuilt
      BY <1>1, UnbuiltKept DEF SplitInv
    <3> QED
      BY <3>1, <3>2
  <2> QED
    BY <2>1, <2>2
<1>11. \A h \in File : ~LaterBy(p, h) /\ ~DueBy(p, h) /\ ~PendBy(p, h)
  BY <1>6, <1>8 DEF LaterBy, DueBy, PendBy, Builds
<1>12. \A h \in F : Later(h)' /\ Sat(h)'
  <2>1. \A h \in F : LaterBy(q, h) /\ DueBy(q, h)
    BY <1>5, <1>8 DEF LaterBy, DueBy
  <2>2. \A h \in F : Later(h)' /\ Due(h)'
    BY <1>7, <2>1 DEF Later, Due
  <2> QED
    BY <2>2 DEF Sat
<1>13. Past(q) => Past(p)
  BY <1>5, <1>8 DEF Past
<1>14. Moves(p, q, F)
  <2>1. \A h \in File : h \notin F => Want(h)' = Want(h) /\ tree'[h] = tree[h] /\ doc'[h].gen = doc[h].gen
    BY <1>2, <1>6, <1>9
  <2> QED
    BY <1>5, <1>7, <1>10, <1>11, <1>12, <1>13, <2>1 DEF Moves
<1> QED
  BY <1>14, TreeMoves

LEMMA TreeEnds ==
    ASSUME Calm, SplitInv, KeepInv, FormInv, TreeInv, NEW p \in procs,
           Finish(p) \/ Fails(p) \/ Dies(p) \/ (\E ok \in BOOLEAN : ClassifyQueue(p, ok))
    PROVE  TreeInv'
<1>1. ProcSound(p) /\ p \in ProcRow /\ p.file \in File /\ p.id \in Nat /\ Formed(p) /\ (Loose(p) => p.id \in File)
  BY ProcFields DEF SplitInv, ProcSound, FormInv, Loose
<1>2. SplitInv' /\ \A h \in File : doc'[h].gen = doc[h].gen
  BY SplitStep, GenKept DEF Next, Step
<1>3. segs' = segs /\ tree' = tree
  BY DEF Finish, Fails, Dies, ClassifyQueue
<1>4. \A h \in File : [doc EXCEPT ![p.file].classify = "failed"][h].unbuilt = doc[h].unbuilt
  BY <1>1, UnbuiltKept DEF SplitInv
<1>5. ASSUME NEW q, Become(p, q) \/ (End(p) /\ q = p),
             \A f \in File : ~LaterBy(p, f) /\ ~DueBy(p, f),
             \A f \in File : PendBy(p, f) => (Become(p, q) /\ PendBy(q, f)) \/ doc'[f].unbuilt,
             \A f \in File : doc[f].unbuilt => doc'[f].unbuilt \/ Sat(f),
             Become(p, q) => q.pc # "store",
             Become(p, q) /\ Past(q) => Past(p) /\ p.id = q.id /\ p.gen = q.gen
      PROVE  TreeInv'
  <2>1. \A f \in File : PendBy(p, f) => Pend(f)' \/ doc'[f].unbuilt
    BY <1>5 DEF Become, Pend
  <2>2. ASSUME NEW f \in File, Sat(f) PROVE Sat(f)'
    <3>1. CASE Fresh(f)
      <4>1. Fresh(f)'
        BY <1>2, <1>3, <3>1, FilesKept DEF Fresh, NoTree
      <4> QED
        BY <4>1 DEF Sat
    <3>2. CASE Due(f)
      <4>1. PICK o \in procs : DueBy(o, f)
        BY <3>2 DEF Due
      <4>2. o \in procs'
        BY <1>5, <4>1 DEF Become, End
      <4> QED
        BY <4>1, <4>2 DEF Due, Sat
    <3> QED
      BY <2>2, <3>1, <3>2 DEF Sat
  <2>3. \A f \in File : doc[f].unbuilt => doc'[f].unbuilt \/ Sat(f)'
    BY <1>5, <2>2
  <2>4. q \in procs' => Become(p, q)
    BY <1>5 DEF End
  <2>5. (q \in procs' /\ q.pc = "store" => q.at = Want(q.file)) /\ (q \in procs' /\ Past(q) => p \in procs /\ Past(p) /\ p.id = q.id /\ p.gen = q.gen)
    BY <1>5, <2>4
  <2> QED
    BY <1>2, <1>3, <1>5, <2>1, <2>3, <2>5, TreeQuiet
<1>6. CASE Finish(p)
  <2>1. End(p) /\ p.pc = "next" /\ p.todo = {}
    BY <1>6 DEF Finish
  <2>2. \A f \in File : ~LaterBy(p, f) /\ ~DueBy(p, f) /\ ~PendBy(p, f)
    BY <2>1 DEF LaterBy, DueBy, PendBy, Builds
  <2>3. ASSUME NEW f \in File, doc[f].unbuilt PROVE doc'[f].unbuilt \/ Sat(f)
    <3>1. CASE p.kind \in {"tree", "auto"}
      <4>1. doc' = Result(p, TRUE)
        BY <1>6, <3>1 DEF Finish
      <4>2. doc'[f].unbuilt = IF f = p.id /\ p.gen = doc[f].gen THEN ~TRUE ELSE doc[f].unbuilt
        BY <3>1, <4>1, ResultOf
      <4>3. CASE f = p.id /\ p.gen = doc[f].gen
        <5>1. Past(p)
          BY <2>1, <3>1 DEF Past
        <5> QED
          BY <4>3, <5>1 DEF TreeInv
      <4> QED
        BY <2>3, <4>2, <4>3
    <3>2. CASE p.kind \notin {"tree", "auto"}
      <4>1. doc' = doc \/ doc' = [doc EXCEPT ![p.file].classify = "failed"]
        BY <1>6, <3>2 DEF Finish
      <4> QED
        BY <1>4, <2>3, <4>1
    <3> QED
      BY <3>1, <3>2
  <2> QED
    BY <1>5, <2>1, <2>2, <2>3 DEF Become, End
<1>7. CASE \E ok \in BOOLEAN : ClassifyQueue(p, ok)
  <2>1. PICK q : q = Proc("classify", p.id, p.file, "start")
    OBVIOUS
  <2>2. q.kind = "classify" /\ q.pc = "start" /\ (Become(p, q) \/ End(p)) /\ p.pc = "queue"
    BY <1>7, <2>1 DEF Proc, ClassifyQueue
  <2>3. p.kind # "tree" /\ p.todo = {}
    BY <1>1, <2>2 DEF Formed, Builds
  <2>4. \A f \in File : ~LaterBy(p, f) /\ ~DueBy(p, f) /\ ~PendBy(p, f)
    BY <2>2, <2>3 DEF LaterBy, DueBy, PendBy, Builds
  <2>5. doc' = doc \/ doc' = [doc EXCEPT ![p.file].classify = "failed"]
    BY <1>7 DEF ClassifyQueue
  <2>6. \A f \in File : doc[f].unbuilt => doc'[f].unbuilt
    BY <1>4, <2>5
  <2>7. CASE Become(p, q)
    BY <1>5, <2>2, <2>4, <2>6, <2>7 DEF Past
  <2>8. CASE End(p)
    <3>1. ~Become(p, p)
      BY <2>8 DEF Become, End
    <3> QED
      BY <1>5, <2>4, <2>6, <2>8, <3>1
  <2> QED
    BY <2>2, <2>7, <2>8
<1>8. ASSUME p.kind = "tree", Again(p, p), \A f \in File : doc[f].unbuilt => doc'[f].unbuilt, p.try = MaxTry => doc'[p.file].unbuilt PROVE TreeInv'
  <2>1. \A f \in File : ~LaterBy(p, f) /\ ~DueBy(p, f)
    BY <1>8 DEF LaterBy, DueBy
  <2>2. CASE p.try = MaxTry
    <3>1. End(p)
      BY <1>1, <1>8, <2>2, ProcFields, Sizes DEF Again
    <3>2. ~Become(p, p)
      BY <3>1 DEF Become, End
    <3>3. \A f \in File : PendBy(p, f) => doc'[f].unbuilt
      BY <1>8, <2>2 DEF PendBy
    <3> QED
      BY <1>5, <1>8, <2>1, <3>1, <3>2, <3>3
  <2>3. CASE p.try < MaxTry
    <3>1. PICK q : Become(p, q) /\ q.kind = p.kind /\ q.file = p.file /\ q.pc = IF p.kind = "classify" THEN "start" ELSE "spans"
      BY <1>8, <2>3, AgainForm
    <3>2. \A f \in File : PendBy(p, f) => PendBy(q, f)
      BY <1>8, <3>1 DEF PendBy
    <3>3. ~Past(q) /\ q.pc # "store"
      BY <1>8, <3>1 DEF Past
    <3> QED
      BY <1>5, <1>8, <2>1, <3>1, <3>2, <3>3
  <2> QED
    BY <1>1, <2>2, <2>3, ProcFields, Sizes
<1>9. ASSUME p.kind = "classify", Again(p, p), \A f \in File : doc'[f].unbuilt = doc[f].unbuilt, p.pc \in {"start", "model", "save"} PROVE TreeInv'
  <2>1. \A f \in File : ~LaterBy(p, f) /\ ~DueBy(p, f) /\ ~PendBy(p, f)
    BY <1>1, <1>9 DEF LaterBy, DueBy, PendBy, Formed, Builds
  <2>2. CASE End(p)
    <3>1. ~Become(p, p)
      BY <2>2 DEF Become, End
    <3> QED
      BY <1>5, <1>9, <2>1, <2>2, <3>1
  <2>3. CASE p.try < MaxTry
    <3>1. PICK q : Become(p, q) /\ q.kind = p.kind /\ q.pc = IF p.kind = "classify" THEN "start" ELSE "spans"
      BY <1>9, <2>3, AgainForm
    <3>2. ~Past(q) /\ q.pc # "store"
      BY <1>9, <3>1 DEF Past
    <3> QED
      BY <1>5, <1>9, <2>1, <3>1, <3>2
  <2> QED
    BY <1>9, <2>2, <2>3 DEF Again
<1>10. CASE Fails(p)
  <2>1. CASE p.kind = "tree"
    <3>1. Again(p, p)
      BY <1>10, <2>1 DEF Fails
    <3>2. p.id = p.file /\ p.gen = doc[p.file].gen
      BY <1>1, <2>1 DEF Formed
    <3>3. CASE p.try = MaxTry
      <4>1. doc' = Result(p, FALSE)
        BY <1>10, <2>1, <3>3 DEF Fails
      <4>2. \A f \in File : doc'[f].unbuilt = IF f = p.id /\ p.gen = doc[f].gen THEN ~FALSE ELSE doc[f].unbuilt
        BY <2>1, <4>1, ResultOf
      <4> QED
        BY <1>1, <1>8, <2>1, <3>1, <3>2, <4>2
    <3>4. CASE p.try # MaxTry
      <4>1. doc' = doc
        BY <1>10, <2>1, <3>4 DEF Fails
      <4> QED
        BY <1>8, <2>1, <3>1, <3>4, <4>1
    <3> QED
      BY <3>3, <3>4
  <2>2. CASE p.kind # "tree"
    <3>1. p.pc \in {"start", "model", "save"}
      BY <1>10, <2>2 DEF Fails, MayFail, Quiet
    <3>2. \A f \in File : ~LaterBy(p, f) /\ ~DueBy(p, f) /\ ~PendBy(p, f)
      BY <1>1, <3>1 DEF LaterBy, DueBy, PendBy, Formed, Builds
    <3>3. doc' = doc \/ doc' = [doc EXCEPT ![p.file].classify = "failed"]
      BY <1>10, <2>2 DEF Fails
    <3>4. \A f \in File : doc'[f].unbuilt = doc[f].unbuilt
      BY <1>4, <3>3
    <3>5. CASE p.kind = "classify"
      <4>1. Again(p, p)
        BY <1>10, <3>5 DEF Fails
      <4> QED
        BY <1>9, <3>1, <3>4, <3>5, <4>1
    <3>6. CASE p.kind = "auto"
      <4>1. PICK q : q = [p EXCEPT !.pc = "next", !.todo = {}, !.plan = {}, !.at = NoTree]
        OBVIOUS
      <4>2. q.kind = p.kind /\ q.id = p.id /\ q.gen = p.gen /\ q.pc = "next" /\ Become(p, q)
        BY <1>1, <1>10, <3>6, <4>1 DEF ProcRow, Fails
      <4> QED
        BY <1>5, <3>2, <3>4, <3>6, <4>2 DEF Past
    <3>7. CASE p.kind \notin {"classify", "auto"}
      <4>1. End(p)
        BY <1>10, <2>2, <3>7 DEF Fails
      <4>2. ~Become(p, p)
        BY <4>1 DEF Become, End
      <4> QED
        BY <1>5, <3>2, <3>4, <4>1, <4>2
    <3> QED
      BY <3>5, <3>6, <3>7
  <2> QED
    BY <2>1, <2>2
<1>11. CASE Dies(p)
  <2>1. Again(p, p) /\ p.try < MaxTry /\ doc' = doc /\ (p.kind = "tree" \/ (p.kind = "classify" /\ p.pc \in {"start", "model"}))
    BY <1>11 DEF Dies, Quiet
  <2>2. p.try # MaxTry
    BY <1>1, <2>1, ProcFields, Sizes
  <2> QED
    BY <1>8, <1>9, <2>1, <2>2
<1> QED
  BY <1>6, <1>7, <1>10, <1>11


LEMMA TreeAsked ==
    ASSUME Calm, SplitInv, KeepInv, FormInv, TreeInv,
           \/ \E F \in SUBSET File : \E choice \in [F -> Review], apart \in BOOLEAN : SaveAsked(choice, apart)
           \/ \E f \in File : ClassifyAsked(f)
    PROVE  TreeInv'
<1>1. SplitInv' /\ (\A h \in File : doc'[h].gen = doc[h].gen) /\ segs' = segs /\ tree' = tree
  BY SplitStep, GenKept DEF Next, SaveAsked, ClassifyAsked
<1>2. ASSUME NEW q, procs' = procs \cup {q}, q.kind \in {"save", "ask"}, q.pc # "store", \A f \in File : doc'[f].unbuilt = doc[f].unbuilt
      PROVE  TreeInv'
  <2>1. \A f \in File : (LaterBy(q, f) => Later(f)') /\ (DueBy(q, f) => Due(f)') /\ ~PendBy(q, f)
    BY <1>2 DEF Later, Due, PendBy
  <2>2. ~Past(q)
    BY <1>2 DEF Past
  <2> QED
    BY <1>1, <1>2, <2>1, <2>2, TreeQuiet
<1>3. CASE \E F \in SUBSET File : \E choice \in [F -> Review], apart \in BOOLEAN : SaveAsked(choice, apart)
  <2>1. PICK F \in SUBSET File : \E choice \in [F -> Review], apart \in BOOLEAN : SaveAsked(choice, apart)
    BY <1>3
  <2>2. PICK choice \in [F -> Review], apart \in BOOLEAN : SaveAsked(choice, apart)
    BY <2>1
  <2>3. PICK q, plan : procs' = procs \cup {[q EXCEPT !.plan = plan]} /\ q = Proc("save", used.req + 1, CHOOSE f \in DOMAIN choice : TRUE, "save")
    BY <2>2 DEF SaveAsked
  <2>4. PICK r : r = [q EXCEPT !.plan = plan]
    OBVIOUS
  <2>5. r.kind = "save" /\ r.pc = "save" /\ procs' = procs \cup {r} /\ doc' = doc
    BY <2>2, <2>3, <2>4 DEF Proc, SaveAsked
  <2> QED
    BY <1>2, <2>5
<1>4. ASSUME NEW f \in File, ClassifyAsked(f) PROVE TreeInv'
  <2>1. PICK q : q = Proc("ask", used.req + 1, f, "queue")
    OBVIOUS
  <2>2. q.kind = "ask" /\ q.pc = "queue" /\ procs' = procs \cup {q} /\ doc' = [doc EXCEPT ![f].classify = "running"]
    BY <1>4, <2>1 DEF Proc, ClassifyAsked
  <2>3. \A h \in File : [doc EXCEPT ![f].classify = "running"][h].unbuilt = doc[h].unbuilt
    BY UnbuiltKept DEF SplitInv
  <2> QED
    BY <1>2, <2>2, <2>3
<1> QED
  BY <1>3, <1>4

LEMMA TreePages ==
    ASSUME Calm, SplitInv, KeepInv, FormInv, TreeInv, NEW f \in File, NEW layout \in Layout, Reparse(f, layout) \/ PickPages(f, layout)
    PROVE  TreeInv'
<1>1. SplitInv'
  BY SplitStep DEF Next
<1>2. doc[f].gen \in Nat /\ segs' = segs /\ \A o \in procs : o.file # f /\ f \notin o.todo
  BY DocFields DEF SplitInv, Reparse, PickPages, Quiet, Working
<1>3. PICK q : q = Tree(f, IF Reparse(f, layout) THEN doc[f].gen + 1 ELSE doc[f].gen)
  OBVIOUS
<1>4. q.kind = "tree" /\ q.id = f /\ q.file = f /\ q.pc = "spans" /\ q.todo = {}
  BY <1>3 DEF Tree, Proc
<1>5. procs' = procs \cup {q} /\ q \in procs' /\ ProcSound(q)
  <2>1. procs' = procs \cup {q}
    BY <1>3 DEF Reparse, PickPages
  <2> QED
    BY <1>1, <2>1 DEF SplitInv
<1>6. \A h \in File : ~LaterBy(q, h) /\ ~DueBy(q, h) /\ (PendBy(q, h) => Pend(h)')
  BY <1>4, <1>5 DEF LaterBy, DueBy, Pend
<1>7. ~Past(q) /\ q.pc # "store"
  BY <1>4 DEF Past
<1>8. CASE Reparse(f, layout)
  <2>1. PICK n : n = doc[f].gen + 1
    OBVIOUS
  <2>2. doc' = [doc EXCEPT ![f].gen = n, ![f].layout = layout, ![f].unbuilt = FALSE] /\ tree' = [tree EXCEPT ![f] = NoTree]
    BY <1>8, <2>1 DEF Reparse
  <2>3. \A h \in File : h # f => doc'[h] = doc[h] /\ tree'[h] = tree[h]
    BY <2>2 DEF SplitInv
  <2>4. \A h \in File : h # f => Want(h)' = Want(h)
    <3>1. \A h \in File : h # f => Current(h)' = Current(h)
      BY <1>2, <2>3 DEF Current
    <3> QED
      BY <3>1 DEF Want
  <2>5. Sat(f)'
    <3>1. tree'[f] = NoTree
      BY <2>2 DEF SplitInv
    <3>2. Fresh(f)'
      BY <3>1 DEF Fresh, NoTree
    <3> QED
      BY <3>2 DEF Sat
  <2>6. \A r \in procs' : r # q /\ r.file = f => r.pc # "store"
    BY <1>2, <1>5
  <2>7. Moves(q, q, {f})
    <3>1. \A h \in File : h \notin {f} => Want(h)' = Want(h) /\ tree'[h] = tree[h] /\ doc'[h].gen = doc[h].gen
      BY <2>3, <2>4
    <3>2. \A h \in File : doc[h].unbuilt => doc'[h].unbuilt \/ Sat(h)'
      BY <2>3, <2>5
    <3> QED
      BY <1>4, <1>5, <1>6, <1>7, <2>5, <2>6, <3>1, <3>2 DEF Moves
  <2> QED
    BY <2>7, TreeMoves
<1>9. CASE PickPages(f, layout)
  <2>1. doc' = [doc EXCEPT ![f].layout = layout] /\ tree' = tree
    BY <1>9 DEF PickPages
  <2>2. \A h \in File : doc'[h].unbuilt = doc[h].unbuilt
    <3>1. \A h \in File : [doc EXCEPT ![f].layout = layout][h].unbuilt = doc[h].unbuilt
      BY UnbuiltKept DEF SplitInv
    <3> QED
      BY <2>1, <3>1
  <2>3. \A h \in File : doc'[h].gen = doc[h].gen
    BY <1>9, GenKept
  <2> QED
    BY <1>1, <1>2, <1>5, <1>6, <1>7, <2>1, <2>2, <2>3, TreeQuiet
<1> QED
  BY <1>8, <1>9

LEMMA TreeInit == Init => TreeInv
<1> SUFFICES ASSUME Init PROVE TreeInv
  OBVIOUS
<1>1. \A f \in File : Sat(f)
  <2>1. \A f \in File : tree[f] = NoTree
    BY DEF Init
  <2> QED
    BY <2>1 DEF Sat, Fresh
<1>2. \A p \in procs : p.kind = "tree" /\ p.pc = "spans"
  BY DEF Init
<1> QED
  BY <1>1, <1>2 DEF TreeInv, Past

LEMMA TreeStep == Calm /\ SplitInv /\ KeepInv /\ FormInv /\ TreeInv /\ [Next]_vars => TreeInv'
<1> SUFFICES ASSUME Calm, SplitInv, KeepInv, FormInv, TreeInv, [Next]_vars PROVE TreeInv'
  OBVIOUS
<1>1. CASE UNCHANGED vars
  <2>1. \A f : Want(f)' = Want(f) /\ tree'[f] = tree[f] /\ Later(f)' = Later(f) /\ Due(f)' = Due(f) /\ Pend(f)' = Pend(f)
    BY <1>1 DEF vars, Want, Current, Later, Due, Pend
  <2>2. \A f : Sat(f)' = Sat(f)
    BY <2>1 DEF Sat, Fresh, NoTree
  <2> QED
    BY <1>1, <2>1, <2>2 DEF TreeInv, vars
<1>2. ASSUME NEW p \in procs, Step(p) PROVE TreeInv'
  BY <1>2, TreeReads, TreePropose, TreeStore, TreeSave, TreeEnds DEF Step
<1>3. ASSUME NEW p \in procs, Fails(p) \/ Dies(p) PROVE TreeInv'
  BY <1>3, TreeEnds
<1>4. CASE \/ \E F \in SUBSET File : \E choice \in [F -> Review], apart \in BOOLEAN : SaveAsked(choice, apart)
           \/ \E f \in File : ClassifyAsked(f)
  BY <1>4, TreeAsked
<1>5. CASE \E f \in File, layout \in Layout : Reparse(f, layout) \/ PickPages(f, layout)
  BY <1>5, TreePages
<1> QED
  BY <1>1, <1>2, <1>3, <1>4, <1>5 DEF Next

LEMMA TreeShown == TreeInv => TreeShowsSplit
<1> SUFFICES ASSUME TreeInv, NEW f \in File, ~Working(f), tree[f] # NoTree, ~doc[f].unbuilt
             PROVE  tree[f] = Shown(Current(f))
  BY DEF TreeShowsSplit
<1>1. ~Due(f) /\ ~Pend(f)
  BY DEF Working, Due, DueBy, Pend, PendBy
<1>2. Fresh(f)
  BY <1>1 DEF TreeInv, Sat
<1> QED
  BY <1>2 DEF Fresh, Want

(* The screens tell the truth of a file: its tree shows the segments it    *)
(* has unless somebody is at work on it or its index is said to be         *)
(* unbuilt, and a classification shown as running has somebody to end it.  *)
THEOREM ShownIsTrue == ASSUME Calm PROVE Spec => []ShownTrue
<1>1. Init => SplitInv /\ KeepInv /\ RunInv /\ FormInv /\ TreeInv
  BY SplitInit, KeepInit, RunInit, FormInit, TreeInit
<1>2. SplitInv /\ KeepInv /\ RunInv /\ FormInv /\ TreeInv /\ [Next]_vars => SplitInv' /\ KeepInv' /\ RunInv' /\ FormInv' /\ TreeInv'
  BY SplitStep, KeepStep, RunStep, FormStep, TreeStep
<1>3. RunInv /\ TreeInv => ShownTrue
  <2>1. RunInv => RunningHasTask
    BY DEF RunInv, RunningHasTask, Classifies
  <2> QED
    BY <2>1, TreeShown DEF ShownTrue
<1> QED
  BY <1>1, <1>2, <1>3, PTL DEF Spec
=============================================================================
