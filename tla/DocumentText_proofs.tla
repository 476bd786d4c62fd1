-------------------------- MODULE DocumentText_proofs --------------------------
(***************************************************************************)
(* Proofs about DocumentText for any number of pieces, words and numbers:  *)
(* a translation reaches its document whole.  What the model counts, folds *)
(* and sums is unfolded first, since the proof of a fold or a sum is the   *)
(* proof of the function that the community modules choose for it.         *)
(***************************************************************************)
EXTENDS DocumentText, FiniteSetTheorems, SequenceTheorems, WellFoundedInduction, TLAPS

(***************************************************************************)
(* Folds                                                                   *)
(***************************************************************************)

\* What goes on from one number to the next goes on to all of them.
LEMMA NumbersBelow ==
    ASSUME NEW N \in SUBSET Nat, 0 \in N, \A m \in N : m + 1 \in N
    PROVE  N = Nat
<1> DEFINE T == Nat \ N
<1> SUFFICES ASSUME T # {} PROVE FALSE
  OBVIOUS
<1>1. PICK x \in T : \A y \in T : ~(<<y, x>> \in OpToRel(<, Nat))
  <2> HIDE DEF T
  <2>1. T \subseteq Nat
    BY DEF T
  <2> QED
    BY <2>1, NatLessThanWellFounded, WFMin
<1>2. x \in Nat /\ x # 0
  OBVIOUS
<1>3. x - 1 \in Nat /\ x - 1 < x /\ (x - 1) + 1 = x
  BY <1>2
<1>4. <<x - 1, x>> \in OpToRel(<, Nat)
  BY <1>2, <1>3 DEF OpToRel
<1>5. x - 1 \in N
  BY <1>1, <1>3, <1>4
<1> QED
  BY <1>3, <1>5

\* The last of some places, and the places before it.
LEMMA LastOf ==
    ASSUME NEW m \in Nat, NEW s \in SUBSET (1..(m + 1)), m + 1 \in s
    PROVE  Max(s) = m + 1 /\ s \ {m + 1} \in SUBSET (1..m)
<1>1. m + 1 \in s /\ \A y \in s : m + 1 >= y
  OBVIOUS
<1>2. \A x \in s : (\A y \in s : x >= y) => x = m + 1
  OBVIOUS
<1>3. Max(s) = m + 1
  BY <1>1, <1>2 DEF Max
<1> QED
  BY <1>3

\* The last of some places is one of them, and none comes after it.
LEMMA GreatestIs ==
    ASSUME NEW n \in Nat, NEW s \in SUBSET (1..n), s # {}
    PROVE  Max(s) \in s /\ \A x \in s : Max(s) >= x
<1> DEFINE T == {n - x : x \in s}
<1>1. T \in SUBSET Nat /\ T # {}
  <2>1. \A x \in s : n - x \in Nat
    OBVIOUS
  <2>2. PICK x \in s : TRUE
    OBVIOUS
  <2>3. n - x \in T
    OBVIOUS
  <2> QED
    BY <2>1, <2>3
<1>2. PICK k \in T : \A y \in T : ~(<<y, k>> \in OpToRel(<, Nat))
  <2> HIDE DEF T
  <2> QED
    BY <1>1, NatLessThanWellFounded, WFMin
<1>3. PICK x \in s : k = n - x
  OBVIOUS
<1>4. ASSUME NEW y \in s PROVE x >= y
  <2>1. ~(n - y < n - x)
    <3>1. n - y \in T /\ n - y \in Nat /\ n - x \in Nat
      OBVIOUS
    <3> HIDE DEF T
    <3> QED
      BY <1>2, <1>3, <3>1 DEF OpToRel
  <2> QED
    BY <2>1
<1>5. \E z \in s : \A y \in s : z >= y
  BY <1>4
<1> QED
  BY <1>5 DEF Max

\* The places up to one number more.
LEMMA UptoWithoutLast ==
    ASSUME NEW m \in Nat
    PROVE  Max(1..(m + 1)) = m + 1 /\ (1..(m + 1)) \ {m + 1} = 1..m /\ 1..(m + 1) # {}
<1>1. m + 1 \in 1..(m + 1)
  OBVIOUS
<1> QED
  BY <1>1, LastOf

\* g is the fold of the steps of G over the places up to n, by their subsets.
Folds(g, n, base, G) ==
    \A s \in SUBSET (1..n) : g[s] = IF s = {} THEN base ELSE G[<<g[s \ {Max(s)}], Max(s)>>]

\* Steps that stay in a set have a fold, and the fold stays in it.
LEMMA FoldExists ==
    ASSUME NEW V, NEW n \in Nat, NEW base \in V, NEW G \in [V \X (1..n) -> V]
    PROVE  \E g \in [SUBSET (1..n) -> V] : Folds(g, n, base, G)
<1> DEFINE HasFold(m) == \E g \in [SUBSET (1..m) -> V] : Folds(g, m, base, G)
           N == {m \in Nat : m <= n => HasFold(m)}
<1>1. HasFold(0)
  <2> DEFINE g == [s \in SUBSET (1..0) |-> base]
  <2>1. \A s \in SUBSET (1..0) : s = {}
    OBVIOUS
  <2>2. g \in [SUBSET (1..0) -> V] /\ Folds(g, 0, base, G)
    BY <2>1 DEF Folds
  <2> QED
    BY <2>2
<1>2. ASSUME NEW m \in Nat, m + 1 <= n, HasFold(m) PROVE HasFold(m + 1)
  <2>1. PICK f \in [SUBSET (1..m) -> V] : Folds(f, m, base, G)
    BY <1>2
  <2> DEFINE g == [s \in SUBSET (1..(m + 1)) |->
                      IF m + 1 \notin s THEN f[s] ELSE G[<<f[s \ {m + 1}], m + 1>>]]
  <2>2. ASSUME NEW s \in SUBSET (1..(m + 1))
        PROVE  g[s] \in V /\ g[s] = IF s = {} THEN base ELSE G[<<g[s \ {Max(s)}], Max(s)>>]
    <3>1. CASE m + 1 \in s
      <4>1. Max(s) = m + 1 /\ s \ {m + 1} \in SUBSET (1..m)
        BY <3>1, LastOf
      <4>2. g[s \ {m + 1}] = f[s \ {m + 1}] /\ f[s \ {m + 1}] \in V
        BY <4>1
      <4>3. g[s] = G[<<f[s \ {m + 1}], m + 1>>]
        BY <3>1
      <4>4. G[<<f[s \ {m + 1}], m + 1>>] \in V
        <5>1. m + 1 \in 1..n /\ f[s \ {m + 1}] \in V
          BY <1>2, <4>2
        <5>2. <<f[s \ {m + 1}], m + 1>> \in V \X (1..n)
          BY <5>1
        <5> QED
          BY <5>2
      <4> HIDE DEF g
      <4>5. s # {} /\ g[s \ {Max(s)}] = f[s \ {m + 1}] /\ Max(s) = m + 1
        BY <3>1, <4>1, <4>2
      <4>6. g[s] = G[<<g[s \ {Max(s)}], Max(s)>>]
        BY <4>3, <4>5
      <4> QED
        BY <4>3, <4>4, <4>5, <4>6
    <3>2. CASE m + 1 \notin s
      <4>1. s \in SUBSET (1..m)
        BY <3>2
      <4>2. g[s] = f[s] /\ f[s] \in V
        BY <3>2, <4>1
      <4>3. g[s \ {Max(s)}] = f[s \ {Max(s)}]
        BY <3>2
      <4>4. f[s] = IF s = {} THEN base ELSE G[<<f[s \ {Max(s)}], Max(s)>>]
        BY <2>1, <4>1 DEF Folds
      <4> HIDE DEF g
      <4> QED
        BY <4>2, <4>3, <4>4
    <3> QED
      BY <3>1, <3>2
  <2>3. g \in [SUBSET (1..(m + 1)) -> V]
    <3>1. g = [s \in SUBSET (1..(m + 1)) |-> g[s]]
      OBVIOUS
    <3> HIDE DEF g
    <3> QED
      BY <2>2, <3>1
  <2> HIDE DEF g
  <2> QED
    BY <2>2, <2>3 DEF Folds
<1> HIDE DEF HasFold
<1>3. N \in SUBSET Nat /\ 0 \in N /\ \A m \in N : m + 1 \in N
  BY <1>1, <1>2
<1> HIDE DEF N
<1>4. N = Nat
  BY <1>3, NumbersBelow
<1>5. HasFold(n)
  BY <1>4 DEF N
<1> QED
  BY <1>5 DEF HasFold

\* The same of a function that is only known where it stays in the set.
FoldsIn(f, n, base, G, V) ==
    /\ f[{}] = base
    /\ \A s \in SUBSET (1..n) :
          s # {} /\ f[s \ {Max(s)}] \in V => f[s] = G[<<f[s \ {Max(s)}], Max(s)>>]

\* It goes on from one place to the next.
FoldGoesOn(f, n, base, G, V) ==
    /\ \A m \in 0..n : f[1..m] \in V
    /\ f[1..0] = base
    /\ \A m \in 0..(n - 1) : f[1..(m + 1)] = G[<<f[1..m], m + 1>>]

\* Steps that stay in a set go on from one place to the next.
LEMMA FoldSteps ==
    ASSUME NEW V, NEW n \in Nat, NEW base \in V, NEW G \in [V \X (1..n) -> V], NEW f,
           FoldsIn(f, n, base, G, V)
    PROVE  FoldGoesOn(f, n, base, G, V)
<1> DEFINE Stays(m) == f[1..m] \in V
           N == {m \in Nat : m <= n => Stays(m)}
<1>1. f[1..0] = base
  <2>1. 1..0 = {}
    OBVIOUS
  <2> QED
    BY <2>1 DEF FoldsIn
<1>2. ASSUME NEW m \in Nat, m + 1 <= n, f[1..m] \in V
      PROVE  f[1..(m + 1)] = G[<<f[1..m], m + 1>>] /\ f[1..(m + 1)] \in V
  <2>1. Max(1..(m + 1)) = m + 1 /\ (1..(m + 1)) \ {m + 1} = 1..m /\ 1..(m + 1) # {}
    BY UptoWithoutLast
  <2>2. 1..(m + 1) \in SUBSET (1..n) /\ m + 1 \in 1..n
    BY <1>2
  <2> DEFINE s == 1..(m + 1)
  <2>3. s \in SUBSET (1..n) /\ s # {} /\ s \ {Max(s)} = 1..m /\ Max(s) = m + 1
    BY <2>1, <2>2
  <2>4. f[s] = G[<<f[s \ {Max(s)}], Max(s)>>]
    <3> HIDE DEF s
    <3> QED
      BY <1>2, <2>3 DEF FoldsIn
  <2>5. f[s] = G[<<f[1..m], m + 1>>]
    <3> HIDE DEF s
    <3> QED
      BY <2>3, <2>4
  <2>6. G[<<f[1..m], m + 1>>] \in V
    <3>1. <<f[1..m], m + 1>> \in V \X (1..n)
      BY <1>2, <2>2
    <3> QED
      BY <3>1
  <2> QED
    BY <2>5, <2>6
<1>3. Stays(0) /\ \A m \in Nat : m + 1 <= n /\ Stays(m) => Stays(m + 1)
  BY <1>1, <1>2
<1> HIDE DEF Stays
<1>4. N \in SUBSET Nat /\ 0 \in N /\ \A m \in N : m + 1 \in N
  BY <1>3
<1> HIDE DEF N
<1>5. N = Nat
  BY <1>4, NumbersBelow
<1>6. \A m \in 0..n : Stays(m)
  BY <1>5 DEF N
<1>7. \A m \in 0..n : f[1..m] \in V
  BY <1>6 DEF Stays
<1>8. \A m \in 0..(n - 1) : f[1..(m + 1)] = G[<<f[1..m], m + 1>>]
  BY <1>2, <1>7
<1> QED
  BY <1>1, <1>7, <1>8 DEF FoldGoesOn

-----------------------------------------------------------------------------
(***************************************************************************)
(* The labels of a chart                                                   *)
(***************************************************************************)

\* f has the texts after the labels at any places.
LabelsWritten(f, labels, reply) ==
    f = [s \in SUBSET DOMAIN labels |->
            IF s = {} THEN labels ELSE WriteLabel(f[s \ {Max(s)}], labels[Max(s)], reply)]

LEMMA WrittenLabelsIs ==
    ASSUME NEW labels, NEW reply
    PROVE  WrittenLabels(labels, reply)
              = (CHOOSE f : LabelsWritten(f, labels, reply))[DOMAIN labels]
  BY DEF WrittenLabels, FoldLeft, MapThenFoldSet, LabelsWritten

\* The texts that labels may have.
LabelTexts == Labels \cup Translated

LEMMA WriteLabelTyped ==
    ASSUME NEW n \in Nat, NEW texts \in [1..n -> LabelTexts], NEW label,
           NEW ids, NEW reply \in [ids -> Translated]
    PROVE  WriteLabel(texts, label, reply) \in [1..n -> LabelTexts]
  BY DEF WriteLabel, LabelTexts

\* t has the texts after each number of labels.
LabelSteps(t, n, labels, reply) ==
    /\ t \in [0..n -> [1..n -> LabelTexts]]
    /\ t[0] = labels /\ t[n] = WrittenLabels(labels, reply)
    /\ \A m \in 0..(n - 1) : t[m + 1] = WriteLabel(t[m], labels[m + 1], reply)

\* The labels are written one after the other.
LEMMA LabelsFold ==
    ASSUME NEW n \in Nat, NEW labels \in [1..n -> Labels], NEW ids, NEW reply \in [ids -> Translated]
    PROVE  \E t : LabelSteps(t, n, labels, reply)
<1> DEFINE V == [1..n -> LabelTexts]
           G == [x \in V \X (1..n) |-> WriteLabel(x[1], labels[x[2]], reply)]
           f == CHOOSE f : LabelsWritten(f, labels, reply)
           t == [m \in 0..n |-> f[1..m]]
<1>1. labels \in V /\ DOMAIN labels = 1..n
  BY DEF LabelTexts
<1>2. G \in [V \X (1..n) -> V]
  BY WriteLabelTyped
<1>3. \A x \in V, i \in 1..n : G[<<x, i>>] = WriteLabel(x, labels[i], reply)
  OBVIOUS
<1> HIDE DEF V, G
<1>4. LabelsWritten(f, labels, reply)
  <2>1. PICK g \in [SUBSET (1..n) -> V] : Folds(g, n, labels, G)
    BY <1>1, <1>2, FoldExists
  <2>2. ASSUME NEW s \in SUBSET (1..n)
        PROVE  g[s] = IF s = {} THEN labels ELSE WriteLabel(g[s \ {Max(s)}], labels[Max(s)], reply)
    <3>1. g[s] = IF s = {} THEN labels ELSE G[<<g[s \ {Max(s)}], Max(s)>>]
      BY <2>1 DEF Folds
    <3>2. CASE s # {}
      <4>1. g[s \ {Max(s)}] \in V /\ Max(s) \in 1..n
        BY <3>2, GreatestIs
      <4> QED
        BY <1>3, <3>1, <3>2, <4>1
    <3> QED
      BY <3>1, <3>2
  <2>3. g = [s \in SUBSET (1..n) |-> g[s]]
    OBVIOUS
  <2>4. LabelsWritten(g, labels, reply)
    BY <1>1, <2>2, <2>3 DEF LabelsWritten
  <2> QED
    BY <2>4
<1>5. FoldsIn(f, n, labels, G, V)
  <2> HIDE DEF f
  <2>1. ASSUME NEW s \in SUBSET (1..n)
        PROVE  f[s] = IF s = {} THEN labels ELSE WriteLabel(f[s \ {Max(s)}], labels[Max(s)], reply)
    BY <1>1, <1>4 DEF LabelsWritten
  <2>2. ASSUME NEW s \in SUBSET (1..n), s # {}, f[s \ {Max(s)}] \in V
        PROVE  f[s] = G[<<f[s \ {Max(s)}], Max(s)>>]
    <3>1. Max(s) \in 1..n
      BY <2>2, GreatestIs
    <3> QED
      BY <1>3, <2>1, <2>2, <3>1
  <2>3. f[{}] = labels
    <3>1. {} \in SUBSET (1..n)
      OBVIOUS
    <3> QED
      BY <2>1, <3>1
  <2> QED
    BY <2>2, <2>3 DEF FoldsIn
<1>6. f[1..n] = WrittenLabels(labels, reply)
  BY <1>1, WrittenLabelsIs
<1> HIDE DEF f
<1>7. /\ \A m \in 0..n : f[1..m] \in V
      /\ f[1..0] = labels
      /\ \A m \in 0..(n - 1) : f[1..(m + 1)] = G[<<f[1..m], m + 1>>]
  <2>1. FoldGoesOn(f, n, labels, G, V)
    BY <1>1, <1>2, <1>5, FoldSteps
  <2> QED
    BY <2>1 DEF FoldGoesOn
<1>8. ASSUME NEW m \in 0..(n - 1) PROVE t[m + 1] = WriteLabel(t[m], labels[m + 1], reply)
  <2>1. m \in 0..n /\ m + 1 \in 0..n /\ m + 1 \in 1..n
    OBVIOUS
  <2>2. f[1..(m + 1)] = WriteLabel(f[1..m], labels[m + 1], reply)
    BY <1>3, <1>7, <2>1
  <2> QED
    BY <2>1, <2>2
<1>9. t \in [0..n -> V] /\ t[0] = labels /\ t[n] = WrittenLabels(labels, reply)
  BY <1>6, <1>7
<1> QED
  BY <1>8, <1>9 DEF V, LabelSteps

\* Every label has the translation of its unit, if the labels' units are their own
\* and no translation is the text of another label.
LEMMA LabelsAreWritten ==
    ASSUME NEW n \in Nat, NEW labels \in [1..n -> Labels], NEW ids, NEW reply \in [ids -> Translated]
    PROVE  /\ WrittenLabels(labels, reply) \in [1..n -> LabelTexts]
           /\ LET texts == {labels[i] : i \in 1..n}
              IN  (\A t, u \in texts : LabelId(t) = LabelId(u) => t = u)
                  /\ (\A id \in ids : reply[id] \notin texts)
                  => \A i \in 1..n : WrittenLabels(labels, reply)[i]
                        = IF LabelId(labels[i]) \in ids THEN reply[LabelId(labels[i])] ELSE labels[i]
<1> DEFINE texts == {labels[i] : i \in 1..n}
           Own(i) == IF LabelId(labels[i]) \in ids THEN reply[LabelId(labels[i])] ELSE labels[i]
<1>0. PICK t : LabelSteps(t, n, labels, reply)
  BY LabelsFold
<1>1. /\ t \in [0..n -> [1..n -> LabelTexts]]
      /\ t[0] = labels /\ t[n] = WrittenLabels(labels, reply)
      /\ \A m \in 0..(n - 1) : t[m + 1] = WriteLabel(t[m], labels[m + 1], reply)
  BY <1>0 DEF LabelSteps
<1>2. ASSUME \A u, v \in texts : LabelId(u) = LabelId(v) => u = v,
             \A id \in ids : reply[id] \notin texts
      PROVE  \A i \in 1..n : WrittenLabels(labels, reply)[i] = Own(i)
  <2> DEFINE Reached(m) == \A i \in 1..n : t[m][i] = IF i <= m THEN Own(i) ELSE labels[i]
             N == {m \in Nat : m <= n => Reached(m)}
  <2>1. Reached(0)
    BY <1>1
  <2>2. ASSUME NEW m \in Nat, m + 1 <= n, Reached(m) PROVE Reached(m + 1)
    <3> DEFINE same == {k \in DOMAIN t[m] : t[m][k] = labels[m + 1]}
    <3>1. t[m + 1] = WriteLabel(t[m], labels[m + 1], reply) /\ t[m] \in [1..n -> LabelTexts]
      BY <1>1, <2>2
    <3>2. CASE LabelId(labels[m + 1]) \notin ids
      <4>1. t[m + 1] = t[m] /\ Own(m + 1) = labels[m + 1]
        BY <3>1, <3>2 DEF WriteLabel
      <4> HIDE DEF Own
      <4> QED
        BY <2>2, <4>1
    <3>3. CASE LabelId(labels[m + 1]) \in ids
      <4>1. m + 1 \in same
        BY <2>2, <3>1
      <4>2. ASSUME NEW k \in same PROVE m + 1 <= k /\ k \in 1..n
        <5>1. k \in 1..n /\ t[m][k] = labels[m + 1]
          BY <3>1
        <5>2. CASE k <= m
          <6>1. Own(k) = labels[m + 1] /\ labels[k] \in texts /\ labels[m + 1] \in texts
            BY <2>2, <5>1, <5>2
          <6> QED
            BY <1>2, <3>3, <6>1
        <5> QED
          BY <5>1, <5>2
      <4>3. Min(same) = m + 1
        <5>1. \A x \in same : (\A y \in same : x <= y) => x = m + 1
          <6> HIDE DEF same
          <6> QED
            BY <4>1, <4>2
        <5> HIDE DEF same
        <5> QED
          BY <4>1, <4>2, <5>1 DEF Min
      <4>4. t[m + 1] = [t[m] EXCEPT ![m + 1] = reply[LabelId(labels[m + 1])]]
        BY <3>1, <3>3, <4>1, <4>3 DEF WriteLabel
      <4>5. Own(m + 1) = reply[LabelId(labels[m + 1])]
        BY <3>3
      <4> HIDE DEF Own
      <4> QED
        BY <2>2, <3>1, <4>4, <4>5
    <3> QED
      BY <3>2, <3>3
  <2> HIDE DEF Reached
  <2>3. N \in SUBSET Nat /\ 0 \in N /\ \A m \in N : m + 1 \in N
    BY <2>1, <2>2
  <2> HIDE DEF N
  <2>4. N = Nat
    BY <2>3, NumbersBelow
  <2>5. Reached(n)
    BY <2>4 DEF N
  <2> QED
    BY <1>1, <2>5 DEF Reached
<1>3. WrittenLabels(labels, reply) \in [1..n -> LabelTexts]
  BY <1>1
<1> QED
  BY <1>2, <1>3

-----------------------------------------------------------------------------
(***************************************************************************)
(* Sums                                                                    *)
(***************************************************************************)

First(s) == CHOOSE x \in s : TRUE

\* h has a number for everything in D, f for every subset.
Amounts(h, D) == \A k \in D : h[k] \in Nat
InNumbers(f, D) == f \in [SUBSET D -> Nat]
SplitUp(f, h, D) == \A s \in SUBSET D : \A x \in s : f[s] = h[x] + f[s \ {x}]

\* f has the sums of h over the subsets of D.
Sums(f, h, D) ==
    \A s \in SUBSET D : f[s] = IF s = {} THEN 0 ELSE h[First(s)] + f[s \ {First(s)}]

\* A finite set has as many elements as one of its parts and one more.
LEMMA OneLess ==
    ASSUME NEW s, IsFiniteSet(s), NEW x \in s
    PROVE  /\ IsFiniteSet(s \ {x}) /\ Cardinality(s) \in Nat /\ Cardinality(s) > 0
           /\ Cardinality(s \ {x}) = Cardinality(s) - 1
<1>1. IsFiniteSet(s \ {x}) /\ Cardinality(s \ {x}) = Cardinality(s) - 1
  BY FS_RemoveElement
<1>2. Cardinality(s) \in Nat /\ Cardinality(s \ {x}) \in Nat
  BY <1>1, FS_CardinalityType
<1> QED
  BY <1>1, <1>2

\* Every function of numbers on a finite set has sums, which are numbers.
LEMMA SumsExist ==
    ASSUME NEW D, IsFiniteSet(D), NEW h, Amounts(h, D)
    PROVE  \E f \in [SUBSET D -> Nat] : Sums(f, h, D)
<1> DEFINE Small(m) == {s \in SUBSET D : Cardinality(s) <= m}
           SumsTo(f, m) == \A s \in Small(m) : f[s] = IF s = {} THEN 0 ELSE h[First(s)] + f[s \ {First(s)}]
           HasSums(m) == \E f \in [Small(m) -> Nat] : SumsTo(f, m)
           N == {m \in Nat : HasSums(m)}
<1>1. \A s \in SUBSET D : IsFiniteSet(s) /\ Cardinality(s) \in Nat
  BY FS_Subset, FS_CardinalityType
<1>2. \A s \in SUBSET D : s # {} => First(s) \in s
  BY DEF First
<1>3. HasSums(0)
  <2>1. \A s \in Small(0) : s = {}
    <3> SUFFICES ASSUME NEW s \in Small(0) PROVE s = {}
      OBVIOUS
    <3>1. Cardinality(s) = 0
      BY <1>1
    <3> QED
      BY <1>1, <3>1, FS_EmptySet
  <2> DEFINE f == [s \in Small(0) |-> 0]
  <2>2. f \in [Small(0) -> Nat]
    OBVIOUS
  <2>3. SumsTo(f, 0)
    <3> HIDE DEF Small
    <3> QED
      BY <2>1
  <2> QED
    BY <2>2, <2>3
<1>4. ASSUME NEW m \in Nat, HasSums(m) PROVE HasSums(m + 1)
  <2>1. PICK f \in [Small(m) -> Nat] : SumsTo(f, m)
    BY <1>4
  <2> DEFINE g == [s \in Small(m + 1) |->
                      IF s \in Small(m) THEN f[s] ELSE h[First(s)] + f[s \ {First(s)}]]
  <2>2. ASSUME NEW s \in Small(m + 1), s # {} PROVE s \ {First(s)} \in Small(m) /\ First(s) \in D
    <3>1. First(s) \in s /\ IsFiniteSet(s)
      BY <1>1, <1>2, <2>2
    <3>2. Cardinality(s \ {First(s)}) = Cardinality(s) - 1 /\ Cardinality(s) \in Nat
      BY <3>1, OneLess
    <3> QED
      BY <3>1, <3>2
  <2>3. \A s \in Small(m) : s \in Small(m + 1)
    BY <1>1
  <2>4. {} \in Small(m)
    BY FS_EmptySet
  <2> HIDE DEF Small
  <2>5. ASSUME NEW s \in Small(m + 1)
        PROVE  g[s] \in Nat /\ g[s] = IF s = {} THEN 0 ELSE h[First(s)] + g[s \ {First(s)}]
    <3>1. CASE s = {}
      BY <2>1, <2>4, <3>1
    <3>2. CASE s # {} /\ s \in Small(m)
      <4>1. s \ {First(s)} \in Small(m) /\ s \ {First(s)} \in Small(m + 1)
        BY <2>2, <2>3, <3>2
      <4>2. g[s] = f[s] /\ g[s \ {First(s)}] = f[s \ {First(s)}]
        BY <3>2, <4>1
      <4>3. f[s] = h[First(s)] + f[s \ {First(s)}] /\ f[s] \in Nat
        BY <2>1, <3>2
      <4> QED
        BY <3>2, <4>2, <4>3
    <3>3. CASE s # {} /\ s \notin Small(m)
      <4>1. s \ {First(s)} \in Small(m) /\ s \ {First(s)} \in Small(m + 1) /\ First(s) \in D
        BY <2>2, <2>3, <3>3
      <4>2. g[s] = h[First(s)] + f[s \ {First(s)}] /\ g[s \ {First(s)}] = f[s \ {First(s)}]
        BY <3>3, <4>1
      <4>3. h[First(s)] \in Nat /\ f[s \ {First(s)}] \in Nat
        BY <4>1 DEF Amounts
      <4> QED
        BY <3>3, <4>2, <4>3
    <3> QED
      BY <3>1, <3>2, <3>3
  <2>6. g \in [Small(m + 1) -> Nat] /\ SumsTo(g, m + 1)
    <3>1. g = [s \in Small(m + 1) |-> g[s]]
      OBVIOUS
    <3> HIDE DEF g
    <3> QED
      BY <2>5, <3>1
  <2> HIDE DEF g, SumsTo
  <2> QED
    BY <2>6
<1> HIDE DEF HasSums
<1>5. N \in SUBSET Nat /\ 0 \in N /\ \A m \in N : m + 1 \in N
  BY <1>3, <1>4
<1> HIDE DEF N
<1>6. HasSums(Cardinality(D))
  <2>1. N = Nat
    BY <1>5, NumbersBelow
  <2>2. Cardinality(D) \in Nat
    BY FS_CardinalityType
  <2> QED
    BY <2>1, <2>2 DEF N
<1>7. PICK f \in [Small(Cardinality(D)) -> Nat] : SumsTo(f, Cardinality(D))
  BY <1>6 DEF HasSums
<1>8. Small(Cardinality(D)) = SUBSET D
  <2>1. \A s \in SUBSET D : Cardinality(s) <= Cardinality(D)
    BY FS_Subset
  <2> QED
    BY <2>1
<1> QED
  BY <1>7, <1>8 DEF Sums

\* It does not matter which element is added first.
LEMMA SumsSplit ==
    ASSUME NEW D, IsFiniteSet(D), NEW h, Amounts(h, D),
           NEW f, InNumbers(f, D), Sums(f, h, D)
    PROVE  SplitUp(f, h, D)
<1> DEFINE Splits(m) == \A s \in SUBSET D : Cardinality(s) = m => \A x \in s : f[s] = h[x] + f[s \ {x}]
           N == {m \in Nat : Splits(m)}
<1>0. f \in [SUBSET D -> Nat]
  BY DEF InNumbers
<1>1. \A s \in SUBSET D : IsFiniteSet(s) /\ Cardinality(s) \in Nat
  BY FS_Subset, FS_CardinalityType
<1>2. Splits(0)
  <2>1. \A s \in SUBSET D : Cardinality(s) = 0 => s = {}
    BY <1>1, FS_EmptySet
  <2> QED
    BY <2>1
<1>3. ASSUME NEW m \in Nat, Splits(m) PROVE Splits(m + 1)
  <2> SUFFICES ASSUME NEW s \in SUBSET D, Cardinality(s) = m + 1, NEW x \in s
               PROVE  f[s] = h[x] + f[s \ {x}]
    OBVIOUS
  <2> DEFINE p == First(s)
  <2>1. p \in s /\ f[s] = h[p] + f[s \ {p}]
    BY DEF Sums, First
  <2>2. CASE x = p
    BY <2>1, <2>2
  <2>3. CASE x # p
    <3>1. Cardinality(s \ {p}) = m /\ Cardinality(s \ {x}) = m
      <4>1. IsFiniteSet(s) /\ p \in s
        BY <1>1, <2>1
      <4> HIDE DEF p
      <4>2. /\ Cardinality(s \ {p}) = Cardinality(s) - 1
            /\ Cardinality(s \ {x}) = Cardinality(s) - 1
        BY <4>1, OneLess
      <4> QED
        BY <4>2
    <3>2. x \in s \ {p} /\ p \in s \ {x} /\ s \ {p} \in SUBSET D /\ s \ {x} \in SUBSET D
      BY <2>1, <2>3
    <3> HIDE DEF p
    <3>3. f[s \ {p}] = h[x] + f[(s \ {p}) \ {x}] /\ f[s \ {x}] = h[p] + f[(s \ {x}) \ {p}]
      BY <1>3, <3>1, <3>2
    <3> DEFINE rest == (s \ {p}) \ {x}
    <3>4. (s \ {x}) \ {p} = rest /\ rest \in SUBSET D
      OBVIOUS
    <3>5. h[x] \in Nat /\ h[p] \in Nat /\ f[rest] \in Nat
      BY <1>0, <2>1, <3>4 DEF Amounts
    <3>6. f[s \ {p}] = h[x] + f[rest] /\ f[s \ {x}] = h[p] + f[rest]
      BY <3>3, <3>4
    <3> HIDE DEF rest
    <3> QED
      BY <2>1, <3>5, <3>6
  <2> QED
    BY <2>2, <2>3
<1> HIDE DEF Splits
<1>4. N \in SUBSET Nat /\ 0 \in N /\ \A m \in N : m + 1 \in N
  BY <1>2, <1>3
<1> HIDE DEF N
<1>5. \A m \in Nat : Splits(m)
  <2>1. N = Nat
    BY <1>4, NumbersBelow
  <2> QED
    BY <2>1 DEF N
<1> QED
  BY <1>1, <1>5 DEF Splits, SplitUp

\* What SumOver chooses among.
SumFunctions(h, D) ==
    CHOOSE f : f = [s \in SUBSET D |-> IF s = {} THEN 0 ELSE h[First(s)] + f[s \ {First(s)}]]

LEMMA SumOverIs ==
    ASSUME NEW h, NEW D PROVE SumOver(h, D) = SumFunctions(h, D)[D]
  BY DEF SumOver, MapThenSumSet, MapThenFoldSet, SumFunctions, First

LEMMA SumFunctionsIs ==
    ASSUME NEW D, IsFiniteSet(D), NEW h, Amounts(h, D)
    PROVE  SumFunctions(h, D) \in [SUBSET D -> Nat] /\ Sums(SumFunctions(h, D), h, D)
<1> DEFINE Is(f) == f = [s \in SUBSET D |-> IF s = {} THEN 0 ELSE h[First(s)] + f[s \ {First(s)}]]
<1>1. PICK g \in [SUBSET D -> Nat] : Sums(g, h, D)
  BY SumsExist
<1>2. Is(g)
  <2>1. g = [s \in SUBSET D |-> g[s]]
    OBVIOUS
  <2> QED
    BY <1>1, <2>1 DEF Sums
<1> DEFINE f == SumFunctions(h, D)
<1>3. Is(f)
  BY <1>2 DEF SumFunctions
<1>4. Sums(f, h, D)
  <2> HIDE DEF f
  <2> QED
    BY <1>3 DEF Sums
<1>5. f = g
  <2> DEFINE Same(m) == \A s \in SUBSET D : Cardinality(s) = m => f[s] = g[s]
             N == {m \in Nat : Same(m)}
  <2> HIDE DEF f
  <2>1. \A s \in SUBSET D : IsFiniteSet(s) /\ Cardinality(s) \in Nat
    BY FS_Subset, FS_CardinalityType
  <2>2. Same(0)
    <3>1. \A s \in SUBSET D : Cardinality(s) = 0 => s = {}
      BY <2>1, FS_EmptySet
    <3> QED
      BY <1>1, <1>4, <3>1 DEF Sums
  <2>3. ASSUME NEW m \in Nat, Same(m) PROVE Same(m + 1)
    <3> SUFFICES ASSUME NEW s \in SUBSET D, Cardinality(s) = m + 1 PROVE f[s] = g[s]
      OBVIOUS
    <3>1. s # {}
      <4>1. Cardinality({}) = 0 /\ m + 1 # 0
        BY FS_EmptySet
      <4> QED
        BY <4>1
    <3>2. First(s) \in s
      BY <3>1 DEF First
    <3>3. Cardinality(s \ {First(s)}) = m /\ s \ {First(s)} \in SUBSET D
      BY <2>1, <3>2, OneLess
    <3>4. f[s \ {First(s)}] = g[s \ {First(s)}]
      BY <2>3, <3>3
    <3> QED
      BY <1>1, <1>4, <3>1, <3>4 DEF Sums
  <2> HIDE DEF Same
  <2>4. N \in SUBSET Nat /\ 0 \in N /\ \A m \in N : m + 1 \in N
    BY <2>2, <2>3
  <2> HIDE DEF N
  <2>5. \A m \in Nat : Same(m)
    <3>1. N = Nat
      BY <2>4, NumbersBelow
    <3> QED
      BY <3>1 DEF N
  <2>6. \A s \in SUBSET D : f[s] = g[s]
    BY <2>1, <2>5 DEF Same
  <2>7. f = [s \in SUBSET D |-> f[s]] /\ g = [s \in SUBSET D |-> g[s]]
    BY <1>3
  <2> QED
    BY <2>6, <2>7
<1> QED
  BY <1>4, <1>5

\* A sum adds up from its parts, whichever of them comes first.
AddsUp(f, h, D) ==
    /\ f \in [SUBSET D -> Nat] /\ f[{}] = 0 /\ f[D] = SumOver(h, D)
    /\ \A s \in SUBSET D : \A x \in s : f[s] = h[x] + f[s \ {x}]

\* A sum of numbers that are not negative adds up one by one.
LEMMA SumAddsUp ==
    ASSUME NEW D, IsFiniteSet(D), NEW h, Amounts(h, D)
    PROVE  \E f : AddsUp(f, h, D)
<1>1. PICK f \in [SUBSET D -> Nat] : Sums(f, h, D) /\ SumOver(h, D) = f[D]
  <2> DEFINE F == SumFunctions(h, D)
  <2>1. F \in [SUBSET D -> Nat] /\ Sums(F, h, D) /\ SumOver(h, D) = F[D]
    BY SumFunctionsIs, SumOverIs
  <2> HIDE DEF F
  <2> QED
    BY <2>1
<1>2. \A s \in SUBSET D : \A x \in s : f[s] = h[x] + f[s \ {x}]
  <2>1. InNumbers(f, D)
    BY <1>1 DEF InNumbers
  <2>2. SplitUp(f, h, D)
    BY <1>1, <2>1, SumsSplit
  <2> QED
    BY <2>2 DEF SplitUp
<1>3. f[{}] = 0
  <2>1. {} \in SUBSET D
    OBVIOUS
  <2> QED
    BY <1>1, <2>1 DEF Sums
<1> QED
  BY <1>1, <1>2, <1>3 DEF AddsUp

\* A sum of numbers is a number, and none of them exceeds it.
LEMMA SumIsNat ==
    ASSUME NEW D, IsFiniteSet(D), NEW h, Amounts(h, D)
    PROVE  /\ SumOver(h, D) \in Nat
           /\ \A x \in D : h[x] <= SumOver(h, D)
<1>1. PICK f : AddsUp(f, h, D)
  BY SumAddsUp
<1>2. /\ f \in [SUBSET D -> Nat] /\ f[D] = SumOver(h, D)
      /\ \A s \in SUBSET D : \A x \in s : f[s] = h[x] + f[s \ {x}]
  BY <1>1 DEF AddsUp
<1>3. f[D] \in Nat
  BY <1>2
<1>4. ASSUME NEW x \in D PROVE h[x] <= f[D]
  <2>1. f[D] = h[x] + f[D \ {x}]
    BY <1>2
  <2>2. h[x] \in Nat /\ f[D \ {x}] \in Nat
    BY <1>2 DEF Amounts
  <2> QED
    BY <2>1, <2>2
<1> QED
  BY <1>2, <1>3, <1>4

-----------------------------------------------------------------------------
(***************************************************************************)
(* Pieces of a text                                                        *)
(***************************************************************************)

\* f has the pieces of seqs up to each of them in one.
Joins(f, seqs) ==
    f = [i \in 1..Len(seqs) |-> IF i = 1 THEN seqs[i] ELSE f[i - 1] \o seqs[i]]

\* Joining pieces is a chosen function of the community modules.
LEMMA FlattenSeqIs ==
    ASSUME NEW seqs, Len(seqs) # 0
    PROVE  FlattenSeq(seqs) = (CHOOSE f : Joins(f, seqs))[Len(seqs)]
  BY DEF FlattenSeq, Joins

\* Pieces make a text if each goes on where the ones before it end.
LEMMA FlattenIs ==
    ASSUME NEW S, NEW seqs \in Seq(Seq(S)), NEW text \in [0..Len(seqs) -> Seq(S)],
           text[0] = <<>>, \A i \in 1..Len(seqs) : text[i] = text[i - 1] \o seqs[i]
    PROVE  FlattenSeq(seqs) = text[Len(seqs)]
<1> DEFINE n == Len(seqs)
           f == CHOOSE f : Joins(f, seqs)
           g == [i \in 1..n |-> text[i]]
<1>1. n \in Nat /\ \A i \in 1..n : seqs[i] \in Seq(S)
  OBVIOUS
<1>2. CASE n = 0
  <2>1. seqs = <<>>
    BY <1>2
  <2>2. FlattenSeq(seqs) = seqs
    BY <1>2 DEF FlattenSeq
  <2> QED
    BY <1>2, <2>1, <2>2
<1>3. CASE n # 0
  <2>1. n >= 1
    BY <1>1, <1>3
  <2>2. text[1] = seqs[1]
    <3>1. 1 \in 1..n /\ 1 - 1 = 0
      BY <1>1, <2>1
    <3>2. text[1] = text[1 - 1] \o seqs[1] /\ seqs[1] \in Seq(S)
      BY <1>1, <3>1
    <3>3. text[1] = <<>> \o seqs[1]
      BY <3>1, <3>2
    <3> QED
      BY <3>2, <3>3
  <2>3. ASSUME NEW i \in 1..n PROVE g[i] = IF i = 1 THEN seqs[i] ELSE g[i - 1] \o seqs[i]
    <3>1. CASE i = 1
      BY <2>2, <3>1
    <3>2. CASE i # 1
      <4>1. i - 1 \in 1..n
        BY <3>2
      <4> QED
        BY <3>2, <4>1
    <3> QED
      BY <3>1, <3>2
  <2>4. Joins(g, seqs)
    BY <2>3 DEF Joins
  <2>5. Joins(f, seqs)
    BY <2>4
  <2> DEFINE Same(m) == f[m] = text[m]
             N == {m \in Nat : m + 1 <= n => Same(m + 1)}
  <2>6. FlattenSeq(seqs) = f[n]
    BY <1>3, FlattenSeqIs
  <2> HIDE DEF f
  <2>7. Same(1)
    BY <2>1, <2>2, <2>5 DEF Joins
  <2>8. ASSUME NEW m \in Nat, m + 2 <= n, Same(m + 1) PROVE Same(m + 2)
    <3>1. m + 2 \in 1..n /\ m + 2 # 1 /\ (m + 2) - 1 = m + 1
      BY <1>1, <2>8
    <3>2. f[m + 2] = f[m + 1] \o seqs[m + 2]
      BY <2>5, <3>1 DEF Joins
    <3>3. text[m + 2] = text[m + 1] \o seqs[m + 2]
      BY <3>1
    <3> QED
      BY <2>8, <3>2, <3>3
  <2> HIDE DEF Same
  <2>9. N \in SUBSET Nat /\ 0 \in N /\ \A m \in N : m + 1 \in N
    <3>1. ASSUME NEW m \in N PROVE m + 1 \in N
      <4>1. (m + 1) + 1 = m + 2 /\ m \in Nat /\ m + 1 \in Nat
        OBVIOUS
      <4>2. ASSUME m + 2 <= n PROVE Same(m + 2)
        <5>1. m + 1 <= n
          BY <1>1, <4>1, <4>2
        <5> QED
          BY <2>8, <4>2, <5>1
      <4> QED
        BY <4>1, <4>2
    <3> QED
      BY <2>7, <3>1
  <2> HIDE DEF N
  <2>10. Same(n)
    <3>1. N = Nat
      BY <2>9, NumbersBelow
    <3>2. n - 1 \in N /\ (n - 1) + 1 = n /\ (n - 1) + 1 <= n
      BY <1>1, <2>1, <3>1
    <3> QED
      BY <3>2 DEF N
  <2> QED
    BY <2>6, <2>10 DEF Same
<1> QED
  BY <1>2, <1>3

\* The words up to one place and those that follow are the words up to another.
LEMMA SliceGoesOn ==
    ASSUME NEW words \in Nat, NEW a \in Nat, NEW b \in Nat, a + b <= words
    PROVE  /\ Upto(a) \in Seq(Nat) /\ Slice(Upto(words), a, b) \in Seq(Nat)
           /\ Upto(a) \o Slice(Upto(words), a, b) = Upto(a + b)
<1> DEFINE u == Upto(words)
           p == Slice(u, a, b)
<1>1. \A k \in Nat : Upto(k) \in Seq(Nat) /\ Len(Upto(k)) = k /\ \A i \in 1..k : Upto(k)[i] = i
  BY DEF Upto
<1>2. u \in Seq(Nat) /\ Len(u) = words
  BY <1>1
<1> HIDE DEF u
<1>3. p \in Seq(Nat) /\ Len(p) = b /\ \A i \in 1..b : p[i] = a + i
  <2>1. a + 1 \in 1..(Len(u) + 1) /\ a + b \in 0..Len(u) /\ (a + b) - (a + 1) + 1 = b
    BY <1>2
  <2>2. /\ SubSeq(u, a + 1, a + b) \in Seq(Nat)
        /\ Len(SubSeq(u, a + 1, a + b)) = IF a + 1 <= a + b THEN (a + b) - (a + 1) + 1 ELSE 0
        /\ \A i \in 1..((a + b) - (a + 1) + 1) : SubSeq(u, a + 1, a + b)[i] = u[(a + 1) + i - 1]
    BY <1>2, <2>1, SubSeqProperties
  <2>3. p \in Seq(Nat) /\ Len(p) = b
    BY <2>1, <2>2 DEF Slice
  <2>4. ASSUME NEW i \in 1..b PROVE p[i] = a + i
    <3>1. p[i] = u[(a + 1) + i - 1] /\ (a + 1) + i - 1 = a + i /\ a + i \in 1..words
      BY <2>1, <2>2 DEF Slice
    <3>2. u[a + i] = a + i
      BY <1>1, <3>1 DEF u
    <3> QED
      BY <3>1, <3>2
  <2> QED
    BY <2>3, <2>4
<1>4. Upto(a) \in Seq(Nat) /\ Upto(a + b) \in Seq(Nat)
  BY <1>1
<1> HIDE DEF p
<1>5. Upto(a) \o p = Upto(a + b)
  <2> DEFINE v == Upto(a)
             c == v \o p
  <2>0. v \in Seq(Nat) /\ Len(v) = a /\ \A i \in 1..a : v[i] = i
    BY <1>1
  <2> HIDE DEF v
  <2>1. /\ c \in Seq(Nat) /\ Len(c) = a + b
        /\ \A i \in 1..(a + b) : c[i] = IF i <= a THEN v[i] ELSE p[i - a]
    BY <1>3, <2>0, ConcatProperties
  <2> HIDE DEF c
  <2>2. Len(Upto(a + b)) = a + b
    BY <1>1
  <2>3. ASSUME NEW i \in 1..(a + b) PROVE c[i] = i /\ Upto(a + b)[i] = i
    <3>1. Upto(a + b)[i] = i
      BY <1>1
    <3>2. CASE i <= a
      <4>1. i \in 1..a
        BY <3>2
      <4> QED
        BY <2>0, <2>1, <3>1, <3>2, <4>1
    <3>3. CASE i > a
      <4>1. i - a \in 1..b /\ ~(i <= a)
        BY <3>3
      <4>2. c[i] = p[i - a]
        BY <2>1, <4>1
      <4>3. p[i - a] = a + (i - a) /\ a + (i - a) = i
        BY <1>3, <4>1
      <4> QED
        BY <3>1, <4>2, <4>3
    <3> QED
      BY <3>2, <3>3
  <2>4. c = Upto(a + b)
    BY <1>4, <2>1, <2>2, <2>3, SeqEqual
  <2> QED
    BY <2>4 DEF c, v
<1> QED
  BY <1>3, <1>4, <1>5 DEF p, u

-----------------------------------------------------------------------------
(***************************************************************************)
(* The runs of a shared string                                             *)
(***************************************************************************)

\* The least and the greatest of two numbers.
LEMMA OfTwo ==
    ASSUME NEW a \in Int, NEW b \in Int
    PROVE  /\ Min({a, b}) \in {a, b} /\ Min({a, b}) <= a /\ Min({a, b}) <= b
           /\ Max({a, b}) \in {a, b} /\ Max({a, b}) >= a /\ Max({a, b}) >= b
<1>1. (\E x \in {a, b} : \A y \in {a, b} : x <= y) /\ (\E x \in {a, b} : \A y \in {a, b} : x >= y)
  OBVIOUS
<1> QED
  BY <1>1 DEF Min, Max

\* A run takes what is left at most, and the last one takes all of it.
LEMMA ShareIs ==
    ASSUME NEW n \in Nat, NEW lengths \in [1..n -> Nat], \E k \in 1..n : lengths[k] > 0,
           NEW words \in Nat, NEW taken \in 0..words, NEW i \in 1..n
    PROVE  /\ ShareOfRun(lengths, i, words, taken) \in 0..(words - taken)
           /\ i = n => ShareOfRun(lengths, i, words, taken) = words - taken
<1> DEFINE total == SumOver(lengths, DOMAIN lengths)
           part == (words * lengths[i]) \div total
           wanted == IF i = Len(lengths) THEN words - taken ELSE Max({1, part})
<1>1. DOMAIN lengths = 1..n /\ Len(lengths) = n
  OBVIOUS
<1>2. IsFiniteSet(DOMAIN lengths)
  BY <1>1, FS_Interval
<1>3. total \in Nat /\ \A k \in 1..n : lengths[k] <= total
  <2>1. Amounts(lengths, DOMAIN lengths)
    BY <1>1 DEF Amounts
  <2> QED
    BY <1>1, <1>2, <2>1, SumIsNat
<1> HIDE DEF total
<1>4. total > 0
  BY <1>3
<1>5. words * lengths[i] \in Nat
  OBVIOUS
<1>6. part \in Nat
  <2> DEFINE product == words * lengths[i]
  <2>1. product \in Nat
    BY <1>5
  <2> HIDE DEF product
  <2>2. product \div total \in Nat
    BY <1>3, <1>4, <2>1
  <2> QED
    BY <2>2 DEF product
<1> HIDE DEF part
<1>7. wanted \in Nat /\ (i = n => wanted = words - taken)
  <2>1. 1 \in Int /\ part \in Int
    BY <1>6
  <2>2. Max({1, part}) \in {1, part}
    BY <2>1, OfTwo
  <2>3. Max({1, part}) \in Nat
    BY <1>6, <2>2
  <2> QED
    BY <1>1, <2>3
<1> HIDE DEF wanted
<1>8. ShareOfRun(lengths, i, words, taken) = Min({wanted, words - taken})
  BY DEF ShareOfRun, wanted, part, total
<1>9. words - taken \in Nat
  OBVIOUS
<1>10. Min({wanted, words - taken}) \in {wanted, words - taken} /\ Min({wanted, words - taken}) <= words - taken
  <2>1. wanted \in Int /\ words - taken \in Int
    BY <1>7, <1>9
  <2> QED
    BY <2>1, OfTwo
<1> DEFINE share == Min({wanted, words - taken})
<1>11. share \in 0..(words - taken) /\ (i = n => share = words - taken)
  <2> HIDE DEF share
  <2> QED
    BY <1>7, <1>9, <1>10 DEF share
<1> QED
  BY <1>8, <1>11

\* The runs after one more.
Fill(lengths, words, filled, i) ==
    LET share == ShareOfRun(lengths, i, words, filled.taken)
    IN  [taken |-> filled.taken + share,
         runs |-> Append(filled.runs, Slice(Upto(words), filled.taken, share))]
NoRuns == [taken |-> 0, runs |-> <<>>]

\* f has the runs at any places.
RunsWritten(f, lengths, words) ==
    f = [s \in SUBSET DOMAIN Upto(Len(lengths)) |->
            IF s = {} THEN NoRuns
            ELSE Fill(lengths, words, f[s \ {Max(s)}], Upto(Len(lengths))[Max(s)])]

LEMMA FilledRunsIs ==
    ASSUME NEW lengths, NEW words
    PROVE  FilledRuns(lengths, words)
              = (CHOOSE f : RunsWritten(f, lengths, words))[DOMAIN Upto(Len(lengths))].runs
  BY DEF FilledRuns, FoldLeft, MapThenFoldSet, RunsWritten, Fill, NoRuns

\* t has the runs after each number of them.
Fillings(words) == {x \in [taken : 0..words, runs : Seq(Seq(Nat))] : TRUE}
RunSteps(t, n, lengths, words) ==
    /\ t \in [0..n -> Fillings(words)]
    /\ t[0] = NoRuns /\ FilledRuns(lengths, words) = t[n].runs
    /\ \A m \in 0..(n - 1) : t[m + 1] = Fill(lengths, words, t[m], m + 1)

\* y has one run more than x.
OneMore(x, y, run) ==
    /\ run \in Seq(Nat) /\ y.runs = Append(x.runs, run)
    /\ Upto(y.taken) = Upto(x.taken) \o run

LEMMA FillTyped ==
    ASSUME NEW n \in Nat, NEW lengths \in [1..n -> Nat], \E k \in 1..n : lengths[k] > 0,
           NEW words \in Nat, NEW x \in Fillings(words), NEW i \in 1..n
    PROVE  /\ Fill(lengths, words, x, i) \in Fillings(words)
           /\ \E run : OneMore(x, Fill(lengths, words, x, i), run)
           /\ i = n => Fill(lengths, words, x, i).taken = words
<1> DEFINE share == ShareOfRun(lengths, i, words, x.taken)
           run == Slice(Upto(words), x.taken, share)
<1>1. x.taken \in 0..words /\ x.runs \in Seq(Seq(Nat))
  BY DEF Fillings
<1>2. share \in 0..(words - x.taken) /\ (i = n => share = words - x.taken)
  BY <1>1, ShareIs
<1> HIDE DEF share
<1>3. x.taken \in Nat /\ share \in Nat /\ x.taken + share <= words
  BY <1>1, <1>2
<1>4. run \in Seq(Nat) /\ Upto(x.taken) \o run = Upto(x.taken + share)
  BY <1>3, SliceGoesOn
<1>5. Fill(lengths, words, x, i) = [taken |-> x.taken + share, runs |-> Append(x.runs, run)]
  BY DEF Fill, share
<1> HIDE DEF run
<1>6. Append(x.runs, run) \in Seq(Seq(Nat)) /\ x.taken + share \in 0..words
  BY <1>1, <1>3, <1>4
<1>7. i = n => x.taken + share = words
  BY <1>1, <1>2
<1>8. /\ Fill(lengths, words, x, i) \in Fillings(words)
      /\ Fill(lengths, words, x, i).taken = x.taken + share
      /\ Fill(lengths, words, x, i).runs = Append(x.runs, run)
  BY <1>5, <1>6 DEF Fillings
<1>9. OneMore(x, Fill(lengths, words, x, i), run)
  BY <1>4, <1>8 DEF OneMore
<1> QED
  BY <1>7, <1>8, <1>9

\* The runs are filled one after the other.
LEMMA RunsFold ==
    ASSUME NEW n \in Nat, NEW lengths \in [1..n -> Nat], \E k \in 1..n : lengths[k] > 0,
           NEW words \in Nat
    PROVE  \E t : RunSteps(t, n, lengths, words)
<1> DEFINE V == Fillings(words)
           G == [x \in V \X (1..n) |-> Fill(lengths, words, x[1], x[2])]
           f == CHOOSE f : RunsWritten(f, lengths, words)
           t == [m \in 0..n |-> f[1..m]]
<1>1. NoRuns \in V
  <2>1. <<>> \in Seq(Seq(Nat)) /\ 0 \in 0..words
    OBVIOUS
  <2> QED
    BY <2>1 DEF NoRuns, Fillings
<1>2. DOMAIN Upto(Len(lengths)) = 1..n /\ \A i \in 1..n : Upto(Len(lengths))[i] = i
  BY DEF Upto
<1>3. G \in [V \X (1..n) -> V]
  <2>1. \A x \in V, i \in 1..n : Fill(lengths, words, x, i) \in V
    BY FillTyped
  <2> HIDE DEF V
  <2> QED
    BY <2>1
<1>4. \A x \in V, i \in 1..n : G[<<x, i>>] = Fill(lengths, words, x, i)
  <2> HIDE DEF V
  <2> QED
    OBVIOUS
<1> HIDE DEF V, G
<1>5. RunsWritten(f, lengths, words)
  <2>1. PICK g \in [SUBSET (1..n) -> V] : Folds(g, n, NoRuns, G)
    BY <1>1, <1>3, FoldExists
  <2>2. ASSUME NEW s \in SUBSET (1..n)
        PROVE  g[s] = IF s = {} THEN NoRuns
                      ELSE Fill(lengths, words, g[s \ {Max(s)}], Upto(Len(lengths))[Max(s)])
    <3>1. g[s] = IF s = {} THEN NoRuns ELSE G[<<g[s \ {Max(s)}], Max(s)>>]
      BY <2>1 DEF Folds
    <3>2. CASE s # {}
      <4>1. g[s \ {Max(s)}] \in V /\ Max(s) \in 1..n
        BY <3>2, GreatestIs
      <4>2. Upto(Len(lengths))[Max(s)] = Max(s)
        BY <1>2, <4>1
      <4> QED
        BY <1>4, <3>1, <3>2, <4>1, <4>2
    <3> QED
      BY <3>1, <3>2
  <2>3. g = [s \in SUBSET (1..n) |-> g[s]]
    OBVIOUS
  <2>4. RunsWritten(g, lengths, words)
    BY <1>2, <2>2, <2>3 DEF RunsWritten
  <2> QED
    BY <2>4
<1>6. FoldsIn(f, n, NoRuns, G, V)
  <2> HIDE DEF f
  <2>1. ASSUME NEW s \in SUBSET (1..n)
        PROVE  f[s] = IF s = {} THEN NoRuns
                      ELSE Fill(lengths, words, f[s \ {Max(s)}], Upto(Len(lengths))[Max(s)])
    BY <1>2, <1>5 DEF RunsWritten
  <2>2. ASSUME NEW s \in SUBSET (1..n), s # {}, f[s \ {Max(s)}] \in V
        PROVE  f[s] = G[<<f[s \ {Max(s)}], Max(s)>>]
    <3>1. Max(s) \in 1..n
      BY <2>2, GreatestIs
    <3>2. Upto(Len(lengths))[Max(s)] = Max(s)
      BY <1>2, <3>1
    <3> QED
      BY <1>4, <2>1, <2>2, <3>1, <3>2
  <2>3. f[{}] = NoRuns
    <3>1. {} \in SUBSET (1..n)
      OBVIOUS
    <3> QED
      BY <2>1, <3>1
  <2> QED
    BY <2>2, <2>3 DEF FoldsIn
<1>7. f[1..n].runs = FilledRuns(lengths, words)
  BY <1>2, FilledRunsIs
<1> HIDE DEF f
<1>8. /\ \A m \in 0..n : f[1..m] \in V
      /\ f[1..0] = NoRuns
      /\ \A m \in 0..(n - 1) : f[1..(m + 1)] = G[<<f[1..m], m + 1>>]
  <2>1. FoldGoesOn(f, n, NoRuns, G, V)
    BY <1>1, <1>3, <1>6, FoldSteps
  <2> QED
    BY <2>1 DEF FoldGoesOn
<1>9. ASSUME NEW m \in 0..(n - 1) PROVE t[m + 1] = Fill(lengths, words, t[m], m + 1)
  <2>1. m \in 0..n /\ m + 1 \in 0..n /\ m + 1 \in 1..n
    OBVIOUS
  <2>2. f[1..(m + 1)] = Fill(lengths, words, f[1..m], m + 1)
    BY <1>4, <1>8, <2>1
  <2> QED
    BY <2>1, <2>2
<1>10. t \in [0..n -> V] /\ t[0] = NoRuns /\ t[n].runs = FilledRuns(lengths, words)
  BY <1>7, <1>8
<1> QED
  BY <1>9, <1>10 DEF V, RunSteps

\* What a sequence holds that got one more element.
LEMMA AppendIs ==
    ASSUME NEW S, NEW rs \in Seq(S), NEW run \in S
    PROVE  /\ Len(Append(rs, run)) = Len(rs) + 1 /\ Append(rs, run)[Len(rs) + 1] = run
           /\ \A i \in 1..Len(rs) : Append(rs, run)[i] = rs[i]
<1>1. Len(rs) \in Nat
  OBVIOUS
<1>2. Len(Append(rs, run)) = Len(rs) + 1
  BY AppendProperties
<1>3. Append(rs, run)[Len(rs) + 1] = run
  BY AppendProperties
<1>4. \A i \in 1..Len(rs) : Append(rs, run)[i] = rs[i]
  BY AppendProperties
<1> QED
  BY <1>2, <1>3, <1>4

\* Filled runs hold every character in its place.
LEMMA RunsAreFilled ==
    ASSUME NEW n \in Nat, NEW lengths \in [1..n -> Nat], \E k \in 1..n : lengths[k] > 0,
           NEW words \in Nat
    PROVE  /\ Len(FilledRuns(lengths, words)) = n
           /\ FlattenSeq(FilledRuns(lengths, words)) = Upto(words)
<1>1. PICK t : RunSteps(t, n, lengths, words)
  BY RunsFold
<1>2. /\ t \in [0..n -> Fillings(words)]
      /\ t[0] = NoRuns /\ FilledRuns(lengths, words) = t[n].runs
      /\ \A m \in 0..(n - 1) : t[m + 1] = Fill(lengths, words, t[m], m + 1)
  BY <1>1 DEF RunSteps
<1>3. \A m \in 0..n : t[m].taken \in Nat /\ t[m].runs \in Seq(Seq(Nat)) /\ Upto(t[m].taken) \in Seq(Nat)
  <2> TAKE m \in 0..n
  <2>1. t[m].taken \in 0..words /\ t[m].runs \in Seq(Seq(Nat))
    BY <1>2 DEF Fillings
  <2>2. t[m].taken \in Nat
    BY <2>1
  <2> QED
    BY <2>1, <2>2 DEF Upto
<1> DEFINE Pre(m) == /\ Len(t[m].runs) = m
                        /\ \A i \in 1..m : Upto(t[i].taken) = Upto(t[i - 1].taken) \o t[m].runs[i]
           N == {m \in Nat : m <= n => Pre(m)}
<1>4. Pre(0)
  BY <1>2 DEF NoRuns
<1>5. ASSUME NEW m \in Nat, m + 1 <= n, Pre(m) PROVE Pre(m + 1) /\ (m + 1 = n => t[m + 1].taken = words)
  <2>1. t[m] \in Fillings(words) /\ m + 1 \in 1..n /\ m \in 0..n /\ t[m + 1] = Fill(lengths, words, t[m], m + 1)
    BY <1>2, <1>5
  <2> DEFINE x == t[m]
             y == t[m + 1]
  <2>2. PICK run : OneMore(x, y, run)
    <3> HIDE DEF x, y
    <3>1. x \in Fillings(words) /\ y = Fill(lengths, words, x, m + 1)
      BY <2>1 DEF x, y
    <3> QED
      BY <2>1, <3>1, FillTyped
  <2>6. m + 1 = n => y.taken = words
    <3> HIDE DEF x, y
    <3>1. x \in Fillings(words) /\ y = Fill(lengths, words, x, m + 1)
      BY <2>1 DEF x, y
    <3> QED
      BY <2>1, <3>1, FillTyped
  <2>7. run \in Seq(Nat) /\ y.runs = Append(x.runs, run) /\ Upto(y.taken) = Upto(x.taken) \o run
    BY <2>2 DEF OneMore
  <2>3. x.runs \in Seq(Seq(Nat)) /\ Len(x.runs) = m
    <3>1. x.runs \in Seq(Seq(Nat))
      BY <1>3, <2>1
    <3> QED
      BY <1>5, <3>1
  <2>4. /\ Len(t[m + 1].runs) = m + 1 /\ t[m + 1].runs[m + 1] = run
        /\ \A i \in 1..m : t[m + 1].runs[i] = t[m].runs[i]
    <3> HIDE DEF x, y
    <3>1. Len(y.runs) = m + 1 /\ y.runs[m + 1] = run /\ \A i \in 1..m : y.runs[i] = x.runs[i]
      <4> DEFINE rs == x.runs
                 S == Seq(Nat)
      <4>1. rs \in Seq(S) /\ run \in S /\ Len(rs) = m /\ y.runs = Append(rs, run)
        BY <2>7, <2>3
      <4> HIDE DEF rs, S
      <4>2. /\ Len(Append(rs, run)) = Len(rs) + 1 /\ Append(rs, run)[Len(rs) + 1] = run
            /\ \A i \in 1..Len(rs) : Append(rs, run)[i] = rs[i]
        <5>1. rs \in Seq(S) /\ run \in S
          BY <4>1
        <5> QED
          BY <5>1, AppendIs
      <4> QED
        BY <4>1, <4>2 DEF rs
    <3> QED
      BY <3>1 DEF x, y
  <2>5. ASSUME NEW i \in 1..(m + 1)
        PROVE  Upto(t[i].taken) = Upto(t[i - 1].taken) \o t[m + 1].runs[i]
    <3>1. CASE i = m + 1
      <4>1. i - 1 = m
        BY <3>1
      <4> QED
        BY <2>7, <2>4, <3>1, <4>1
    <3>2. CASE i # m + 1
      <4>1. i \in 1..m
        BY <3>2
      <4> QED
        BY <1>5, <2>4, <4>1
    <3> QED
      BY <3>1, <3>2
  <2> QED
    BY <2>6, <2>4, <2>5
<1> HIDE DEF Pre
<1>6. N \in SUBSET Nat /\ 0 \in N /\ \A m \in N : m + 1 \in N
  <2>1. \A m \in N : m + 1 <= n => m \in Nat /\ m <= n
    OBVIOUS
  <2> QED
    BY <1>4, <1>5, <2>1
<1> HIDE DEF N
<1>7. N = Nat
  BY <1>6, NumbersBelow
<1>8. Pre(n) /\ t[n].taken = words
  <2>1. n \in N /\ n # 0 /\ n - 1 \in N /\ (n - 1) + 1 = n /\ n - 1 <= n
    BY <1>7
  <2>2. Pre(n - 1)
    BY <2>1 DEF N
  <2>3. n - 1 \in Nat /\ (n - 1) + 1 <= n
    BY <2>1
  <2>4. Pre((n - 1) + 1) /\ ((n - 1) + 1 = n => t[(n - 1) + 1].taken = words)
    BY <1>5, <2>2, <2>3
  <2> QED
    BY <2>1, <2>4
<1> DEFINE runs == t[n].runs
           text == [m \in 0..n |-> Upto(t[m].taken)]
<1>9. runs \in Seq(Seq(Nat)) /\ Len(runs) = n /\ \A i \in 1..n : text[i] = text[i - 1] \o runs[i]
  <2>1. n \in 0..n
    OBVIOUS
  <2>2. \A i \in 1..n : i \in 0..n /\ i - 1 \in 0..n
    OBVIOUS
  <2>3. runs \in Seq(Seq(Nat))
    BY <1>3, <2>1
  <2>4. Len(runs) = n /\ \A i \in 1..n : Upto(t[i].taken) = Upto(t[i - 1].taken) \o runs[i]
    BY <1>8 DEF Pre
  <2>5. \A i \in 1..n : text[i] = Upto(t[i].taken) /\ text[i - 1] = Upto(t[i - 1].taken)
    BY <2>2
  <2> HIDE DEF runs, text
  <2>6. \A i \in 1..n : text[i] = text[i - 1] \o runs[i]
    <3> TAKE i \in 1..n
    <3>1. Upto(t[i].taken) = Upto(t[i - 1].taken) \o runs[i]
      BY <2>4
    <3> QED
      BY <2>5, <3>1
  <2> QED
    BY <2>3, <2>4, <2>6
<1>10. text \in [0..n -> Seq(Nat)] /\ text[0] = <<>> /\ text[n] = Upto(words)
  <2>1. Upto(0) = <<>>
    BY DEF Upto
  <2>2. 0 \in 0..n /\ n \in 0..n
    OBVIOUS
  <2>3. \A m \in 0..n : Upto(t[m].taken) \in Seq(Nat)
    BY <1>3
  <2>4. text \in [0..n -> Seq(Nat)]
    BY <2>3
  <2>5. t[0].taken = 0
    BY <1>2 DEF NoRuns
  <2>6. text[0] = Upto(t[0].taken) /\ text[n] = Upto(t[n].taken)
    BY <2>2
  <2> HIDE DEF text
  <2>7. text[0] = <<>>
    BY <2>1, <2>5, <2>6
  <2>8. text[n] = Upto(words)
    BY <1>8, <2>6
  <2> QED
    BY <2>4, <2>7, <2>8
<1> HIDE DEF runs, text
<1>11. FlattenSeq(runs) = text[Len(runs)]
  BY <1>9, <1>10, FlattenIs
<1> QED
  BY <1>2, <1>9, <1>10, <1>11 DEF runs

-----------------------------------------------------------------------------
(***************************************************************************)
(* Places in their order                                                   *)
(***************************************************************************)

\* R puts any two elements of S in an order, and the elements before one of them.
Ordered(S, R) ==
    /\ \A x \in S : <<x, x>> \notin R
    /\ \A x, y, z \in S : <<x, y>> \in R /\ <<y, z>> \in R => <<x, z>> \in R
    /\ \A x, y \in S : x # y => <<x, y>> \in R \/ <<y, x>> \in R
Preceding(S, R, x) == {y \in S : <<y, x>> \in R}

\* Counting what is before each of them numbers the elements from 0.
LEMMA RanksAre ==
    ASSUME NEW S, IsFiniteSet(S), NEW R, Ordered(S, R)
    PROVE  LET rank == [x \in S |-> Cardinality(Preceding(S, R, x))]
           IN  /\ rank \in [S -> 0..(Cardinality(S) - 1)]
               /\ \A x, y \in S : rank[x] = rank[y] => x = y
               /\ \A k \in 0..(Cardinality(S) - 1) : \E x \in S : rank[x] = k
               /\ \A x, y \in S : <<x, y>> \in R => rank[x] < rank[y]
<1> DEFINE rank == [x \in S |-> Cardinality(Preceding(S, R, x))]
           n == Cardinality(S)
           T == 0..(n - 1)
<1>1. n \in Nat
  BY FS_CardinalityType
<1>2. ASSUME NEW x \in S
      PROVE  /\ IsFiniteSet(Preceding(S, R, x)) /\ rank[x] \in Nat
             /\ rank[x] = Cardinality(Preceding(S, R, x)) /\ rank[x] < n
  <2>1. IsFiniteSet(S \ {x}) /\ Cardinality(S \ {x}) = n - 1
    BY OneLess
  <2>2. Preceding(S, R, x) \in SUBSET (S \ {x})
    BY DEF Preceding, Ordered
  <2>3. IsFiniteSet(Preceding(S, R, x)) /\ Cardinality(Preceding(S, R, x)) <= n - 1
    BY <2>1, <2>2, FS_Subset
  <2>4. Cardinality(Preceding(S, R, x)) \in Nat
    BY <2>3, FS_CardinalityType
  <2> QED
    BY <1>1, <2>3, <2>4
<1>3. ASSUME NEW x \in S, NEW y \in S, <<x, y>> \in R PROVE rank[x] < rank[y]
  <2>1. Preceding(S, R, x) \subseteq Preceding(S, R, y) /\ x \in Preceding(S, R, y) /\ x \notin Preceding(S, R, x)
    BY <1>3 DEF Preceding, Ordered
  <2>2. Cardinality(Preceding(S, R, x)) <= Cardinality(Preceding(S, R, y))
    BY <1>2, <2>1, FS_Subset
  <2>3. Cardinality(Preceding(S, R, x)) # Cardinality(Preceding(S, R, y))
    BY <1>2, <2>1, FS_Subset
  <2> QED
    BY <1>2, <2>2, <2>3
<1>4. ASSUME NEW x \in S, NEW y \in S, rank[x] = rank[y] PROVE x = y
  <2> SUFFICES ASSUME x # y PROVE FALSE
    OBVIOUS
  <2>1. <<x, y>> \in R \/ <<y, x>> \in R
    BY DEF Ordered
  <2>2. rank[x] < rank[y] \/ rank[y] < rank[x]
    BY <1>3, <2>1
  <2> QED
    BY <1>2, <1>4, <2>2
<1>5. rank \in [S -> T]
  BY <1>1, <1>2
<1> HIDE DEF rank
<1>6. rank \in Injection(S, T)
  BY <1>4, <1>5 DEF Injection, IsInjective
<1>7. IsFiniteSet(T) /\ Cardinality(T) = n
  <2>1. 0 \in Int /\ n - 1 \in Int /\ (0 > n - 1 => n = 0) /\ n - 1 - 0 + 1 = n
    BY <1>1
  <2> HIDE DEF n
  <2>2. IsFiniteSet(T) /\ Cardinality(T) = IF 0 > n - 1 THEN 0 ELSE n - 1 - 0 + 1
    BY <2>1, FS_Interval
  <2> QED
    BY <2>1, <2>2
<1>8. rank \in Surjection(S, T)
  BY <1>6, <1>7, FS_Injection
<1>9. \A k \in T : \E x \in S : rank[x] = k
  BY <1>8 DEF Surjection
<1> QED
  BY <1>3, <1>4, <1>5, <1>9 DEF rank

\* Numbers are numbered from 1 by their size.
LEMMA RankIs ==
    ASSUME NEW S \in SUBSET Nat, IsFiniteSet(S)
    PROVE  /\ Cardinality(S) \in Nat
           /\ \A i \in S : Rank(S, i) \in 1..Cardinality(S)
           /\ \A i, j \in S : Rank(S, i) = Rank(S, j) => i = j
           /\ \A i, j \in S : i < j => Rank(S, i) < Rank(S, j)
           /\ \A k \in 1..Cardinality(S) : \E i \in S : Rank(S, i) = k
<1> DEFINE R == {p \in Nat \X Nat : p[1] < p[2]}
           rank == [x \in S |-> Cardinality(Preceding(S, R, x))]
           n == Cardinality(S)
<1>1. \A i, j \in S : <<i, j>> \in R <=> i < j
  OBVIOUS
<1>2. n \in Nat
  BY FS_CardinalityType
<1> HIDE DEF R
<1>3. Ordered(S, R)
  <2>1. \A i \in S : i \in Nat
    OBVIOUS
  <2> QED
    BY <1>1, <2>1 DEF Ordered
<1>4. /\ rank \in [S -> 0..(n - 1)]
      /\ \A x, y \in S : rank[x] = rank[y] => x = y
      /\ \A k \in 0..(n - 1) : \E x \in S : rank[x] = k
      /\ \A x, y \in S : <<x, y>> \in R => rank[x] < rank[y]
  BY <1>3, RanksAre
<1>5. ASSUME NEW i \in S PROVE Rank(S, i) = rank[i] + 1
  <2>0. \A k \in S : (k \in Preceding(S, R, i) <=> k < i) /\ k \in Nat
    BY <1>1 DEF Preceding
  <2>1. {k \in S : k <= i} = Preceding(S, R, i) \cup {i} /\ i \notin Preceding(S, R, i)
    <3>1. i \in Nat /\ Preceding(S, R, i) \subseteq S
      BY DEF Preceding
    <3>2. \A k \in S : k <= i <=> k \in Preceding(S, R, i) \/ k = i
      BY <2>0, <3>1
    <3>3. i \notin Preceding(S, R, i)
      BY <2>0, <3>1
    <3> QED
      BY <3>1, <3>2, <3>3
  <2>2. IsFiniteSet(Preceding(S, R, i))
    BY FS_Subset DEF Preceding
  <2>3. Cardinality(Preceding(S, R, i) \cup {i}) = Cardinality(Preceding(S, R, i)) + 1
    BY <2>1, <2>2, FS_AddElement
  <2> QED
    BY <2>1, <2>3 DEF Rank
<1> HIDE DEF rank, n
<1>6. \A k \in 1..n : k - 1 \in 0..(n - 1) /\ (k - 1) + 1 = k
  BY <1>2
<1>7. \A i \in S : rank[i] \in 0..(n - 1) /\ rank[i] \in Int
  BY <1>2, <1>4
<1>8. \A i \in S : Rank(S, i) \in 1..n
  BY <1>2, <1>5, <1>7
<1>9. \A i, j \in S : Rank(S, i) = Rank(S, j) => i = j
  BY <1>4, <1>5, <1>7
<1>10. \A i, j \in S : i < j => Rank(S, i) < Rank(S, j)
  <2> SUFFICES ASSUME NEW i \in S, NEW j \in S, i < j PROVE Rank(S, i) < Rank(S, j)
    OBVIOUS
  <2>1. rank[i] < rank[j]
    BY <1>1, <1>4
  <2>2. Rank(S, i) = rank[i] + 1 /\ Rank(S, j) = rank[j] + 1
    BY <1>5
  <2>3. rank[i] \in Int /\ rank[j] \in Int
    BY <1>7
  <2> QED
    BY <2>1, <2>2, <2>3
<1>11. \A k \in 1..n : \E i \in S : Rank(S, i) = k
  <2> TAKE k \in 1..n
  <2>1. PICK i \in S : rank[i] = k - 1
    BY <1>4, <1>6
  <2> QED
    BY <1>5, <1>6, <2>1
<1> QED
  BY <1>2, <1>8, <1>9, <1>10, <1>11 DEF n

\* What InOrder lists are the places, each at its rank.
LEMMA InOrderIs ==
    ASSUME NEW S \in SUBSET Nat, IsFiniteSet(S)
    PROVE  /\ InOrder(S) \in [1..Cardinality(S) -> S]
           /\ \A k \in 1..Cardinality(S) : Rank(S, InOrder(S)[k]) = k
           /\ \A i \in S : InOrder(S)[Rank(S, i)] = i
<1> DEFINE n == Cardinality(S)
           pick(k) == CHOOSE i \in S : Rank(S, i) = k
<1>1. \A k \in 1..n : pick(k) \in S /\ Rank(S, pick(k)) = k
  <2> TAKE k \in 1..n
  <2>1. \E i \in S : Rank(S, i) = k
    BY RankIs
  <2> QED
    BY <2>1
<1>2. InOrder(S) = [k \in 1..n |-> pick(k)]
  BY DEF InOrder
<1> HIDE DEF n, pick
<1>3. \A k \in 1..n : InOrder(S)[k] \in S /\ Rank(S, InOrder(S)[k]) = k
  BY <1>1, <1>2
<1>4. \A i \in S : Rank(S, i) \in 1..n
  BY RankIs DEF n
<1>5. \A i \in S : InOrder(S)[Rank(S, i)] = i
  <2> SUFFICES ASSUME NEW i \in S PROVE InOrder(S)[Rank(S, i)] = i
    OBVIOUS
  <2>1. InOrder(S)[Rank(S, i)] \in S /\ Rank(S, InOrder(S)[Rank(S, i)]) = Rank(S, i)
    BY <1>3, <1>4
  <2>2. \A x, y \in S : Rank(S, x) = Rank(S, y) => x = y
    BY RankIs
  <2> QED
    BY <2>1, <2>2
<1>6. InOrder(S) \in [1..n -> S]
  BY <1>1, <1>2
<1> QED
  BY <1>3, <1>5, <1>6 DEF n

\* All places up to a number are in order.
LEMMA InOrderUpto ==
    ASSUME NEW n \in Nat
    PROVE  IsFiniteSet(1..n) /\ Cardinality(1..n) = n /\ InOrder(1..n) = [k \in 1..n |-> k]
<1>1. IsFiniteSet(1..n) /\ Cardinality(1..n) = n
  BY FS_Interval
<1>2. ASSUME NEW k \in 1..n PROVE Rank(1..n, k) = k
  <2>1. {i \in 1..n : i <= k} = 1..k
    OBVIOUS
  <2>2. Cardinality(1..k) = k
    BY FS_Interval
  <2> QED
    BY <2>1, <2>2 DEF Rank
<1>3. 1..n \in SUBSET Nat
  OBVIOUS
<1>4. \A k \in 1..n : InOrder(1..n)[k] = k
  BY <1>1, <1>2, <1>3, InOrderIs
<1>5. InOrder(1..n) \in [1..n -> 1..n]
  BY <1>1, <1>3, InOrderIs
<1> QED
  BY <1>1, <1>4, <1>5

-----------------------------------------------------------------------------
(***************************************************************************)
(* The paragraphs of a text                                                *)
(***************************************************************************)

\* Places of which a numbering is known are read off in its order.
LEMMA AtIs ==
    ASSUME NEW S \in SUBSET Nat, IsFiniteSet(S), NEW s
    PROVE  /\ DOMAIN InOrder(S) = 1..Cardinality(S)
           /\ At(s, S) = [n \in 1..Cardinality(S) |-> s[InOrder(S)[n]]]
  BY DEF At, InOrder

\* Every paragraph of a text arrives in its place.
LEMMA ParagraphsWritten ==
    ASSUME NEW n \in Nat, NEW text, text.paragraphs \in [1..n -> {"text", "codes"}],
           NEW reply \in SUBSET UnitsOfText(text)
    PROVE  LET result == WrittenParagraphs(text, reply)
               texts == {i \in DOMAIN text.paragraphs : HasText(text, i)}
               inOrder == InOrder(texts)
           IN  At(result, {k \in DOMAIN result : HasText(text, result[k].paragraph)})
                  = [k \in DOMAIN inOrder |->
                        Paragraph(inOrder[k], inOrder[k] \in reply \/ 0 \in reply)]
<1> DEFINE result == WrittenParagraphs(text, reply)
           texts == {i \in DOMAIN text.paragraphs : HasText(text, i)}
           places == {k \in DOMAIN result : HasText(text, result[k].paragraph)}
           C == Cardinality(texts)
           order == InOrder(texts)
<1>1. DOMAIN text.paragraphs = 1..n
  OBVIOUS
<1>2. texts \in SUBSET (1..n) /\ texts \in SUBSET Nat /\ IsFiniteSet(texts)
  <2>1. texts \in SUBSET (1..n) /\ IsFiniteSet(1..n)
    BY <1>1, FS_Interval
  <2> HIDE DEF texts
  <2>2. IsFiniteSet(texts)
    BY <2>1, FS_Subset
  <2> QED
    BY <2>1, <2>2
<1>3. /\ DOMAIN order = 1..C /\ order \in [1..C -> texts] /\ C \in Nat
      /\ \A s : At(s, texts) = [k \in 1..C |-> s[order[k]]]
  <2> HIDE DEF texts
  <2>1. C \in Nat
    BY <1>2, FS_CardinalityType
  <2> QED
    BY <1>2, <2>1, AtIs, InOrderIs
<1>4. CASE IsSplit(text) /\ texts # {}
  <2>1. UnitsOfText(text) = texts /\ 0 \notin reply
    BY <1>2, <1>4 DEF UnitsOfText
  <2>2. result = [k \in DOMAIN order |-> Paragraph(order[k], order[k] \in reply)]
    BY <1>4, <2>1 DEF WrittenParagraphs
  <2>3. places = 1..C
    <3>1. \A k \in 1..C : result[k].paragraph = order[k] /\ order[k] \in texts
      BY <1>3, <2>2 DEF Paragraph
    <3>2. DOMAIN result = 1..C
      BY <1>3, <2>2
    <3>3. \A i \in texts : HasText(text, i)
      OBVIOUS
    <3> HIDE DEF result, texts
    <3> QED
      BY <3>1, <3>2, <3>3
  <2>4. At(result, 1..C) = [k \in 1..C |-> result[k]]
    <3> HIDE DEF result, C
    <3>1. 1..C \in SUBSET Nat /\ IsFiniteSet(1..C) /\ Cardinality(1..C) = C
          /\ InOrder(1..C) = [k \in 1..C |-> k]
      BY <1>3, InOrderUpto
    <3>2. At(result, 1..C) = [k \in 1..C |-> result[InOrder(1..C)[k]]]
      BY <3>1 DEF At
    <3> QED
      BY <3>1, <3>2
  <2>5. \A k \in 1..C : result[k] = Paragraph(order[k], order[k] \in reply \/ 0 \in reply)
    BY <1>3, <2>1, <2>2
  <2> HIDE DEF result, texts, C, order, places
  <2>6. At(result, places) = [k \in DOMAIN order |-> Paragraph(order[k], order[k] \in reply \/ 0 \in reply)]
    BY <1>3, <2>3, <2>4, <2>5
  <2> QED
    BY <2>6 DEF result, texts, order, places
<1>5. CASE ~(IsSplit(text) /\ texts # {})
  <2>1. \A i \in texts : i \notin reply
    BY <1>1, <1>2, <1>5 DEF UnitsOfText
  <2>2. result = [i \in 1..n |-> Paragraph(i, 0 \in reply)]
    <3>1. ~(IsSplit(text) /\ UnitsOfText(text) # {})
      BY <1>5 DEF UnitsOfText
    <3> QED
      BY <1>1, <3>1 DEF WrittenParagraphs
  <2>3. places = texts
    BY <1>1, <2>2 DEF Paragraph
  <2>4. \A k \in 1..C : result[order[k]] = Paragraph(order[k], order[k] \in reply \/ 0 \in reply)
    <3>1. \A k \in 1..C : order[k] \in texts /\ order[k] \in 1..n
      BY <1>2, <1>3
    <3> HIDE DEF texts, C, order, result
    <3> QED
      BY <2>1, <2>2, <3>1
  <2> HIDE DEF result, texts, C, order, places
  <2>5. At(result, places) = [k \in DOMAIN order |-> Paragraph(order[k], order[k] \in reply \/ 0 \in reply)]
    <3>1. At(result, places) = [k \in 1..C |-> result[order[k]]]
      BY <1>3, <2>3
    <3> QED
      BY <1>3, <2>4, <3>1
  <2> QED
    BY <2>5 DEF result, texts, order, places
<1> QED
  BY <1>4, <1>5

-----------------------------------------------------------------------------
(***************************************************************************)
(* The codes of a text                                                     *)
(***************************************************************************)

\* A text without anything that reads like a placeholder has every placeholder
\* of its codes once.
LEMMA EncodedOnce ==
    ASSUME NEW n \in Nat, NEW text \in [1..n -> {Code(1), Code(2), Word}]
    PROVE  /\ Codes(text) \in SUBSET Nat /\ IsFiniteSet(Codes(text)) /\ Codes(text) \in SUBSET (1..n)
           /\ Cardinality(Codes(text)) \in 0..n
           /\ \A r \in 1..Cardinality(Codes(text)) : CountOf(Encoded(text), Placeholder(r)) = 1
<1> DEFINE S == Codes(text)
           C == Cardinality(S)
<1>1. S \in SUBSET (1..n)
  BY DEF Codes
<1>2. S \in SUBSET Nat /\ IsFiniteSet(S) /\ C \in 0..n
  <2> HIDE DEF S
  <2>1. IsFiniteSet(1..n) /\ Cardinality(1..n) = n
    BY FS_Interval
  <2>2. IsFiniteSet(S) /\ Cardinality(S) <= Cardinality(1..n)
    BY <1>1, <2>1, FS_Subset
  <2>3. Cardinality(S) \in Nat
    BY <2>2, FS_CardinalityType
  <2> QED
    BY <1>1, <2>1, <2>2, <2>3
<1>3. ASSUME NEW r \in 1..C PROVE CountOf(Encoded(text), Placeholder(r)) = 1
  <2> DEFINE x == InOrder(S)[r]
  <2>1. x \in S /\ Rank(S, x) = r /\ \A i \in S : Rank(S, i) = r => i = x
    <3> HIDE DEF S
    <3>1. x \in S /\ Rank(S, x) = r
      BY <1>2, InOrderIs
    <3>2. \A i, j \in S : Rank(S, i) = Rank(S, j) => i = j
      BY <1>2, RankIs
    <3> QED
      BY <3>1, <3>2
  <2>2. \A i \in 1..n : Encoded(text)[i] = Placeholder(r) <=> i \in S /\ Rank(S, i) = r
    <3> TAKE i \in 1..n
    <3>1. CASE i \in S
      <4>1. Encoded(text)[i] = Placeholder(Rank(S, i))
        BY <3>1 DEF Encoded
      <4>2. Placeholder(Rank(S, i)).value = Rank(S, i) /\ Placeholder(r).value = r
        BY DEF Placeholder
      <4> QED
        BY <3>1, <4>1, <4>2
    <3>2. CASE i \notin S
      <4>1. Encoded(text)[i] = text[i]
        BY <3>2 DEF Encoded
      <4>2. text[i].kind # "placeholder" /\ Placeholder(r).kind = "placeholder"
        BY DEF Code, Word, Placeholder
      <4> QED
        BY <3>2, <4>1, <4>2
    <3> QED
      BY <3>1, <3>2
  <2>3. DOMAIN Encoded(text) = 1..n
    BY DEF Encoded
  <2> HIDE DEF x
  <2>4. {i \in DOMAIN Encoded(text) : Encoded(text)[i] = Placeholder(r)} = {x}
    <3>1. x \in 1..n
      BY <1>1, <2>1
    <3> HIDE DEF S
    <3> QED
      BY <2>1, <2>2, <2>3, <3>1
  <2> QED
    BY <2>4, FS_Singleton DEF CountOf
<1> QED
  BY <1>1, <1>2, <1>3

\* A translation with every placeholder once brings every code back.
LEMMA CodesComeBack ==
    ASSUME NEW n \in Nat, NEW m \in Nat, n <= MaxNumbers + 1,
           NEW text \in [1..n -> {Code(1), Code(2), Word}],
           NEW reply \in [1..m -> Placeholders \cup {Word}],
           \A mark \in Placeholders : CountOf(reply, mark) = CountOf(Encoded(text), mark),
           NEW v \in 1..2
    PROVE  CountOf(Decoded(text, reply), Code(v)) = CountOf(text, Code(v))
<1> DEFINE S == Codes(text)
           C == Cardinality(S)
           order == InOrder(S)
           result == Decoded(text, reply)
           D == {j \in 1..n : text[j] = Code(v)}
           B == {i \in 1..m : result[i] = Code(v)}
<1>0. MaxNumbers \in Nat
  BY DocumentAssumption
<1>1. /\ S \in SUBSET Nat /\ IsFiniteSet(S) /\ S \in SUBSET (1..n) /\ C \in 0..n
      /\ \A r \in 1..C : CountOf(Encoded(text), Placeholder(r)) = 1
  BY EncodedOnce
<1>2. /\ order \in [1..C -> S] /\ DOMAIN order = 1..C
      /\ \A i \in S : order[Rank(S, i)] = i /\ Rank(S, i) \in 1..C
      /\ \A k \in 1..C : Rank(S, order[k]) = k
      /\ At(text, S) = [k \in 1..C |-> text[order[k]]]
  <2> HIDE DEF S
  <2>1. /\ InOrder(S) \in [1..Cardinality(S) -> S]
        /\ \A k \in 1..Cardinality(S) : Rank(S, InOrder(S)[k]) = k
        /\ \A i \in S : InOrder(S)[Rank(S, i)] = i
    BY <1>1, InOrderIs
  <2>2. \A i \in S : Rank(S, i) \in 1..Cardinality(S)
    BY <1>1, RankIs
  <2>3. At(text, S) = [k \in 1..Cardinality(S) |-> text[InOrder(S)[k]]]
    BY DEF At
  <2> QED
    BY <2>1, <2>2, <2>3
<1>3. ASSUME NEW r \in 1..C PROVE \E i \in 1..m : \A j \in 1..m : reply[j] = Placeholder(r) <=> j = i
  <2>1. r \in 1..(MaxNumbers + 1)
    BY <1>0, <1>1
  <2>2. Placeholder(r) \in Placeholders
    BY <2>1 DEF Placeholders
  <2> DEFINE hits == {j \in 1..m : reply[j] = Placeholder(r)}
  <2>3. Cardinality(hits) = 1
    <3>1. CountOf(reply, Placeholder(r)) = 1
      BY <1>1, <2>2
    <3>2. DOMAIN reply = 1..m
      OBVIOUS
    <3> QED
      BY <3>1, <3>2 DEF CountOf
  <2>4. IsFiniteSet(hits)
    <3>1. hits \in SUBSET (1..m) /\ IsFiniteSet(1..m)
      BY FS_Interval
    <3> HIDE DEF hits
    <3> QED
      BY <3>1, FS_Subset
  <2>5. \E i : hits = {i}
    <3> HIDE DEF hits
    <3> QED
      BY <2>3, <2>4, FS_Singleton
  <2>6. PICK i : hits = {i}
    BY <2>5
  <2>7. i \in hits /\ \A j \in hits : j = i
    BY <2>6
  <2> QED
    BY <2>7
<1>4. \A p \in Placeholders : p.kind = "placeholder" /\ p.value \in 1..(MaxNumbers + 1) /\ p = Placeholder(p.value)
  BY DEF Placeholders, Placeholder
<1>5. DOMAIN result = 1..m /\ DOMAIN text = 1..n
  BY DEF Decoded, Restored
<1>6. ASSUME NEW i \in 1..m
      PROVE  /\ reply[i] \in Placeholders /\ reply[i].value \in 1..C => result[i] = text[order[reply[i].value]]
             /\ ~(reply[i] \in Placeholders /\ reply[i].value \in 1..C) => result[i].kind # "code"
  <2>1. reply[i].kind = "placeholder" <=> reply[i] \in Placeholders
    <3>1. reply[i] \in Placeholders \cup {Word}
      OBVIOUS
    <3>2. Word.kind = "word"
      BY DEF Word
    <3> QED
      BY <1>4, <3>1, <3>2
  <2>2. result[i] = IF reply[i].kind = "placeholder" /\ reply[i].value \in 1..C
                    THEN text[order[reply[i].value]] ELSE reply[i]
    <3>1. DOMAIN At(text, S) = 1..C /\ \A k \in 1..C : At(text, S)[k] = text[order[k]]
      BY <1>2
    <3> HIDE DEF C, order
    <3> QED
      BY <3>1 DEF Decoded, Restored
  <2>3. reply[i].kind # "code"
    <3>1. reply[i] \in Placeholders \cup {Word}
      OBVIOUS
    <3>2. Word.kind = "word"
      BY DEF Word
    <3> QED
      BY <1>4, <3>1, <3>2
  <2> HIDE DEF result, C, order
  <2> QED
    BY <2>1, <2>2, <2>3
<1>7. Code(v).kind = "code"
  BY DEF Code
<1>8. D \subseteq S
  BY <1>7 DEF Codes
<1> DEFINE f == [i \in B |-> order[reply[i].value]]
<1>9. ASSUME NEW i \in B
      PROVE  reply[i] = Placeholder(reply[i].value) /\ reply[i].value \in 1..C /\ f[i] = order[reply[i].value] /\ f[i] \in D
  <2>1. i \in 1..m /\ result[i] = Code(v)
    OBVIOUS
  <2> HIDE DEF result, C, order
  <2>2. reply[i] \in Placeholders /\ reply[i].value \in 1..C /\ Code(v) = text[order[reply[i].value]]
    BY <1>6, <1>7, <2>1
  <2>3. order[reply[i].value] \in 1..n
    BY <1>1, <1>2, <2>2
  <2> QED
    BY <1>4, <2>2, <2>3
<1>10. \A i, j \in B : f[i] = f[j] => i = j
  <2> SUFFICES ASSUME NEW i \in B, NEW j \in B, f[i] = f[j] PROVE i = j
    OBVIOUS
  <2>0. i \in 1..m /\ j \in 1..m
    OBVIOUS
  <2> HIDE DEF result, C, order, B, f, S
  <2>1. reply[i].value = reply[j].value
    BY <1>2, <1>9
  <2> QED
    BY <1>3, <1>9, <2>0, <2>1
<1>11. \A j \in D : \E i \in B : f[i] = j
  <2> SUFFICES ASSUME NEW j \in D PROVE \E i \in B : f[i] = j
    OBVIOUS
  <2>1. j \in S /\ text[j] = Code(v)
    BY <1>8
  <2> DEFINE r == Rank(S, j)
  <2> HIDE DEF S
  <2>2. r \in 1..C /\ order[r] = j
    BY <1>2, <2>1
  <2> HIDE DEF r, C, order
  <2>3. PICK i \in 1..m : reply[i] = Placeholder(r)
    BY <1>3, <2>2
  <2>4. r \in 1..(MaxNumbers + 1)
    BY <1>0, <1>1, <2>2
  <2>5. Placeholder(r) \in Placeholders /\ Placeholder(r).value = r
    BY <2>4 DEF Placeholders, Placeholder
  <2> HIDE DEF result
  <2>6. result[i] = Code(v)
    BY <1>6, <2>1, <2>2, <2>3, <2>5
  <2>7. i \in B
    BY <2>6
  <2> HIDE DEF B
  <2> QED
    BY <2>2, <2>3, <2>5, <2>7
<1>12. f \in [B -> D]
  <2>1. \A i \in B : f[i] \in D
    BY <1>9
  <2>2. f = [i \in B |-> f[i]]
    OBVIOUS
  <2> HIDE DEF f
  <2> QED
    BY <2>1, <2>2
<1>13. IsFiniteSet(B)
  <2>1. B \in SUBSET (1..m) /\ IsFiniteSet(1..m)
    BY FS_Interval
  <2> HIDE DEF B
  <2> QED
    BY <2>1, FS_Subset
<1> HIDE DEF f, B, D, S, C, order
<1>14. Cardinality(D) = Cardinality(B)
  <2>1. f \in Bijection(B, D)
    BY <1>10, <1>11, <1>12 DEF Bijection, Injection, IsInjective, Surjection
  <2>2. ExistsBijection(B, D)
    BY <2>1 DEF ExistsBijection
  <2> QED
    BY <1>13, <2>2, FS_Bijection
<1>15. {i \in DOMAIN result : result[i] = Code(v)} = B /\ {i \in DOMAIN text : text[i] = Code(v)} = D
  <2> HIDE DEF result
  <2> QED
    BY <1>5 DEF B, D
<1> QED
  BY <1>14, <1>15 DEF CountOf

-----------------------------------------------------------------------------
(***************************************************************************)
(* Sums of parts, and divisions                                            *)
(***************************************************************************)

\* A set of subsets that has what it has all smaller ones of.
Grows(G, D) ==
    /\ G \in SUBSET SUBSET D /\ {} \in G
    /\ \A s \in SUBSET D : \A x \in s : s \ {x} \in G => s \in G

\* Such a set has the whole set among its members.
LEMMA SubsetsBelow ==
    ASSUME NEW D, IsFiniteSet(D), NEW G, Grows(G, D)
    PROVE  D \in G
<1> DEFINE N == {m \in Nat : \A s \in SUBSET D : Cardinality(s) = m => s \in G}
<1>1. \A s \in SUBSET D : IsFiniteSet(s) /\ Cardinality(s) \in Nat
  BY FS_Subset, FS_CardinalityType
<1>2. 0 \in N
  <2>1. \A s \in SUBSET D : Cardinality(s) = 0 => s = {}
    BY <1>1, FS_EmptySet
  <2> QED
    BY <2>1 DEF Grows
<1>3. ASSUME NEW m \in N PROVE m + 1 \in N
  <2>1. m \in Nat /\ \A s \in SUBSET D : Cardinality(s) = m => s \in G
    OBVIOUS
  <2>2. ASSUME NEW s \in SUBSET D, Cardinality(s) = m + 1 PROVE s \in G
    <3>1. s # {}
      <4>1. Cardinality({}) = 0 /\ m + 1 # 0
        BY <2>1, FS_EmptySet
      <4> QED
        BY <2>2, <4>1
    <3>2. PICK x \in s : TRUE
      BY <3>1
    <3>3. Cardinality(s \ {x}) = Cardinality(s) - 1 /\ IsFiniteSet(s)
      BY <1>1, OneLess
    <3>4. Cardinality(s \ {x}) = m /\ s \ {x} \in SUBSET D
      BY <2>1, <2>2, <3>3
    <3> QED
      BY <2>1, <3>4 DEF Grows
  <2> QED
    BY <2>1, <2>2
<1>4. N \in SUBSET Nat
  OBVIOUS
<1> HIDE DEF N
<1>5. N = Nat
  BY <1>2, <1>3, <1>4, NumbersBelow
<1>6. Cardinality(D) \in N /\ D \in SUBSET D
  BY <1>1, <1>5
<1> QED
  BY <1>6 DEF N

\* The parts of a sum are sums, too.
LEMMA SumOfParts ==
    ASSUME NEW D, IsFiniteSet(D), NEW h, Amounts(h, D), NEW f, AddsUp(f, h, D), NEW p \in SUBSET D
    PROVE  SumOver(h, p) = f[p]
<1>1. IsFiniteSet(p)
  BY FS_Subset
<1>2. PICK g : AddsUp(g, h, p)
  <2>1. Amounts(h, p)
    BY DEF Amounts
  <2> QED
    BY <1>1, <2>1, SumAddsUp
<1> DEFINE G == {s \in SUBSET p : f[s] = g[s]}
<1>3. Grows(G, p)
  <2>1. {} \in G
    BY <1>2 DEF AddsUp
  <2>2. ASSUME NEW s \in SUBSET p, NEW x \in s, s \ {x} \in G PROVE s \in G
    <3>1. f[s] = h[x] + f[s \ {x}] /\ g[s] = h[x] + g[s \ {x}]
      BY <1>2 DEF AddsUp
    <3> QED
      BY <2>2, <3>1
  <2>3. G \in SUBSET SUBSET p
    OBVIOUS
  <2> HIDE DEF G
  <2> QED
    BY <2>1, <2>2, <2>3 DEF Grows
<1>4. p \in G
  <2> HIDE DEF G
  <2> QED
    BY <1>1, <1>3, SubsetsBelow
<1> QED
  BY <1>2, <1>4 DEF AddsUp

\* A sum is one of its amounts and the sum of the others.
LEMMA SumLess ==
    ASSUME NEW D, IsFiniteSet(D), NEW h, Amounts(h, D), NEW x \in D
    PROVE  SumOver(h, D) = h[x] + SumOver(h, D \ {x})
<1>1. PICK f : AddsUp(f, h, D)
  BY SumAddsUp
<1>2. D \ {x} \in SUBSET D /\ D \in SUBSET D
  OBVIOUS
<1>3. SumOver(h, D \ {x}) = f[D \ {x}]
  BY <1>1, <1>2, SumOfParts
<1>4. f[D] = h[x] + f[D \ {x}] /\ f[D] = SumOver(h, D)
  BY <1>1, <1>2 DEF AddsUp
<1> QED
  BY <1>3, <1>4

\* A sum over no place.
LEMMA SumOfNone ==
    ASSUME NEW h PROVE SumOver(h, {}) = 0
<1>1. Amounts(h, {})
  BY DEF Amounts
<1>2. \E f : AddsUp(f, h, {})
  BY <1>1, FS_EmptySet, SumAddsUp
<1> QED
  BY <1>2 DEF AddsUp

\* What is left out of a sum where there is nothing to add.
NoneOf(h, D) == \A k \in D : h[k] = 0
LEMMA SumWithoutZeros ==
    ASSUME NEW D, IsFiniteSet(D), NEW h, Amounts(h, D), NEW p \in SUBSET D, NoneOf(h, D \ p)
    PROVE  SumOver(h, D) = SumOver(h, p)
<1>1. PICK f : AddsUp(f, h, D)
  BY SumAddsUp
<1> DEFINE G == {s \in SUBSET D : f[s] = f[s \cap p]}
<1>2. Grows(G, D)
  <2>1. {} \in G
    BY <1>1 DEF AddsUp
  <2>2. ASSUME NEW s \in SUBSET D, NEW x \in s, s \ {x} \in G PROVE s \in G
    <3>1. f[s] = h[x] + f[s \ {x}] /\ f[s \ {x}] = f[(s \ {x}) \cap p]
      BY <1>1, <2>2 DEF AddsUp
    <3>2. CASE x \in p
      <4>1. (s \cap p) \ {x} = (s \ {x}) \cap p /\ x \in s \cap p /\ s \cap p \in SUBSET D
        BY <3>2
      <4>2. f[s \cap p] = h[x] + f[(s \cap p) \ {x}]
        BY <1>1, <4>1 DEF AddsUp
      <4> QED
        BY <3>1, <4>1, <4>2
    <3>3. CASE x \notin p
      <4>1. (s \ {x}) \cap p = s \cap p /\ h[x] = 0
        BY <3>3 DEF NoneOf
      <4>2. f[s \cap p] \in Nat
        BY <1>1 DEF AddsUp
      <4> QED
        BY <3>1, <4>1, <4>2
    <3> QED
      BY <3>2, <3>3
  <2>3. G \in SUBSET SUBSET D
    OBVIOUS
  <2> HIDE DEF G
  <2> QED
    BY <2>1, <2>2, <2>3 DEF Grows
<1>3. D \in G
  <2> HIDE DEF G
  <2> QED
    BY <1>2, SubsetsBelow
<1>4. f[D] = f[D \cap p] /\ D \cap p = p
  BY <1>3
<1>5. SumOver(h, p) = f[p]
  BY <1>1, SumOfParts
<1> QED
  BY <1>1, <1>4, <1>5 DEF AddsUp

\* h is the sum of two others, or some times another.
IsSumOf(h, a, b, D) == \A k \in D : h[k] = a[k] + b[k]
IsTimes(h, c, a, D) == \A k \in D : h[k] = c * a[k]

\* A sum of sums is the sum of two sums.
LEMMA SumOfSums ==
    ASSUME NEW D, IsFiniteSet(D), NEW h, Amounts(h, D), NEW a, Amounts(a, D), NEW b, Amounts(b, D),
           IsSumOf(h, a, b, D)
    PROVE  SumOver(h, D) = SumOver(a, D) + SumOver(b, D)
<1>1. PICK f : AddsUp(f, h, D)
  BY SumAddsUp
<1>2. PICK fa : AddsUp(fa, a, D)
  BY SumAddsUp
<1>3. PICK fb : AddsUp(fb, b, D)
  BY SumAddsUp
<1> DEFINE G == {s \in SUBSET D : f[s] = fa[s] + fb[s]}
<1>4. Grows(G, D)
  <2>1. {} \in G
    BY <1>1, <1>2, <1>3 DEF AddsUp
  <2>2. ASSUME NEW s \in SUBSET D, NEW x \in s, s \ {x} \in G PROVE s \in G
    <3>1. f[s] = h[x] + f[s \ {x}] /\ fa[s] = a[x] + fa[s \ {x}] /\ fb[s] = b[x] + fb[s \ {x}]
      BY <1>1, <1>2, <1>3 DEF AddsUp
    <3>2. f[s \ {x}] = fa[s \ {x}] + fb[s \ {x}] /\ h[x] = a[x] + b[x]
      BY <2>2 DEF IsSumOf
    <3>3. a[x] \in Nat /\ b[x] \in Nat
      BY DEF Amounts
    <3>4. fa[s \ {x}] \in Nat /\ fb[s \ {x}] \in Nat
      BY <1>2, <1>3 DEF AddsUp
    <3>5. f[s] = fa[s] + fb[s]
      BY <3>1, <3>2, <3>3, <3>4
    <3> QED
      BY <3>5
  <2>3. G \in SUBSET SUBSET D
    OBVIOUS
  <2> HIDE DEF G
  <2> QED
    BY <2>1, <2>2, <2>3 DEF Grows
<1>5. D \in G
  <2> HIDE DEF G
  <2> QED
    BY <1>4, SubsetsBelow
<1> QED
  BY <1>1, <1>2, <1>3, <1>5 DEF AddsUp

\* Multiplication distributes over addition.
LEMMA Distributes ==
    ASSUME NEW c \in Int, NEW x \in Int, NEW y \in Int
    PROVE  c * (x + y) = c * x + c * y
  OBVIOUS

\* A sum of multiples is a multiple of the sum.
LEMMA SumOfTimes ==
    ASSUME NEW D, IsFiniteSet(D), NEW h, Amounts(h, D), NEW a, Amounts(a, D), NEW c \in Nat,
           IsTimes(h, c, a, D)
    PROVE  SumOver(h, D) = c * SumOver(a, D)
<1>1. PICK f : AddsUp(f, h, D)
  BY SumAddsUp
<1>2. PICK g : AddsUp(g, a, D)
  BY SumAddsUp
<1> DEFINE G == {s \in SUBSET D : f[s] = c * g[s]}
<1>3. Grows(G, D)
  <2>1. {} \in G
    BY <1>1, <1>2 DEF AddsUp
  <2>2. ASSUME NEW s \in SUBSET D, NEW x \in s, s \ {x} \in G PROVE s \in G
    <3>1. f[s] = h[x] + f[s \ {x}] /\ g[s] = a[x] + g[s \ {x}]
      BY <1>1, <1>2 DEF AddsUp
    <3>2. f[s \ {x}] = c * g[s \ {x}] /\ h[x] = c * a[x]
      BY <2>2 DEF IsTimes
    <3>3. a[x] \in Int /\ g[s \ {x}] \in Int
      <4>1. a[x] \in Nat
        BY DEF Amounts
      <4>2. g[s \ {x}] \in Nat
        BY <1>2 DEF AddsUp
      <4> QED
        BY <4>1, <4>2
    <3>4. f[s] = c * g[s]
      <4>1. c * (a[x] + g[s \ {x}]) = c * a[x] + c * g[s \ {x}]
        BY <3>3, Distributes
      <4> QED
        BY <3>1, <3>2, <4>1
    <3> QED
      BY <3>4
  <2>3. G \in SUBSET SUBSET D
    OBVIOUS
  <2> HIDE DEF G
  <2> QED
    BY <2>1, <2>2, <2>3 DEF Grows
<1>4. D \in G
  <2> HIDE DEF G
  <2> QED
    BY <1>3, SubsetsBelow
<1> QED
  BY <1>1, <1>2, <1>4 DEF AddsUp

\* Numbers below a bound have a sum below as many times the bound.
LEMMA SumBelow ==
    ASSUME NEW D, IsFiniteSet(D), D # {}, NEW h, Amounts(h, D), NEW c \in Nat, \A k \in D : h[k] < c
    PROVE  SumOver(h, D) < c * Cardinality(D)
<1>1. PICK f : AddsUp(f, h, D)
  BY SumAddsUp
<1>2. \A s \in SUBSET D : IsFiniteSet(s) /\ Cardinality(s) \in Nat
  BY FS_Subset, FS_CardinalityType
<1> DEFINE G == {s \in SUBSET D : f[s] <= c * Cardinality(s) /\ (s # {} => f[s] < c * Cardinality(s))}
<1>3. Grows(G, D)
  <2>1. {} \in G
    <3>1. Cardinality({}) = 0 /\ f[{}] = 0
      BY <1>1, FS_EmptySet DEF AddsUp
    <3> QED
      BY <3>1
  <2>2. ASSUME NEW s \in SUBSET D, NEW x \in s, s \ {x} \in G PROVE s \in G
    <3> DEFINE m == Cardinality(s \ {x})
               r == f[s \ {x}]
    <3>1. f[s] = h[x] + r
      BY <1>1 DEF AddsUp
    <3>2. Cardinality(s) = m + 1 /\ m \in Nat
      <4>1. Cardinality(s \ {x}) = Cardinality(s) - 1 /\ Cardinality(s) \in Nat /\ m \in Nat
        BY <1>2, OneLess
      <4> QED
        BY <4>1
    <3>3. r <= c * m
      BY <2>2
    <3>4. h[x] < c /\ h[x] \in Nat
      BY DEF Amounts
    <3>5. r \in Nat
      BY <1>1 DEF AddsUp
    <3> HIDE DEF m, r
    <3>6. c * (m + 1) = c * m + c
      BY <3>2, Distributes
    <3>7. c * m \in Int
      BY <3>2
    <3>8. f[s] < c * Cardinality(s) /\ f[s] <= c * Cardinality(s)
      BY <3>1, <3>2, <3>3, <3>4, <3>5, <3>6, <3>7
    <3> QED
      BY <3>8
  <2>3. G \in SUBSET SUBSET D
    OBVIOUS
  <2> HIDE DEF G
  <2> QED
    BY <2>1, <2>2, <2>3 DEF Grows
<1>4. D \in G
  <2> HIDE DEF G
  <2> QED
    BY <1>3, SubsetsBelow
<1> QED
  BY <1>1, <1>4 DEF AddsUp

\* A sum of ones counts them.
LEMMA SumOfOnes ==
    ASSUME NEW D, IsFiniteSet(D), NEW p \in SUBSET D, NEW h, \A k \in D : h[k] = IF k \in p THEN 1 ELSE 0
    PROVE  SumOver(h, D) = Cardinality(p)
<1>0. Amounts(h, D)
  BY DEF Amounts
<1>1. PICK f : AddsUp(f, h, D)
  BY <1>0, SumAddsUp
<1>2. \A s \in SUBSET D : IsFiniteSet(s) /\ Cardinality(s) \in Nat
  BY FS_Subset, FS_CardinalityType
<1> DEFINE G == {s \in SUBSET D : f[s] = Cardinality(s \cap p)}
<1>3. Grows(G, D)
  <2>1. {} \in G
    <3>1. Cardinality({}) = 0 /\ f[{}] = 0 /\ {} \cap p = {}
      BY <1>1, FS_EmptySet DEF AddsUp
    <3> QED
      BY <3>1
  <2>2. ASSUME NEW s \in SUBSET D, NEW x \in s, s \ {x} \in G PROVE s \in G
    <3>1. f[s] = h[x] + f[s \ {x}] /\ f[s \ {x}] = Cardinality((s \ {x}) \cap p)
      BY <1>1, <2>2 DEF AddsUp
    <3>2. CASE x \in p
      <4> DEFINE q == s \cap p
      <4>1. q \ {x} = (s \ {x}) \cap p /\ x \in q /\ q \in SUBSET D
        BY <3>2
      <4> HIDE DEF q
      <4>2. Cardinality(q \ {x}) = Cardinality(q) - 1 /\ Cardinality(q) \in Nat
        BY <1>2, <4>1, OneLess
      <4>3. h[x] = 1
        BY <3>2
      <4>4. f[s] = Cardinality(q)
        BY <3>1, <4>1, <4>2, <4>3
      <4> QED
        BY <4>4 DEF q
    <3>3. CASE x \notin p
      <4>1. (s \ {x}) \cap p = s \cap p /\ h[x] = 0 /\ s \cap p \in SUBSET D
        BY <3>3
      <4>2. Cardinality(s \cap p) \in Nat
        BY <1>2, <4>1
      <4> QED
        BY <3>1, <4>1, <4>2
    <3> QED
      BY <3>2, <3>3
  <2>3. G \in SUBSET SUBSET D
    OBVIOUS
  <2> HIDE DEF G
  <2> QED
    BY <2>1, <2>2, <2>3 DEF Grows
<1>4. D \in G
  <2> HIDE DEF G
  <2> QED
    BY <1>3, SubsetsBelow
<1>5. D \cap p = p /\ f[D] = Cardinality(D \cap p)
  BY <1>4
<1> QED
  BY <1>1, <1>5 DEF AddsUp

\* Division by a number.
LEMMA QuotientIs ==
    ASSUME NEW a \in Nat, NEW c \in Nat, c > 0
    PROVE  a \div c \in Nat /\ a % c \in Nat /\ a % c < c /\ a = c * (a \div c) + (a % c)
  OBVIOUS

\* A multiple that is less than another comes of less.
LEMMA TimesLess ==
    ASSUME NEW c \in Nat, c > 0, NEW x \in Int, NEW y \in Int
    PROVE  (c * x < c * y => x < y) /\ (0 <= c * x => 0 <= x)
<1>1. ASSUME y <= x PROVE c * y <= c * x
  <2>1. x - y \in Nat /\ x = y + (x - y)
    BY <1>1
  <2> DEFINE d == x - y
  <2>2. d \in Nat /\ x = y + d
    BY <2>1
  <2> HIDE DEF d
  <2>3. c * (y + d) = c * y + c * d
    BY <2>2, Distributes
  <2>4. c * d \in Nat /\ c * y \in Int
    BY <2>2
  <2> QED
    BY <2>2, <2>3, <2>4
<1>2. ASSUME x < 0 PROVE c * x < 0
  BY <1>2
<1>3. c * x \in Int /\ c * y \in Int
  OBVIOUS
<1> QED
  BY <1>1, <1>2, <1>3

-----------------------------------------------------------------------------
(***************************************************************************)
(* The words of a segment                                                  *)
(***************************************************************************)

\* The positions with text are some of a segment's, and there is an end to them.
LEMMA ContentIs ==
    ASSUME NEW n \in Nat, NEW positions \in [1..n -> Positions]
    PROVE  /\ Content(positions) \in SUBSET (1..n) /\ IsFiniteSet(Content(positions))
           /\ \A i \in 1..n : /\ TextLength(positions[i]) \in Nat /\ positions[i].size \in Nat
                              /\ i \in Content(positions) => TextLength(positions[i]) > 0
                              /\ positions[i].tail \in BOOLEAN /\ positions[i].before \in BOOLEAN
                              /\ positions[i].after \in BOOLEAN
                              /\ i \notin Content(positions) => positions[i].size = 0
                              /\ i \in Content(positions) => positions[i].size # 0
<1>0. MaxSize \in Nat
  BY DocumentAssumption
<1>1. Content(positions) \in SUBSET (1..n)
  BY DEF Content
<1>2. IsFiniteSet(Content(positions))
  BY <1>1, FS_Interval, FS_Subset
<1>3. ASSUME NEW i \in 1..n
      PROVE  /\ positions[i].size \in Nat /\ positions[i].tail \in BOOLEAN
             /\ positions[i].before \in BOOLEAN /\ positions[i].after \in BOOLEAN
  <2>1. positions[i] \in Positions
    OBVIOUS
  <2>2. CASE positions[i] \in {Space(tail) : tail \in BOOLEAN}
    <3>1. PICK tail \in BOOLEAN : positions[i] = Space(tail)
      BY <2>2
    <3>2. /\ Space(tail).size = 0 /\ Space(tail).tail = tail
          /\ Space(tail).before = TRUE /\ Space(tail).after = TRUE
      BY DEF Space
    <3>3. positions[i].size = 0 /\ positions[i].before = TRUE /\ positions[i].after = TRUE
      BY <3>1, <3>2
    <3>4. positions[i].tail = tail
      BY <3>1, <3>2
    <3>5. positions[i].tail \in BOOLEAN
      BY <3>4
    <3>6. positions[i].before \in BOOLEAN /\ positions[i].after \in BOOLEAN
      BY <3>3
    <3> QED
      BY <3>3, <3>5, <3>6
  <2>3. CASE positions[i] \in [tail : BOOLEAN, size : 1..MaxSize, before : BOOLEAN, after : BOOLEAN]
    BY <1>0, <2>3
  <2> QED
    BY <2>1, <2>2, <2>3 DEF Positions
<1>4. \A i \in 1..n : i \in Content(positions) <=> positions[i].size > 0
  BY DEF Content
<1> QED
  BY <1>1, <1>2, <1>3, <1>4 DEF TextLength

\* What is left of the words after the whole shares is less than there are
\* positions with text, and the largest fractions take one word each.
LEMMA WordsAreShared ==
    ASSUME NEW n \in Nat, NEW positions \in [1..n -> Positions], Content(positions) # {},
           NEW words \in Nat
    PROVE  /\ WordCount(positions, words) \in [1..n -> Nat]
           /\ SumOver(WordCount(positions, words), 1..n) = words
           /\ \A i \in 1..n : i \notin Content(positions) => WordCount(positions, words)[i] = 0
<1> DEFINE K == Content(positions)
           lengths == [i \in K |-> TextLength(positions[i])]
           total == TotalLength(positions)
           all == [i \in K |-> TextLength(positions[i]) * words]
           whole == [i \in K |-> WholeShare(positions, i, words, total)]
           times == [i \in K |-> total * whole[i]]
           fraction == [i \in K |-> Fraction(positions, i, words, total)]
           left == words - SumOver(whole, K)
           Rel == {p \in K \X K : fraction[p[1]] > fraction[p[2]] \/ (fraction[p[1]] = fraction[p[2]] /\ p[1] < p[2])}
           rank == [i \in K |-> Cardinality(Preceding(K, Rel, i))]
           chosen == {i \in K : rank[i] < left}
           one == [i \in K |-> IF i \in chosen THEN 1 ELSE 0]
           counts == WordCount(positions, words)
<1>1. /\ K \in SUBSET (1..n) /\ IsFiniteSet(K)
      /\ \A i \in K : TextLength(positions[i]) \in Nat /\ TextLength(positions[i]) > 0
  BY ContentIs
<1>2. Amounts(lengths, K) /\ total = SumOver(lengths, K)
  BY <1>1 DEF Amounts, TotalLength
<1>3. total \in Nat /\ total > 0
  <2>1. total \in Nat /\ \A i \in K : lengths[i] <= total
    <3> HIDE DEF K, lengths
    <3> QED
      BY <1>1, <1>2, SumIsNat
  <2>2. PICK i \in K : TRUE
    OBVIOUS
  <2>3. lengths[i] > 0 /\ lengths[i] \in Nat /\ lengths[i] <= total
    BY <1>1, <2>1, <2>2
  <2> HIDE DEF lengths, total
  <2> QED
    BY <2>1, <2>3
<1> HIDE DEF K, total
<1>4. ASSUME NEW i \in K
      PROVE  /\ all[i] \in Nat /\ whole[i] \in Nat /\ fraction[i] \in Nat /\ fraction[i] < total
             /\ times[i] \in Nat /\ all[i] = times[i] + fraction[i] /\ all[i] = words * lengths[i]
  <2>1. TextLength(positions[i]) \in Nat
    BY <1>1
  <2> DEFINE a == TextLength(positions[i]) * words
  <2>2. a \in Nat
    BY <2>1
  <2>3. /\ all[i] = a /\ whole[i] = a \div total /\ fraction[i] = a % total
        /\ times[i] = total * (a \div total) /\ lengths[i] = TextLength(positions[i])
    BY DEF WholeShare, Fraction
  <2>4. a = words * lengths[i]
    BY <2>1, <2>3
  <2> HIDE DEF a, all, whole, fraction, times, lengths
  <2>5. a \div total \in Nat /\ a % total \in Nat /\ a % total < total /\ a = total * (a \div total) + (a % total)
    BY <1>3, <2>2, QuotientIs
  <2>6. total * (a \div total) \in Nat
    <3> DEFINE q == a \div total
    <3>1. q \in Nat
      BY <2>5
    <3> HIDE DEF q
    <3>2. total * q \in Nat
      BY <1>3, <3>1
    <3> QED
      BY <3>2 DEF q
  <2> QED
    BY <2>2, <2>3, <2>4, <2>5, <2>6
<1>5. DOMAIN all = K
  OBVIOUS
<1>6. /\ Amounts(all, K) /\ Amounts(whole, K) /\ Amounts(fraction, K) /\ Amounts(times, K)
      /\ IsSumOf(all, times, fraction, K) /\ IsTimes(all, words, lengths, K) /\ IsTimes(times, total, whole, K)
  <2>1. IsTimes(times, total, whole, K)
    <3> HIDE DEF whole
    <3> QED
      BY DEF IsTimes
  <2> HIDE DEF all, whole, fraction, times, lengths
  <2> QED
    BY <1>4, <2>1 DEF Amounts, IsSumOf, IsTimes
<1> HIDE DEF all, whole, times, lengths, fraction
<1>7. SumOver(all, K) = words * total /\ SumOver(all, K) = SumOver(times, K) + SumOver(fraction, K)
      /\ SumOver(times, K) = total * SumOver(whole, K)
  <2>1. SumOver(all, K) = words * SumOver(lengths, K)
    BY <1>1, <1>2, <1>6, SumOfTimes
  <2>2. SumOver(all, K) = SumOver(times, K) + SumOver(fraction, K)
    BY <1>1, <1>6, SumOfSums
  <2>3. SumOver(times, K) = total * SumOver(whole, K)
    BY <1>1, <1>3, <1>6, SumOfTimes
  <2> QED
    BY <1>2, <2>1, <2>2, <2>3
<1>8. SumOver(whole, K) \in Nat /\ SumOver(fraction, K) \in Nat /\ SumOver(fraction, K) < total * Cardinality(K)
  <2>1. SumOver(whole, K) \in Nat /\ SumOver(fraction, K) \in Nat
    BY <1>1, <1>6, SumIsNat
  <2>2. \A i \in K : fraction[i] < total
    BY <1>4
  <2>3. SumOver(fraction, K) < total * Cardinality(K)
    BY <1>1, <1>3, <1>6, <2>2, SumBelow DEF K
  <2> QED
    BY <2>1, <2>3
<1>9. Cardinality(K) \in Nat
  BY <1>1, FS_CardinalityType
<1>10. left \in Nat /\ left < Cardinality(K)
  <2> DEFINE q == SumOver(whole, K)
             r == SumOver(fraction, K)
             c == Cardinality(K)
  <2>1. q \in Nat /\ r \in Nat /\ c \in Nat /\ r < total * c /\ words * total = total * q + r
    BY <1>7, <1>8, <1>9
  <2>2. left = words - q
    OBVIOUS
  <2> HIDE DEF q, r, c, left
  <2>3. left \in Int /\ words = q + left
    BY <2>1, <2>2
  <2>4. total * (q + left) = total * q + total * left
    BY <1>3, <2>1, <2>3, Distributes
  <2>5. words * total = total * (q + left)
    BY <1>3, <2>3
  <2>6. total * left \in Int /\ total * q \in Int
    BY <1>3, <2>1, <2>3
  <2>7. total * left = r
    BY <2>1, <2>4, <2>5, <2>6
  <2>8. 0 <= left /\ left < c
    BY <1>3, <2>1, <2>3, <2>7, TimesLess
  <2> QED
    BY <2>3, <2>8 DEF c
<1>11. \A x, y \in K : <<x, y>> \in Rel <=>
           fraction[x] > fraction[y] \/ (fraction[x] = fraction[y] /\ x < y)
  OBVIOUS
<1>12. ASSUME NEW i \in K PROVE Preceding(K, Rel, i) = Preferred(positions, i, words, total)
  <2>1. \A k \in K : k \in Preferred(positions, i, words, total) <=> <<k, i>> \in Rel
    BY <1>11 DEF Preferred, K, fraction
  <2>2. Preferred(positions, i, words, total) \subseteq K
    BY DEF Preferred, K
  <2> HIDE DEF Rel
  <2> QED
    BY <2>1, <2>2 DEF Preceding
<1> HIDE DEF Rel
<1>13. Ordered(K, Rel)
  <2>1. \A x \in K : fraction[x] \in Nat /\ x \in Nat
    BY <1>1, <1>4
  <2>2. \A x \in K : <<x, x>> \notin Rel
    BY <1>11, <2>1
  <2>3. \A x, y \in K : x # y => <<x, y>> \in Rel \/ <<y, x>> \in Rel
    BY <1>11, <2>1
  <2>4. \A x, y, z \in K : <<x, y>> \in Rel /\ <<y, z>> \in Rel => <<x, z>> \in Rel
    BY <1>11, <2>1
  <2> QED
    BY <2>2, <2>3, <2>4 DEF Ordered
<1>14. /\ rank \in [K -> 0..(Cardinality(K) - 1)]
       /\ \A x, y \in K : rank[x] = rank[y] => x = y
       /\ \A k \in 0..(Cardinality(K) - 1) : \E x \in K : rank[x] = k
  <2>1. IsFiniteSet(K)
    BY <1>1
  <2> QED
    BY <1>13, <2>1, RanksAre
<1>15. \A i \in K : rank[i] = Cardinality(Preferred(positions, i, words, total))
  BY <1>12
<1> HIDE DEF rank, left
<1>16. Cardinality(chosen) = left /\ chosen \in SUBSET K /\ IsFiniteSet(chosen)
  <2>1. chosen \in SUBSET K
    OBVIOUS
  <2>2. IsFiniteSet(chosen)
    <3> HIDE DEF chosen
    <3> QED
      BY <1>1, <2>1, FS_Subset
  <2> DEFINE g == [i \in chosen |-> rank[i]]
             T == 0..(left - 1)
  <2>3. \A i \in chosen : g[i] \in T /\ i \in K /\ g[i] = rank[i]
    BY <1>10, <1>14
  <2>4. \A k \in T : \E i \in chosen : g[i] = k
    <3> TAKE k \in T
    <3>1. k \in 0..(Cardinality(K) - 1) /\ k < left
      BY <1>9, <1>10
    <3>2. PICK i \in K : rank[i] = k
      BY <1>14, <3>1
    <3> QED
      BY <3>1, <3>2
  <2>5. g = [i \in chosen |-> g[i]]
    OBVIOUS
  <2>6. IsFiniteSet(T) /\ Cardinality(T) = left
    <3>1. 0 \in Int /\ left - 1 \in Int /\ (0 > left - 1 => left = 0) /\ left - 1 - 0 + 1 = left
      BY <1>10
    <3>2. IsFiniteSet(T) /\ Cardinality(T) = IF 0 > left - 1 THEN 0 ELSE left - 1 - 0 + 1
      BY <3>1, FS_Interval
    <3> QED
      BY <3>1, <3>2
  <2> HIDE DEF g, T, chosen
  <2>7. g \in [chosen -> T]
    BY <2>3, <2>5
  <2>8. \A i, j \in chosen : g[i] = g[j] => i = j
    BY <1>14, <2>3
  <2>9. g \in Bijection(chosen, T)
    BY <2>4, <2>7, <2>8 DEF Bijection, Injection, IsInjective, Surjection
  <2>10. ExistsBijection(chosen, T)
    BY <2>9 DEF ExistsBijection
  <2>11. Cardinality(T) = Cardinality(chosen)
    BY <2>2, <2>10, FS_Bijection
  <2> QED
    BY <2>1, <2>2, <2>6, <2>11
<1>17. \A i \in K : i \in chosen <=> Cardinality(Preferred(positions, i, words, total)) < left
  BY <1>15
<1> HIDE DEF chosen
<1>18. \A i \in 1..n : counts[i] = IF i \notin K THEN 0 ELSE whole[i] + one[i]
  <2> TAKE i \in 1..n
  <2>1. counts[i] = IF i \notin K THEN 0
                    ELSE whole[i] + (IF Cardinality(Preferred(positions, i, words, total)) < left THEN 1 ELSE 0)
    BY DEF WordCount, K, total, left, whole
  <2> HIDE DEF counts
  <2> QED
    BY <1>17, <2>1
<1>19. DOMAIN counts = 1..n /\ counts = [i \in 1..n |-> counts[i]]
  BY DEF WordCount
<1>20. \A i \in K : one[i] = IF i \in chosen THEN 1 ELSE 0
  OBVIOUS
<1> HIDE DEF one, counts
<1>21. Amounts(one, K) /\ SumOver(one, K) = left
  <2>1. SumOver(one, K) = left
    BY <1>1, <1>16, <1>20, SumOfOnes
  <2> QED
    BY <1>20, <2>1 DEF Amounts
<1>22. /\ \A i \in 1..n : counts[i] \in Nat /\ (i \notin K => counts[i] = 0)
       /\ Amounts(counts, K) /\ Amounts(counts, 1..n) /\ IsSumOf(counts, whole, one, K)
  <2>1. \A i \in K : counts[i] = whole[i] + one[i] /\ whole[i] \in Nat /\ one[i] \in Nat
    BY <1>1, <1>6, <1>18, <1>21 DEF Amounts
  <2>2. \A i \in 1..n : counts[i] \in Nat /\ (i \notin K => counts[i] = 0)
    BY <1>18, <2>1
  <2> QED
    BY <1>1, <2>1, <2>2 DEF Amounts, IsSumOf
<1>23. SumOver(counts, K) = SumOver(whole, K) + SumOver(one, K)
  BY <1>1, <1>6, <1>21, <1>22, SumOfSums
<1>24. SumOver(counts, 1..n) = SumOver(counts, K)
  <2>1. IsFiniteSet(1..n)
    BY FS_Interval
  <2>2. NoneOf(counts, (1..n) \ K)
    BY <1>22 DEF NoneOf
  <2> QED
    <3> DEFINE D == 1..n
    <3>1. IsFiniteSet(D) /\ Amounts(counts, D) /\ K \in SUBSET D /\ NoneOf(counts, D \ K)
      BY <1>1, <1>22, <2>1, <2>2
    <3> HIDE DEF D
    <3>2. SumOver(counts, D) = SumOver(counts, K)
      BY <3>1, SumWithoutZeros
    <3> QED
      BY <3>2 DEF D
<1>25. SumOver(counts, 1..n) = words
  BY <1>8, <1>21, <1>23, <1>24 DEF left
<1>26. counts \in [1..n -> Nat]
  BY <1>19, <1>22
<1> QED
  BY <1>22, <1>25, <1>26 DEF counts, K

\* A part of a sum does not exceed it.
LEMMA PartOfSum ==
    ASSUME NEW D, IsFiniteSet(D), NEW h, Amounts(h, D), NEW p \in SUBSET D
    PROVE  SumOver(h, p) \in Nat /\ SumOver(h, p) <= SumOver(h, D)
<1>1. PICK f : AddsUp(f, h, D)
  BY SumAddsUp
<1>2. \A s \in SUBSET D : f[s] \in Nat /\ \A x \in s : f[s] = h[x] + f[s \ {x}]
  BY <1>1 DEF AddsUp
<1> DEFINE G == {s \in SUBSET D : f[s \cap p] <= f[s]}
<1>3. Grows(G, D)
  <2>1. {} \in G
    <3>1. {} \cap p = {} /\ f[{}] \in Nat
      BY <1>2
    <3> QED
      BY <3>1
  <2>2. ASSUME NEW s \in SUBSET D, NEW x \in s, s \ {x} \in G PROVE s \in G
    <3>1. f[s] = h[x] + f[s \ {x}] /\ f[(s \ {x}) \cap p] <= f[s \ {x}]
      BY <1>2, <2>2
    <3>2. f[s \ {x}] \in Nat /\ f[(s \ {x}) \cap p] \in Nat /\ h[x] \in Nat
      BY <1>2 DEF Amounts
    <3>3. CASE x \in p
      <4>1. (s \cap p) \ {x} = (s \ {x}) \cap p /\ x \in s \cap p /\ s \cap p \in SUBSET D
        BY <3>3
      <4>2. f[s \cap p] = h[x] + f[(s \ {x}) \cap p]
        BY <1>2, <4>1
      <4>3. f[s \cap p] <= f[s]
        <5> DEFINE a == f[s \ {x}]
                   b == f[(s \ {x}) \cap p]
                   c == h[x]
        <5>1. a \in Nat /\ b \in Nat /\ c \in Nat /\ b <= a /\ f[s] = c + a /\ f[s \cap p] = c + b
          BY <3>1, <3>2, <4>2
        <5> HIDE DEF a, b, c
        <5> QED
          BY <5>1
      <4> QED
        BY <4>3
    <3>4. CASE x \notin p
      <4>1. (s \ {x}) \cap p = s \cap p
        BY <3>4
      <4>2. f[s \cap p] <= f[s]
        <5> DEFINE a == f[s \ {x}]
                   b == f[(s \ {x}) \cap p]
                   c == h[x]
        <5>1. a \in Nat /\ b \in Nat /\ c \in Nat /\ b <= a /\ f[s] = c + a
          BY <3>1, <3>2
        <5>2. f[s \cap p] = b
          BY <4>1
        <5> HIDE DEF a, b, c
        <5> QED
          BY <5>1, <5>2
      <4> QED
        BY <4>2
    <3> QED
      BY <3>3, <3>4
  <2>3. G \in SUBSET SUBSET D
    OBVIOUS
  <2> HIDE DEF G
  <2> QED
    BY <2>1, <2>2, <2>3 DEF Grows
<1>4. D \in G
  <2> HIDE DEF G
  <2> QED
    BY <1>3, SubsetsBelow
<1>5. f[D \cap p] <= f[D] /\ D \cap p = p
  BY <1>4
<1>6. SumOver(h, p) = f[p]
  BY <1>1, SumOfParts
<1>7. SumOver(h, D) = f[D]
  BY <1>1 DEF AddsUp
<1> QED
  BY <1>2, <1>5, <1>6, <1>7

\* The words before a position and its own are those before the next.
LEMMA CountsGoOn ==
    ASSUME NEW n \in Nat, NEW counts \in [1..n -> Nat]
    PROVE  /\ SumOver(counts, 1..0) = 0
           /\ \A i \in 1..n : /\ SumOver(counts, 1..i) \in Nat
                              /\ SumOver(counts, 1..i) = SumOver(counts, 1..(i - 1)) + counts[i]
                              /\ SumOver(counts, 1..(i - 1)) \in Nat
                              /\ SumOver(counts, 1..i) <= SumOver(counts, 1..n)
<1>1. SumOver(counts, 1..0) = 0
  <2>1. 1..0 = {}
    OBVIOUS
  <2> QED
    BY <2>1, SumOfNone
<1>2. ASSUME NEW i \in 1..n
      PROVE  /\ SumOver(counts, 1..i) \in Nat
             /\ SumOver(counts, 1..i) = SumOver(counts, 1..(i - 1)) + counts[i]
             /\ SumOver(counts, 1..(i - 1)) \in Nat
             /\ SumOver(counts, 1..i) <= SumOver(counts, 1..n)
  <2> DEFINE D == 1..n
             p == 1..i
             q == 1..(i - 1)
  <2>1. IsFiniteSet(D) /\ IsFiniteSet(p) /\ Amounts(counts, D) /\ Amounts(counts, p)
    BY FS_Interval DEF Amounts
  <2>2. p \in SUBSET D /\ q \in SUBSET D /\ p \ {i} = q /\ i \in p
    OBVIOUS
  <2>3. counts[i] \in Nat
    OBVIOUS
  <2> HIDE DEF D, p, q
  <2>4. SumOver(counts, p) \in Nat /\ SumOver(counts, p) <= SumOver(counts, D)
    BY <2>1, <2>2, PartOfSum
  <2>5. SumOver(counts, q) \in Nat
    BY <2>1, <2>2, PartOfSum
  <2>6. SumOver(counts, p) = counts[i] + SumOver(counts, p \ {i})
    BY <2>1, <2>2, SumLess
  <2>7. SumOver(counts, p) = SumOver(counts, q) + counts[i]
    <3>1. SumOver(counts, p) = counts[i] + SumOver(counts, q)
      BY <2>2, <2>6
    <3> QED
      BY <2>3, <2>5, <3>1
  <2> QED
    BY <2>4, <2>5, <2>7 DEF D, p, q
<1> QED
  BY <1>1, <1>2

PiecesOf(pieces, n, counts, words) ==
    pieces = [i \in 1..n |-> Slice(Upto(words), CountBefore(counts, i), counts[i])]

\* Every word of the translation of a segment with text lands in one position.
LEMMA WordsArrive ==
    ASSUME NEW n \in Nat, NEW counts \in [1..n -> Nat], NEW words \in Nat,
           SumOver(counts, 1..n) = words, NEW pieces, PiecesOf(pieces, n, counts, words)
    PROVE  FlattenSeq(pieces) = Upto(words)
<1> DEFINE before == [m \in 0..n |-> SumOver(counts, 1..m)]
           text == [m \in 0..n |-> Upto(before[m])]
<1>0. pieces = [i \in 1..n |-> Slice(Upto(words), CountBefore(counts, i), counts[i])]
  BY DEF PiecesOf
<1>1. \A i \in 1..n : /\ i - 1 \in 0..n /\ i \in 0..n /\ before[i] \in Nat /\ before[i - 1] \in Nat
                      /\ before[i] = before[i - 1] + counts[i] /\ before[i] <= words
                      /\ CountBefore(counts, i) = before[i - 1]
  <2> TAKE i \in 1..n
  <2>1. i - 1 \in 0..n /\ i \in 0..n
    OBVIOUS
  <2>2. before[i] = SumOver(counts, 1..i) /\ before[i - 1] = SumOver(counts, 1..(i - 1))
    BY <2>1
  <2>3. /\ SumOver(counts, 1..i) \in Nat /\ SumOver(counts, 1..(i - 1)) \in Nat
        /\ SumOver(counts, 1..i) = SumOver(counts, 1..(i - 1)) + counts[i]
        /\ SumOver(counts, 1..i) <= words
    BY CountsGoOn
  <2>4. CountBefore(counts, i) = SumOver(counts, 1..(i - 1))
    BY DEF CountBefore
  <2> HIDE DEF before
  <2> QED
    BY <2>1, <2>2, <2>3, <2>4
<1>2. before[0] = 0 /\ before[n] = words
  <2>1. 0 \in 0..n /\ n \in 0..n
    OBVIOUS
  <2>2. before[0] = SumOver(counts, 1..0) /\ before[n] = SumOver(counts, 1..n)
    BY <2>1
  <2> QED
    BY <2>2, CountsGoOn
<1> HIDE DEF before
<1>3. ASSUME NEW i \in 1..n
      PROVE  pieces[i] \in Seq(Nat) /\ text[i] = text[i - 1] \o pieces[i] /\ text[i] \in Seq(Nat)
  <2> DEFINE a == before[i - 1]
             b == counts[i]
  <2>1. a \in Nat /\ b \in Nat /\ a + b <= words /\ before[i] = a + b
    BY <1>1
  <2>2. pieces[i] = Slice(Upto(words), a, b)
    BY <1>0, <1>1
  <2>3. text[i] = Upto(before[i]) /\ text[i - 1] = Upto(a)
    BY <1>1
  <2> HIDE DEF a, b, text
  <2>4. Slice(Upto(words), a, b) \in Seq(Nat) /\ Upto(a) \o Slice(Upto(words), a, b) = Upto(a + b)
    BY <2>1, SliceGoesOn
  <2>5. Upto(a + b) \in Seq(Nat)
    BY <2>1 DEF Upto
  <2> QED
    BY <2>1, <2>2, <2>3, <2>4, <2>5
<1>4. text[0] = <<>> /\ text[n] = Upto(words)
  <2>1. Upto(0) = <<>>
    BY DEF Upto
  <2>2. 0 \in 0..n /\ n \in 0..n
    OBVIOUS
  <2>3. text[0] = Upto(before[0]) /\ text[n] = Upto(before[n])
    BY <2>2
  <2> QED
    BY <1>2, <2>1, <2>3
<1>5. text \in [0..n -> Seq(Nat)]
  <2>2. text = [m \in 0..n |-> text[m]]
    OBVIOUS
  <2> HIDE DEF text
  <2>1. \A m \in 0..n : text[m] \in Seq(Nat)
    <3> TAKE m \in 0..n
    <3>1. CASE m = 0
      <4>1. <<>> \in Seq(Nat)
        OBVIOUS
      <4> QED
        BY <1>4, <3>1, <4>1
    <3>2. CASE m # 0
      <4>1. m \in 1..n
        BY <3>2
      <4> QED
        BY <1>3, <4>1
    <3> QED
      BY <3>1, <3>2
  <2> QED
    BY <2>1, <2>2
<1>6. pieces \in Seq(Seq(Nat)) /\ Len(pieces) = n
  <2>1. \A i \in 1..n : pieces[i] \in Seq(Nat)
    BY <1>3
  <2>2. pieces = [i \in 1..n |-> pieces[i]]
    BY <1>0
  <2>3. pieces \in [1..n -> Seq(Nat)]
    BY <2>1, <2>2
  <2> QED
    BY <2>3
<1> HIDE DEF text
<1>7. \A i \in 1..Len(pieces) : text[i] = text[i - 1] \o pieces[i]
  BY <1>3, <1>6
<1>8. FlattenSeq(pieces) = text[Len(pieces)]
  BY <1>4, <1>5, <1>6, <1>7, FlattenIs
<1> QED
  BY <1>4, <1>6, <1>8

\* A segment without text gets its translation in front of it.
LEMMA WordsInFront ==
    ASSUME NEW n \in Nat, NEW pieces, NEW words \in Nat,
           pieces = [i \in 1..(n + 1) |-> IF i = 1 THEN Upto(words) ELSE <<>>]
    PROVE  FlattenSeq(pieces) = Upto(words)
<1> DEFINE all == Upto(words)
           text == [m \in 0..(n + 1) |-> IF m = 0 THEN <<>> ELSE all]
<1>1. all \in Seq(Nat) /\ <<>> \in Seq(Nat)
  BY DEF Upto
<1> HIDE DEF all
<1>2. all \o <<>> = all /\ <<>> \o all = all
  BY <1>1
<1>3. pieces \in Seq(Seq(Nat)) /\ Len(pieces) = n + 1
  <2>1. pieces \in [1..(n + 1) -> Seq(Nat)]
    BY <1>1 DEF all
  <2> QED
    BY <2>1
<1>4. text \in [0..(n + 1) -> Seq(Nat)] /\ text[0] = <<>> /\ text[n + 1] = all
  BY <1>1
<1>5. ASSUME NEW i \in 1..(n + 1) PROVE text[i] = text[i - 1] \o pieces[i]
  <2>1. CASE i = 1
    <3>1. i - 1 = 0 /\ pieces[i] = all
      BY <2>1 DEF all
    <3> QED
      BY <1>2, <1>4, <2>1, <3>1
  <2>2. CASE i # 1
    <3>1. i - 1 \in 1..(n + 1) /\ pieces[i] = <<>>
      BY <2>2
    <3>2. text[i] = all /\ text[i - 1] = all
      BY <3>1
    <3> HIDE DEF text
    <3> QED
      BY <1>2, <3>1, <3>2
  <2> QED
    BY <2>1, <2>2
<1> HIDE DEF text
<1>6. FlattenSeq(pieces) = text[Len(pieces)]
  <2>1. \A i \in 1..Len(pieces) : text[i] = text[i - 1] \o pieces[i]
    BY <1>3, <1>5
  <2>2. text \in [0..Len(pieces) -> Seq(Nat)]
    BY <1>3, <1>4
  <2> QED
    BY <1>3, <1>4, <2>1, <2>2, FlattenIs
<1> QED
  BY <1>3, <1>4, <1>6 DEF all

\* What a segment is after its translation: its words, and its spaces.
LEMMA SegmentWritten ==
    ASSUME NEW n \in Nat, NEW positions \in [1..n -> Positions], NEW words \in Nat \ {0}
    PROVE  LET result == WrittenSegment(positions, words)
           IN  /\ FlattenSeq([i \in DOMAIN result |-> result[i].words]) = Upto(words)
               /\ Content(positions) # {} =>
                    /\ DOMAIN result = 1..n
                    /\ \A i \in 1..n :
                         /\ positions[i].size = 0 => result[i].words = <<>>
                         /\ result[i].after <=> positions[i].size = 0 \/ (~positions[i].tail /\ positions[i].after)
                         /\ result[i].before <=>
                               \/ positions[i].size = 0
                               \/ positions[i].tail /\ positions[i].before /\ ~SpaceBefore(positions, i)
<1> DEFINE result == WrittenSegment(positions, words)
           pieces == [i \in DOMAIN result |-> result[i].words]
<1>1. result = FilledSegment(positions, words)
  BY DEF WrittenSegment
<1>2. DOMAIN positions = 1..n
  OBVIOUS
<1>3. CASE Content(positions) = {}
  <2> DEFINE head == [words |-> Upto(words), before |-> FALSE, after |-> FALSE]
             blank == [words |-> <<>>, before |-> TRUE, after |-> TRUE]
             rest == [i \in 1..n |-> blank]
             S == {head, blank}
  <2>1. result = <<head>> \o rest
    BY <1>1, <1>2, <1>3 DEF FilledSegment
  <2>2. head.words = Upto(words) /\ blank.words = <<>>
    OBVIOUS
  <2>3. <<head>> \in Seq(S) /\ rest \in Seq(S) /\ Len(<<head>>) = 1 /\ Len(rest) = n
        /\ <<head>>[1] = head /\ \A i \in 1..n : rest[i] = blank
    <3> HIDE DEF head, blank
    <3>1. rest \in [1..n -> S]
      OBVIOUS
    <3> QED
      BY <3>1
  <2> HIDE DEF head, blank, rest, S, result
  <2>4. /\ DOMAIN result = 1..(n + 1)
        /\ \A i \in 1..(n + 1) : result[i] = IF i = 1 THEN head ELSE blank
    <3>1. /\ result \in Seq(S) /\ Len(result) = 1 + n
          /\ \A i \in 1..(1 + n) : result[i] = IF i <= 1 THEN <<head>>[i] ELSE rest[i - 1]
      BY <2>1, <2>3, ConcatProperties
    <3>2. ASSUME NEW i \in 1..(n + 1) PROVE result[i] = IF i = 1 THEN head ELSE blank
      <4>1. result[i] = IF i <= 1 THEN <<head>>[i] ELSE rest[i - 1]
        BY <3>1
      <4>2. CASE i = 1
        BY <2>3, <4>1, <4>2
      <4>3. CASE i # 1
        <5>1. ~(i <= 1) /\ i - 1 \in 1..n
          BY <4>3
        <5> QED
          BY <2>3, <4>1, <4>3, <5>1
      <4> QED
        BY <4>2, <4>3
    <3> QED
      BY <3>1, <3>2
  <2>5. pieces = [i \in 1..(n + 1) |-> IF i = 1 THEN Upto(words) ELSE <<>>]
    BY <2>2, <2>4
  <2> HIDE DEF pieces
  <2>6. FlattenSeq(pieces) = Upto(words)
    BY <2>5, WordsInFront
  <2> QED
    BY <1>3, <2>6 DEF pieces, result
<1>4. CASE Content(positions) # {}
  <2> DEFINE counts == WordCount(positions, words)
  <2>1. /\ counts \in [1..n -> Nat] /\ SumOver(counts, 1..n) = words
        /\ \A i \in 1..n : i \notin Content(positions) => counts[i] = 0
    BY <1>4, WordsAreShared
  <2> HIDE DEF counts
  <2>2. /\ DOMAIN result = 1..n
        /\ \A i \in 1..n :
              LET p == positions[i]
              IN  /\ result[i].words = Slice(Upto(words), CountBefore(counts, i), counts[i])
                  /\ result[i].before = (p.size = 0 \/ (p.tail /\ p.before /\ ~SpaceBefore(positions, i)))
                  /\ result[i].after = (p.size = 0 \/ (~p.tail /\ p.after))
    <3>1. result = [i \in 1..n |->
                       LET p == positions[i]
                       IN  [words |-> Slice(Upto(words), CountBefore(counts, i), counts[i]),
                            before |-> p.size = 0 \/ (p.tail /\ p.before /\ ~SpaceBefore(positions, i)),
                            after |-> p.size = 0 \/ (~p.tail /\ p.after)]]
      <4> HIDE DEF result
      <4> QED
        BY <1>1, <1>2, <1>4 DEF FilledSegment, counts
    <3> HIDE DEF result
    <3> QED
      BY <3>1
  <2> HIDE DEF result
  <2>3. pieces = [i \in 1..n |-> Slice(Upto(words), CountBefore(counts, i), counts[i])]
    BY <2>2
  <2>4. FlattenSeq(pieces) = Upto(words)
    <3> HIDE DEF pieces
    <3> QED
      <4>1. PiecesOf(pieces, n, counts, words)
        BY <2>3 DEF PiecesOf
      <4>2. words \in Nat
        OBVIOUS
      <4> QED
        BY <2>1, <4>1, <4>2, WordsArrive
  <2>5. ASSUME NEW i \in 1..n, positions[i].size = 0 PROVE result[i].words = <<>>
    <3>1. counts[i] = 0
      BY <2>1, <2>5, ContentIs
    <3> DEFINE a == CountBefore(counts, i)
    <3>2. a \in Nat
      BY <2>1, CountsGoOn DEF CountBefore
    <3>3. result[i].words = Slice(Upto(words), a, 0)
      BY <2>2, <3>1
    <3> HIDE DEF a
    <3>4. Slice(Upto(words), a, 0) = <<>>
      BY <3>2 DEF Slice
    <3> QED
      BY <3>3, <3>4
  <2> QED
    BY <2>2, <2>4, <2>5 DEF result
<1> QED
  BY <1>3, <1>4

-----------------------------------------------------------------------------
(***************************************************************************)
(* Counting                                                                *)
(***************************************************************************)

\* How many elements of a sequence are in a set.
CountIn(s, Q) == Cardinality({i \in DOMAIN s : s[i] \in Q})

\* A count is a number, and 0 exactly where there is nothing to count.
LEMMA CountInIs ==
    ASSUME NEW n \in Nat, NEW s, DOMAIN s = 1..n, NEW Q
    PROVE  /\ IsFiniteSet({i \in DOMAIN s : s[i] \in Q}) /\ CountIn(s, Q) \in Nat
           /\ CountIn(s, Q) = 0 <=> \A i \in 1..n : s[i] \notin Q
<1> DEFINE P == {i \in DOMAIN s : s[i] \in Q}
<1>1. P \in SUBSET (1..n) /\ IsFiniteSet(1..n)
  BY FS_Interval
<1>2. P = {} <=> \A i \in 1..n : s[i] \notin Q
  OBVIOUS
<1>3. CountIn(s, Q) = Cardinality(P)
  BY DEF CountIn
<1> HIDE DEF P
<1>4. IsFiniteSet(P)
  BY <1>1, FS_Subset
<1>5. Cardinality(P) \in Nat /\ (Cardinality(P) = 0 <=> P = {})
  BY <1>4, FS_CardinalityType, FS_EmptySet
<1> QED
  BY <1>2, <1>3, <1>4, <1>5 DEF P

\* Counting one element is counting a set of one.
LEMMA CountOfIs ==
    ASSUME NEW s, NEW x PROVE CountOf(s, x) = CountIn(s, {x})
<1>1. {i \in DOMAIN s : s[i] = x} = {i \in DOMAIN s : s[i] \in {x}}
  OBVIOUS
<1> QED
  BY <1>1 DEF CountOf, CountIn

\* Sets of the same size.
LEMMA SameSize ==
    ASSUME NEW A, IsFiniteSet(A), NEW B, NEW g \in [A -> B],
           \A x, y \in A : g[x] = g[y] => x = y, \A y \in B : \E x \in A : g[x] = y
    PROVE  IsFiniteSet(B) /\ Cardinality(B) = Cardinality(A)
<1>1. g \in Bijection(A, B)
  BY DEF Bijection, Injection, IsInjective, Surjection
<1>2. ExistsBijection(A, B)
  BY <1>1 DEF ExistsBijection
<1> QED
  BY <1>2, FS_Bijection

\* What two sequences have, they have together.
LEMMA CountInBoth ==
    ASSUME NEW S, NEW s \in Seq(S), NEW t \in Seq(S), NEW Q
    PROVE  CountIn(s \o t, Q) = CountIn(s, Q) + CountIn(t, Q)
<1> DEFINE n == Len(s)
           m == Len(t)
           c == s \o t
           A == {i \in 1..n : s[i] \in Q}
           B == {i \in 1..m : t[i] \in Q}
           C == {i \in 1..(n + m) : c[i] \in Q}
           U == {i \in (n + 1)..(n + m) : c[i] \in Q}
           g == [i \in B |-> n + i]
<1>1. n \in Nat /\ m \in Nat /\ DOMAIN s = 1..n /\ DOMAIN t = 1..m
  OBVIOUS
<1>2. /\ c \in Seq(S) /\ Len(c) = n + m
      /\ \A i \in 1..(n + m) : c[i] = IF i <= n THEN s[i] ELSE t[i - n]
  BY ConcatProperties
<1> HIDE DEF c, n, m
<1>3. DOMAIN c = 1..(n + m)
  BY <1>2
<1>4. A \in SUBSET (1..n) /\ U \in SUBSET ((n + 1)..(n + m)) /\ C = A \cup U /\ A \cap U = {}
  <2>1. A \in SUBSET (1..n) /\ U \in SUBSET ((n + 1)..(n + m))
    OBVIOUS
  <2>2. A \cap U = {}
    BY <1>1
  <2>3. \A i \in 1..n : i \in 1..(n + m) /\ c[i] = s[i]
    BY <1>1, <1>2
  <2>4. \A i \in 1..(n + m) : i \in 1..n \/ i \in (n + 1)..(n + m)
    BY <1>1
  <2>5. \A i \in (n + 1)..(n + m) : i \in 1..(n + m)
    BY <1>1
  <2>6. C = A \cup U
    BY <2>3, <2>4, <2>5
  <2> QED
    BY <2>1, <2>2, <2>6
<1>5. IsFiniteSet(A) /\ IsFiniteSet(U) /\ IsFiniteSet(B)
  <2>1. IsFiniteSet(1..n) /\ IsFiniteSet(1..m) /\ IsFiniteSet((n + 1)..(n + m))
    BY <1>1, FS_Interval
  <2>2. B \in SUBSET (1..m)
    OBVIOUS
  <2> HIDE DEF A, U, B
  <2> QED
    BY <1>4, <2>1, <2>2, FS_Subset
<1>6. Cardinality(U) = Cardinality(B)
  <2>1. \A i \in B : g[i] = n + i /\ n + i \in (n + 1)..(n + m) /\ c[n + i] = t[i] /\ t[i] \in Q /\ i \in Nat
    <3> TAKE i \in B
    <3>1. i \in 1..m /\ t[i] \in Q
      OBVIOUS
    <3>2. n + i \in 1..(n + m) /\ n + i \in (n + 1)..(n + m) /\ ~(n + i <= n) /\ (n + i) - n = i
      BY <1>1, <3>1
    <3> HIDE DEF B
    <3> QED
      BY <1>2, <3>1, <3>2
  <2>2. \A i \in B : g[i] \in U
    BY <2>1
  <2>3. \A j \in U : \E i \in B : g[i] = j
    <3> TAKE j \in U
    <3>1. j \in (n + 1)..(n + m) /\ c[j] \in Q
      OBVIOUS
    <3>2. j - n \in 1..m /\ n + (j - n) = j /\ ~(j <= n) /\ j \in 1..(n + m)
      BY <1>1, <3>1
    <3>3. c[j] = t[j - n]
      BY <1>2, <3>2
    <3>4. j - n \in B
      BY <3>1, <3>2, <3>3
    <3> HIDE DEF B, U
    <3> QED
      BY <3>2, <3>4
  <2>4. g = [i \in B |-> g[i]]
    OBVIOUS
  <2> HIDE DEF g, B, U
  <2>5. g \in [B -> U]
    BY <2>2, <2>4
  <2>6. \A i, j \in B : g[i] = g[j] => i = j
    BY <1>1, <2>1
  <2> QED
    BY <1>5, <2>3, <2>5, <2>6, SameSize
<1>7. CountIn(s \o t, Q) = Cardinality(C) /\ CountIn(s, Q) = Cardinality(A) /\ CountIn(t, Q) = Cardinality(B)
  BY <1>1, <1>3 DEF CountIn, c
<1> HIDE DEF A, B, C, U
<1>8. Cardinality(A \cup U) = Cardinality(A) + Cardinality(U) - Cardinality(A \cap U)
  BY <1>5, FS_Union
<1>9. Cardinality({}) = 0 /\ Cardinality(A) \in Nat /\ Cardinality(U) \in Nat
  BY <1>5, FS_EmptySet, FS_CardinalityType
<1>10. Cardinality(A \cap U) = 0 /\ Cardinality(C) = Cardinality(A \cup U)
  BY <1>4, <1>9
<1>11. Cardinality(C) = Cardinality(A) + Cardinality(U)
  BY <1>8, <1>9, <1>10
<1> QED
  BY <1>6, <1>7, <1>11

\* One element of a sequence is replaced by another.
Same(a, b) == IF a = b THEN 1 ELSE 0

Replaces(r, s, i, y) ==
    /\ DOMAIN r = DOMAIN s /\ r[i] = y
    /\ \A k \in DOMAIN s : k # i => r[k] = s[k]

LEMMA CountReplaced ==
    ASSUME NEW n \in Nat, NEW s, DOMAIN s = 1..n, NEW i \in 1..n, NEW y, NEW r, Replaces(r, s, i, y), NEW x
    PROVE  CountOf(r, x) + Same(s[i], x) = CountOf(s, x) + Same(y, x)
<1> DEFINE rest == {k \in 1..n : k # i /\ s[k] = x}
           A == {k \in DOMAIN s : s[k] = x}
           B == {k \in DOMAIN r : r[k] = x}
<1>1. A = IF s[i] = x THEN rest \cup {i} ELSE rest
  OBVIOUS
<1>2. DOMAIN r = 1..n /\ r[i] = y /\ \A k \in 1..n : k # i => r[k] = s[k]
  BY DEF Replaces
<1>3. B = IF y = x THEN rest \cup {i} ELSE rest
  BY <1>2
<1>4. rest \in SUBSET (1..n) /\ i \notin rest /\ IsFiniteSet(1..n)
  BY FS_Interval
<1> HIDE DEF rest
<1>5. IsFiniteSet(rest)
  BY <1>4, FS_Subset
<1>6. Cardinality(rest) \in Nat /\ Cardinality(rest \cup {i}) = Cardinality(rest) + 1
  BY <1>4, <1>5, FS_CardinalityType, FS_AddElement
<1>7. CountOf(s, x) = Cardinality(A) /\ CountOf(r, x) = Cardinality(B)
  BY DEF CountOf
<1> HIDE DEF A, B
<1>8. CountOf(s, x) = Cardinality(rest) + Same(s[i], x)
  BY <1>1, <1>6, <1>7 DEF Same
<1>9. CountOf(r, x) = Cardinality(rest) + Same(y, x)
  BY <1>3, <1>6, <1>7 DEF Same
<1>10. Same(s[i], x) \in Nat /\ Same(y, x) \in Nat
  BY DEF Same
<1> QED
  BY <1>6, <1>8, <1>9, <1>10

\* The same some times.
Repeats(s, k, y) == s = [i \in 1..k |-> y]

LEMMA CountSame ==
    ASSUME NEW k \in Nat, NEW y, NEW s, Repeats(s, k, y), NEW x
    PROVE  CountOf(s, x) = IF x = y THEN k ELSE 0
<1>1. {i \in DOMAIN s : s[i] = x} = IF x = y THEN 1..k ELSE {}
  BY DEF Repeats
<1>2. Cardinality(1..k) = k /\ Cardinality({}) = 0
  BY FS_Interval, FS_EmptySet
<1> QED
  BY <1>1, <1>2 DEF CountOf

-----------------------------------------------------------------------------
(***************************************************************************)
(* The numbers of a unit                                                   *)
(***************************************************************************)

Marks == Numbers \cup Placeholders

\* What Beyond does with one number.
More(text, other, x) == Max({0, CountOf(text, x) - CountOf(other, x)})
AddNumber(found, x, text, other, kind) ==
    IF x.kind # kind \/ Contains(found, x) THEN found
    ELSE found \o [i \in 1..More(text, other, x) |-> x]

\* f has what is found at any places.
NumbersFound(f, text, other, kind) ==
    f = [s \in SUBSET DOMAIN text |->
            IF s = {} THEN <<>>
            ELSE AddNumber(f[s \ {Max(s)}], text[Max(s)], text, other, kind)]

LEMMA BeyondIs ==
    ASSUME NEW text, NEW other, NEW kind
    PROVE  Beyond(text, other, kind)
              = (CHOOSE f : NumbersFound(f, text, other, kind))[DOMAIN text]
  BY DEF Beyond, FoldLeft, MapThenFoldSet, NumbersFound, AddNumber, More

\* A text has an element more often than another by the difference, or not at all.
LEMMA MoreIs ==
    ASSUME NEW n \in Nat, NEW text, DOMAIN text = 1..n, NEW m \in Nat, NEW other, DOMAIN other = 1..m, NEW x
    PROVE  /\ CountOf(text, x) \in Nat /\ CountOf(other, x) \in Nat /\ More(text, other, x) \in Nat
           /\ More(text, other, x) = IF CountOf(text, x) > CountOf(other, x)
                                     THEN CountOf(text, x) - CountOf(other, x) ELSE 0
<1>1. CountOf(text, x) \in Nat /\ CountOf(other, x) \in Nat
  BY CountInIs, CountOfIs
<1> DEFINE a == CountOf(text, x)
           b == CountOf(other, x)
           d == Max({0, a - b})
<1>2. a \in Nat /\ b \in Nat /\ a - b \in Int /\ 0 \in Int
  BY <1>1
<1> HIDE DEF a, b
<1>3. d \in {0, a - b} /\ d >= 0 /\ d >= a - b
  BY <1>2, OfTwo
<1> HIDE DEF d
<1>4. d \in Nat /\ d = IF a > b THEN a - b ELSE 0
  BY <1>2, <1>3
<1> QED
  BY <1>1, <1>4 DEF d, a, b, More

LEMMA AddTyped ==
    ASSUME NEW n \in Nat, NEW text, DOMAIN text = 1..n, NEW m \in Nat, NEW other, DOMAIN other = 1..m,
           NEW kind, NEW S, NEW x \in S, NEW found \in Seq(S)
    PROVE  AddNumber(found, x, text, other, kind) \in Seq(S)
<1> DEFINE k == More(text, other, x)
           more == [i \in 1..k |-> x]
<1>1. k \in Nat
  BY MoreIs
<1>2. more \in Seq(S)
  <2> HIDE DEF k
  <2>1. more \in [1..k -> S]
    OBVIOUS
  <2> QED
    BY <1>1, <2>1
<1>3. found \o more \in Seq(S)
  <2> HIDE DEF more
  <2> QED
    BY <1>2, ConcatProperties
<1> QED
  BY <1>3 DEF AddNumber

\* t has what is found after each number of numbers.
NumberSteps(t, n, text, other, kind, S) ==
    /\ t \in [0..n -> Seq(S)]
    /\ t[0] = <<>> /\ t[n] = Beyond(text, other, kind)
    /\ \A m \in 0..(n - 1) : t[m + 1] = AddNumber(t[m], text[m + 1], text, other, kind)

\* The numbers are looked at one after the other.
LEMMA BeyondFold ==
    ASSUME NEW S, NEW n \in Nat, NEW text \in [1..n -> S], NEW k \in Nat, NEW other, DOMAIN other = 1..k,
           NEW kind
    PROVE  \E t : NumberSteps(t, n, text, other, kind, S)
<1> DEFINE V == Seq(S)
           none == <<>>
           G == [x \in V \X (1..n) |-> AddNumber(x[1], text[x[2]], text, other, kind)]
           f == CHOOSE f : NumbersFound(f, text, other, kind)
           t == [m \in 0..n |-> f[1..m]]
<1>1. none \in V /\ DOMAIN text = 1..n
  OBVIOUS
<1>2. G \in [V \X (1..n) -> V]
  <2>1. \A x \in V, i \in 1..n : AddNumber(x, text[i], text, other, kind) \in V
    BY <1>1, AddTyped
  <2> HIDE DEF V
  <2> QED
    BY <2>1
<1> HIDE DEF V
<1>3. \A x \in V, i \in 1..n : G[<<x, i>>] = AddNumber(x, text[i], text, other, kind)
  OBVIOUS
<1> HIDE DEF G, none
<1>4. NumbersFound(f, text, other, kind)
  <2>1. PICK g \in [SUBSET (1..n) -> V] : Folds(g, n, none, G)
    BY <1>1, <1>2, FoldExists
  <2>2. ASSUME NEW s \in SUBSET (1..n)
        PROVE  g[s] = IF s = {} THEN none
                      ELSE AddNumber(g[s \ {Max(s)}], text[Max(s)], text, other, kind)
    <3>1. g[s] = IF s = {} THEN none ELSE G[<<g[s \ {Max(s)}], Max(s)>>]
      BY <2>1 DEF Folds
    <3>2. CASE s # {}
      <4>1. g[s \ {Max(s)}] \in V /\ Max(s) \in 1..n
        BY <3>2, GreatestIs
      <4> QED
        BY <1>3, <3>1, <3>2, <4>1
    <3> QED
      BY <3>1, <3>2
  <2>3. g = [s \in SUBSET (1..n) |-> g[s]]
    OBVIOUS
  <2>4. NumbersFound(g, text, other, kind)
    BY <1>1, <2>2, <2>3 DEF NumbersFound, none
  <2> QED
    BY <2>4
<1>5. FoldsIn(f, n, none, G, V)
  <2> HIDE DEF f
  <2>1. ASSUME NEW s \in SUBSET (1..n)
        PROVE  f[s] = IF s = {} THEN none
                      ELSE AddNumber(f[s \ {Max(s)}], text[Max(s)], text, other, kind)
    BY <1>1, <1>4 DEF NumbersFound, none
  <2>2. ASSUME NEW s \in SUBSET (1..n), s # {}, f[s \ {Max(s)}] \in V
        PROVE  f[s] = G[<<f[s \ {Max(s)}], Max(s)>>]
    <3>1. Max(s) \in 1..n
      BY <2>2, GreatestIs
    <3> QED
      BY <1>3, <2>1, <2>2, <3>1
  <2>3. f[{}] = none
    <3>1. {} \in SUBSET (1..n)
      OBVIOUS
    <3> QED
      BY <2>1, <3>1
  <2> QED
    BY <2>2, <2>3 DEF FoldsIn
<1>6. f[1..n] = Beyond(text, other, kind)
  BY <1>1, BeyondIs
<1> HIDE DEF f
<1>7. /\ \A m \in 0..n : f[1..m] \in V
      /\ f[1..0] = none
      /\ \A m \in 0..(n - 1) : f[1..(m + 1)] = G[<<f[1..m], m + 1>>]
  <2>1. FoldGoesOn(f, n, none, G, V)
    BY <1>1, <1>2, <1>5, FoldSteps
  <2> QED
    BY <2>1 DEF FoldGoesOn
<1>8. ASSUME NEW m \in 0..(n - 1)
      PROVE  t[m + 1] = AddNumber(t[m], text[m + 1], text, other, kind)
  <2>1. m \in 0..n /\ m + 1 \in 0..n /\ m + 1 \in 1..n
    OBVIOUS
  <2>2. f[1..(m + 1)] = AddNumber(f[1..m], text[m + 1], text, other, kind)
    BY <1>3, <1>7, <2>1
  <2> QED
    BY <2>1, <2>2
<1>9. t \in [0..n -> V] /\ t[0] = none /\ t[n] = Beyond(text, other, kind)
  BY <1>6, <1>7
<1> QED
  BY <1>8, <1>9 DEF V, NumberSteps, none

\* What is found is every number of the kind as often as the text has more of it.
Excess(text, other, kind, x) == IF x.kind = kind THEN More(text, other, x) ELSE 0
IsExcess(found, text, other, kind) == \A x : CountOf(found, x) = Excess(text, other, kind, x)

LEMMA BeyondCounts ==
    ASSUME NEW S, NEW n \in Nat, NEW text \in [1..n -> S], NEW k \in Nat, NEW other, DOMAIN other = 1..k,
           NEW kind
    PROVE  /\ Beyond(text, other, kind) \in Seq(S)
           /\ IsExcess(Beyond(text, other, kind), text, other, kind)
<1>0. PICK t : NumberSteps(t, n, text, other, kind, S)
  BY BeyondFold
<1>1. /\ t \in [0..n -> Seq(S)]
      /\ t[0] = <<>> /\ t[n] = Beyond(text, other, kind)
      /\ \A m \in 0..(n - 1) : t[m + 1] = AddNumber(t[m], text[m + 1], text, other, kind)
  BY <1>0 DEF NumberSteps
<1>2. DOMAIN text = 1..n
  OBVIOUS
<1> DEFINE Own(x) == More(text, other, x)
           Among(x, m) == \E i \in 1..m : text[i] = x
           Counted(m) == \A x : CountOf(t[m], x) = IF x.kind = kind /\ Among(x, m) THEN Own(x) ELSE 0
           N == {m \in Nat : m <= n => Counted(m)}
<1>3. \A x : Own(x) \in Nat
  BY <1>2, MoreIs
<1>4. Counted(0)
  <2>1. ASSUME NEW x PROVE CountOf(<<>>, x) = 0
    <3>1. {i \in DOMAIN <<>> : <<>>[i] = x} = {}
      OBVIOUS
    <3> QED
      BY <3>1, FS_EmptySet DEF CountOf
  <2> QED
    BY <1>1, <2>1
<1>5. ASSUME NEW m \in Nat, m + 1 <= n, Counted(m) PROVE Counted(m + 1)
  <2> DEFINE y == text[m + 1]
             found == t[m]
  <2>1. found \in Seq(S) /\ y \in S /\ t[m + 1] = AddNumber(found, y, text, other, kind)
    BY <1>1, <1>5
  <2>2. \A x : Among(x, m + 1) <=> Among(x, m) \/ x = y
    BY <1>5
  <2>3. \A x : CountOf(found, x) = IF x.kind = kind /\ Among(x, m) THEN Own(x) ELSE 0
    BY <1>5
  <2> HIDE DEF y, found, Among, Own
  <2>4. CASE y.kind # kind
    <3>1. t[m + 1] = found
      BY <2>1, <2>4 DEF AddNumber
    <3> QED
      BY <2>2, <2>3, <2>4, <3>1
  <2>5. CASE y.kind = kind /\ Contains(found, y)
    <3>1. t[m + 1] = found
      BY <2>1, <2>5 DEF AddNumber
    <3>2. Among(y, m)
      <4>1. PICK i \in 1..Len(found) : found[i] = y
        BY <2>5 DEF Contains
      <4>2. Len(found) \in Nat /\ DOMAIN found = 1..Len(found)
        BY <2>1
      <4>3. CountIn(found, {y}) # 0
        <5>1. CountIn(found, {y}) = 0 <=> \A j \in 1..Len(found) : found[j] \notin {y}
          BY <4>2, CountInIs
        <5> QED
          BY <4>1, <5>1
      <4>4. CountOf(found, y) # 0
        BY <4>3, CountOfIs
      <4> QED
        BY <2>3, <4>4
    <3> QED
      BY <2>2, <2>3, <3>1, <3>2
  <2>6. CASE y.kind = kind /\ ~Contains(found, y)
    <3> DEFINE more == [i \in 1..Own(y) |-> y]
    <3>1. t[m + 1] = found \o more
      BY <2>1, <2>6 DEF AddNumber, Own
    <3>2. CountOf(found, y) = 0
      <4>1. Len(found) \in Nat /\ DOMAIN found = 1..Len(found)
        BY <2>1
      <4>2. \A i \in 1..Len(found) : found[i] \notin {y}
        BY <2>6 DEF Contains
      <4>3. CountIn(found, {y}) = 0
        BY <4>1, <4>2, CountInIs
      <4> QED
        BY <4>3, CountOfIs
    <3>3. more \in Seq(S)
      <4>1. more \in [1..Own(y) -> S]
        BY <2>1
      <4> QED
        BY <1>3, <4>1
    <3>4. ASSUME NEW x PROVE CountOf(more, x) = IF x = y THEN Own(y) ELSE 0
      <4>1. Repeats(more, Own(y), y)
        BY DEF Repeats
      <4> HIDE DEF more
      <4> QED
        BY <1>3, <4>1, CountSame
    <3> HIDE DEF more
    <3>5. ASSUME NEW x PROVE CountOf(t[m + 1], x) = CountOf(found, x) + CountOf(more, x)
      <4>1. CountIn(found \o more, {x}) = CountIn(found, {x}) + CountIn(more, {x})
        BY <2>1, <3>3, CountInBoth
      <4> QED
        BY <3>1, <4>1, CountOfIs
    <3>6. ASSUME NEW x
          PROVE  CountOf(t[m + 1], x) = IF x.kind = kind /\ Among(x, m + 1) THEN Own(x) ELSE 0
      <4>1. CASE x = y
        <5>1. CountOf(t[m + 1], y) = 0 + Own(y) /\ Own(y) \in Nat
          BY <1>3, <3>2, <3>4, <3>5
        <5>2. Among(y, m + 1)
          BY <2>2
        <5> QED
          BY <2>6, <4>1, <5>1, <5>2
      <4>2. CASE x # y
        <5>1. CountOf(t[m + 1], x) = CountOf(found, x) + 0
          BY <3>4, <3>5, <4>2
        <5>2. CountOf(found, x) \in Nat
          BY <1>3, <2>3
        <5>3. CountOf(t[m + 1], x) = CountOf(found, x)
          BY <5>1, <5>2
        <5> QED
          BY <2>2, <2>3, <4>2, <5>3
      <4> QED
        BY <4>1, <4>2
    <3> QED
      BY <3>6
  <2> QED
    BY <2>4, <2>5, <2>6
<1> HIDE DEF Counted
<1>6. N \in SUBSET Nat /\ 0 \in N /\ \A m \in N : m + 1 \in N
  <2>1. \A m \in N : m + 1 <= n => m \in Nat /\ m <= n
    OBVIOUS
  <2> QED
    BY <1>4, <1>5, <2>1
<1> HIDE DEF N
<1>7. Counted(n)
  <2>1. N = Nat
    BY <1>6, NumbersBelow
  <2> QED
    BY <2>1 DEF N
<1>8. \A x : CountOf(t[n], x) = IF x.kind = kind /\ Among(x, n) THEN Own(x) ELSE 0
  BY <1>7 DEF Counted
<1>9. ASSUME NEW x, ~Among(x, n) PROVE Own(x) = 0
  <2>1. CountOf(text, x) = 0
    <3>1. \A i \in 1..n : text[i] \notin {x}
      BY <1>9
    <3>2. CountIn(text, {x}) = 0
      BY <1>2, <3>1, CountInIs
    <3> QED
      BY <3>2, CountOfIs
  <2>2. CountOf(other, x) \in Nat
    BY <1>2, MoreIs
  <2>3. ~(CountOf(text, x) > CountOf(other, x))
    BY <2>1, <2>2
  <2> QED
    BY <1>2, <2>3, MoreIs
<1> HIDE DEF Own, Among
<1>10. \A x : CountOf(t[n], x) = IF x.kind = kind THEN Own(x) ELSE 0
  BY <1>8, <1>9
<1>11. t[n] \in Seq(S)
  BY <1>1
<1>12. IsExcess(Beyond(text, other, kind), text, other, kind)
  <2> SUFFICES ASSUME NEW x
               PROVE  CountOf(Beyond(text, other, kind), x) = Excess(text, other, kind, x)
    BY DEF IsExcess
  <2>1. CountOf(t[n], x) = IF x.kind = kind THEN Own(x) ELSE 0
    BY <1>10
  <2> QED
    BY <1>1, <2>1 DEF Own, Excess
<1> QED
  BY <1>1, <1>11, <1>12

\* The first of some places is one of them.
LEMMA LeastIs ==
    ASSUME NEW s \in SUBSET Nat, s # {}
    PROVE  Min(s) \in s
<1>1. PICK k \in s : \A y \in s : ~(<<y, k>> \in OpToRel(<, Nat))
  BY NatLessThanWellFounded, WFMin
<1>2. ASSUME NEW y \in s PROVE k <= y
  <2>1. ~(y < k) /\ y \in Nat /\ k \in Nat
    BY <1>1 DEF OpToRel
  <2> QED
    BY <2>1
<1>3. \E z \in s : \A y \in s : z <= y
  BY <1>2
<1> QED
  BY <1>3 DEF Min

\* What Repaired does about one number.
Repair(done, m) ==
    LET hits == {i \in DOMAIN done.text : <<done.text[i]>> = m.found}
    IN  IF m.lost.kind = "num" \/ hits = {} THEN [done EXCEPT !.resolved = FALSE]
        ELSE [done EXCEPT !.text[Min(hits)] = m.lost]
Begun(text) == [text |-> text, resolved |-> TRUE]

\* f has the text after the numbers at any places.
NumbersRepaired(f, text, mm) ==
    f = [s \in SUBSET DOMAIN mm |->
            IF s = {} THEN Begun(text) ELSE Repair(f[s \ {Max(s)}], mm[Max(s)])]

LEMMA RepairedIs ==
    ASSUME NEW text, NEW mm
    PROVE  Repaired(text, mm) = (CHOOSE f : NumbersRepaired(f, text, mm))[DOMAIN mm]
  BY DEF Repaired, FoldLeft, MapThenFoldSet, NumbersRepaired, Repair, Begun

\* Texts of some length, repaired or not.
Dones(k, S) == [text : [1..k -> S], resolved : BOOLEAN]
IsMismatch(m, S) == m.lost \in S

\* A repair replaces one number by another, which the count of each tells.
LEMMA RepairIs ==
    ASSUME NEW S, NEW k \in Nat, NEW done \in Dones(k, S), NEW m, IsMismatch(m, S)
    PROVE  /\ Repair(done, m) \in Dones(k, S)
           /\ Repair(done, m).resolved =>
                /\ done.resolved
                /\ \A x : CountOf(Repair(done, m).text, x) + Same(m.found, <<x>>)
                             = CountOf(done.text, x) + Same(m.lost, x)
<1> DEFINE hits == {i \in DOMAIN done.text : <<done.text[i]>> = m.found}
           i == Min(hits)
           text == done.text
           new == [text EXCEPT ![i] = m.lost]
<1>1. text \in [1..k -> S] /\ done.resolved \in BOOLEAN /\ m.lost \in S
      /\ done = [text |-> text, resolved |-> done.resolved] /\ DOMAIN text = 1..k
  BY DEF Dones, IsMismatch
<1>2. CASE m.lost.kind = "num" \/ hits = {}
  <2>1. Repair(done, m) = [done EXCEPT !.resolved = FALSE]
    BY <1>2 DEF Repair
  <2>2. Repair(done, m) = [text |-> text, resolved |-> FALSE]
    BY <1>1, <2>1
  <2> HIDE DEF text
  <2>3. Repair(done, m) \in Dones(k, S)
    BY <1>1, <2>2 DEF Dones
  <2> QED
    BY <2>2, <2>3
<1>3. CASE ~(m.lost.kind = "num" \/ hits = {})
  <2>1. i \in 1..k /\ <<text[i]>> = m.found
    <3>1. hits \in SUBSET Nat /\ hits # {}
      BY <1>1, <1>3
    <3>2. i \in hits
      <4> HIDE DEF hits
      <4> QED
        BY <3>1, LeastIs
    <3> QED
      BY <1>1, <3>2
  <2>2. Repair(done, m) = [done EXCEPT !.text[i] = m.lost]
    BY <1>3 DEF Repair
  <2>3. Repair(done, m) = [text |-> new, resolved |-> done.resolved]
    BY <1>1, <2>2
  <2> HIDE DEF i, text
  <2>4. new \in [1..k -> S]
    BY <1>1, <2>1
  <2>5. Repair(done, m) \in Dones(k, S)
    <3> HIDE DEF new
    <3> QED
      BY <1>1, <2>3, <2>4 DEF Dones
  <2>6. ASSUME NEW x
        PROVE  CountOf(new, x) + Same(m.found, <<x>>) = CountOf(text, x) + Same(m.lost, x)
    <3>1. Replaces(new, text, i, m.lost)
      BY <1>1, <2>1 DEF Replaces
    <3>2. DOMAIN text = 1..k /\ i \in 1..k
      BY <1>1, <2>1
    <3> HIDE DEF new
    <3>3. CountOf(new, x) + Same(text[i], x) = CountOf(text, x) + Same(m.lost, x)
      BY <3>1, <3>2, CountReplaced
    <3>4. (m.found = <<x>>) <=> (text[i] = x)
      BY <2>1
    <3>5. Same(m.found, <<x>>) = Same(text[i], x)
      BY <3>4 DEF Same
    <3> QED
      BY <3>3, <3>5
  <2>7. Repair(done, m).text = new /\ Repair(done, m).resolved = done.resolved
    BY <2>3
  <2> HIDE DEF new
  <2> QED
    BY <2>5, <2>6, <2>7 DEF text
<1> QED
  BY <1>2, <1>3

\* t has the text after each number of repairs.
AreMismatches(mm, n, S) == \A i \in 1..n : IsMismatch(mm[i], S)
RepairSteps(t, n, k, text, mm, S) ==
    /\ t \in [0..n -> Dones(k, S)]
    /\ t[0] = Begun(text) /\ t[n] = Repaired(text, mm)
    /\ \A m \in 0..(n - 1) : t[m + 1] = Repair(t[m], mm[m + 1])

\* The repairs are done one after the other.
LEMMA RepairFold ==
    ASSUME NEW S, NEW k \in Nat, NEW text \in [1..k -> S], NEW n \in Nat, NEW mm, DOMAIN mm = 1..n,
           AreMismatches(mm, n, S)
    PROVE  \E t : RepairSteps(t, n, k, text, mm, S)
<1> DEFINE V == Dones(k, S)
           none == Begun(text)
           G == [x \in V \X (1..n) |-> Repair(x[1], mm[x[2]])]
           f == CHOOSE f : NumbersRepaired(f, text, mm)
           t == [m \in 0..n |-> f[1..m]]
<1>1. none \in V
  BY DEF Begun, Dones
<1>2. G \in [V \X (1..n) -> V]
  <2>1. \A x \in V, i \in 1..n : Repair(x, mm[i]) \in V
    BY RepairIs DEF AreMismatches
  <2> HIDE DEF V
  <2> QED
    BY <2>1
<1> HIDE DEF V
<1>3. \A x \in V, i \in 1..n : G[<<x, i>>] = Repair(x, mm[i])
  OBVIOUS
<1> HIDE DEF G, none
<1>4. NumbersRepaired(f, text, mm)
  <2>1. PICK g \in [SUBSET (1..n) -> V] : Folds(g, n, none, G)
    BY <1>1, <1>2, FoldExists
  <2>2. ASSUME NEW s \in SUBSET (1..n)
        PROVE  g[s] = IF s = {} THEN none ELSE Repair(g[s \ {Max(s)}], mm[Max(s)])
    <3>1. g[s] = IF s = {} THEN none ELSE G[<<g[s \ {Max(s)}], Max(s)>>]
      BY <2>1 DEF Folds
    <3>2. CASE s # {}
      <4>1. g[s \ {Max(s)}] \in V /\ Max(s) \in 1..n
        BY <3>2, GreatestIs
      <4> QED
        BY <1>3, <3>1, <3>2, <4>1
    <3> QED
      BY <3>1, <3>2
  <2>3. g = [s \in SUBSET (1..n) |-> g[s]]
    OBVIOUS
  <2>4. NumbersRepaired(g, text, mm)
    BY <2>2, <2>3 DEF NumbersRepaired, none
  <2> QED
    BY <2>4
<1>5. FoldsIn(f, n, none, G, V)
  <2> HIDE DEF f
  <2>1. ASSUME NEW s \in SUBSET (1..n)
        PROVE  f[s] = IF s = {} THEN none ELSE Repair(f[s \ {Max(s)}], mm[Max(s)])
    BY <1>4 DEF NumbersRepaired, none
  <2>2. ASSUME NEW s \in SUBSET (1..n), s # {}, f[s \ {Max(s)}] \in V
        PROVE  f[s] = G[<<f[s \ {Max(s)}], Max(s)>>]
    <3>1. Max(s) \in 1..n
      BY <2>2, GreatestIs
    <3> QED
      BY <1>3, <2>1, <2>2, <3>1
  <2>3. f[{}] = none
    <3>1. {} \in SUBSET (1..n)
      OBVIOUS
    <3> QED
      BY <2>1, <3>1
  <2> QED
    BY <2>2, <2>3 DEF FoldsIn
<1>6. f[1..n] = Repaired(text, mm)
  BY RepairedIs
<1> HIDE DEF f
<1>7. /\ \A m \in 0..n : f[1..m] \in V
      /\ f[1..0] = none
      /\ \A m \in 0..(n - 1) : f[1..(m + 1)] = G[<<f[1..m], m + 1>>]
  <2>1. FoldGoesOn(f, n, none, G, V)
    BY <1>1, <1>2, <1>5, FoldSteps
  <2> QED
    BY <2>1 DEF FoldGoesOn
<1>8. ASSUME NEW m \in 0..(n - 1) PROVE t[m + 1] = Repair(t[m], mm[m + 1])
  <2>1. m \in 0..n /\ m + 1 \in 0..n /\ m + 1 \in 1..n
    OBVIOUS
  <2>2. f[1..(m + 1)] = Repair(f[1..m], mm[m + 1])
    BY <1>3, <1>7, <2>1
  <2> QED
    BY <2>1, <2>2
<1>9. t \in [0..n -> V] /\ t[0] = none /\ t[n] = Repaired(text, mm)
  BY <1>6, <1>7
<1> QED
  BY <1>8, <1>9 DEF V, RepairSteps, none

\* A text that could be repaired has of a number what it had, with what was lost
\* and without what came in its place.
Lost(mm, x) == Cardinality({i \in DOMAIN mm : mm[i].lost = x})
Came(mm, x) == Cardinality({i \in DOMAIN mm : mm[i].found = <<x>>})

LEMMA RepairedCounts ==
    ASSUME NEW S, NEW k \in Nat, NEW text \in [1..k -> S], NEW n \in Nat, NEW mm, DOMAIN mm = 1..n,
           AreMismatches(mm, n, S), Repaired(text, mm).resolved, NEW x
    PROVE  CountOf(Repaired(text, mm).text, x) + Came(mm, x) = CountOf(text, x) + Lost(mm, x)
<1>0. PICK t : RepairSteps(t, n, k, text, mm, S)
  BY RepairFold
<1>1. /\ t \in [0..n -> Dones(k, S)]
      /\ t[0] = Begun(text) /\ t[n] = Repaired(text, mm)
      /\ \A m \in 0..(n - 1) : t[m + 1] = Repair(t[m], mm[m + 1])
  BY <1>0 DEF RepairSteps
<1> DEFINE losses == [i \in 1..n |-> Same(mm[i].lost, x)]
           gains == [i \in 1..n |-> Same(mm[i].found, <<x>>)]
           L(m) == SumOver(losses, 1..m)
           C(m) == SumOver(gains, 1..m)
           Even(m) == t[m].resolved => CountOf(t[m].text, x) + C(m) = CountOf(text, x) + L(m)
           N == {m \in Nat : m <= n => Even(m)}
<1>2. losses \in [1..n -> Nat] /\ gains \in [1..n -> Nat]
  BY DEF Same
<1>3. L(0) = 0 /\ C(0) = 0
  <2> HIDE DEF losses, gains
  <2> QED
    BY <1>2, CountsGoOn
<1>4. ASSUME NEW s, DOMAIN s = 1..k PROVE CountOf(s, x) \in Nat
  BY <1>4, CountInIs, CountOfIs
<1>5. Even(0)
  <2>1. t[0].text = text /\ CountOf(text, x) \in Nat
    BY <1>1, <1>4 DEF Begun
  <2> HIDE DEF L, C
  <2> QED
    BY <1>3, <2>1
<1>6. ASSUME NEW m \in Nat, m + 1 <= n, Even(m) PROVE Even(m + 1)
  <2> SUFFICES ASSUME t[m + 1].resolved
               PROVE  CountOf(t[m + 1].text, x) + C(m + 1) = CountOf(text, x) + L(m + 1)
    OBVIOUS
  <2>1. /\ m \in 0..(n - 1) /\ m + 1 \in 1..n /\ m \in 0..n /\ m + 1 \in 0..n
        /\ t[m] \in Dones(k, S) /\ t[m + 1] \in Dones(k, S) /\ t[m + 1] = Repair(t[m], mm[m + 1])
        /\ IsMismatch(mm[m + 1], S)
    BY <1>1, <1>6 DEF AreMismatches
  <2> DEFINE done == t[m]
             new == t[m + 1]
             mark == mm[m + 1]
             a == CountOf(new.text, x)
             b == CountOf(done.text, x)
             l == Same(mark.lost, x)
             c == Same(mark.found, <<x>>)
  <2>2. done.resolved /\ a + c = b + l
    <3> HIDE DEF done, mark
    <3>1. done \in Dones(k, S) /\ IsMismatch(mark, S) /\ new = Repair(done, mark)
      BY <2>1 DEF done, mark
    <3> HIDE DEF new
    <3>2. new.resolved
      BY DEF new
    <3>3. /\ Repair(done, mark).resolved => done.resolved
          /\ Repair(done, mark).resolved =>
               CountOf(Repair(done, mark).text, x) + Same(mark.found, <<x>>)
                  = CountOf(done.text, x) + Same(mark.lost, x)
      BY <3>1, RepairIs
    <3> QED
      BY <3>1, <3>2, <3>3
  <2>3. C(m + 1) = C(m) + c /\ L(m + 1) = L(m) + l /\ C(m) \in Nat /\ L(m) \in Nat
    <3> DEFINE j == m + 1
    <3>1. j \in 1..n /\ j - 1 = m /\ losses[j] = l /\ gains[j] = c
      BY <2>1
    <3> HIDE DEF losses, gains, l, c
    <3>2. SumOver(losses, 1..j) = SumOver(losses, 1..(j - 1)) + losses[j] /\ SumOver(losses, 1..(j - 1)) \in Nat
      BY <1>2, <3>1, CountsGoOn
    <3>3. SumOver(gains, 1..j) = SumOver(gains, 1..(j - 1)) + gains[j] /\ SumOver(gains, 1..(j - 1)) \in Nat
      BY <1>2, <3>1, CountsGoOn
    <3> HIDE DEF j
    <3>4. SumOver(losses, 1..j) = SumOver(losses, 1..m) + l /\ SumOver(losses, 1..m) \in Nat
      BY <3>1, <3>2
    <3>5. SumOver(gains, 1..j) = SumOver(gains, 1..m) + c /\ SumOver(gains, 1..m) \in Nat
      BY <3>1, <3>3
    <3> QED
      BY <3>4, <3>5 DEF j
  <2>4. b + C(m) = CountOf(text, x) + L(m)
    BY <1>6, <2>2
  <2>5. a \in Nat /\ b \in Nat /\ CountOf(text, x) \in Nat /\ l \in Nat /\ c \in Nat
    <3>1. DOMAIN done.text = 1..k /\ DOMAIN new.text = 1..k /\ DOMAIN text = 1..k
      BY <2>1 DEF Dones
    <3> HIDE DEF done, new
    <3> QED
      BY <1>4, <3>1 DEF Same
  <2> DEFINE whole == CountOf(text, x)
             c0 == C(m)
             c1 == C(m + 1)
             l0 == L(m)
             l1 == L(m + 1)
  <2>6. /\ a + c = b + l /\ c1 = c0 + c /\ l1 = l0 + l /\ b + c0 = whole + l0
        /\ a \in Nat /\ b \in Nat /\ c \in Nat /\ l \in Nat /\ c0 \in Nat /\ l0 \in Nat /\ whole \in Nat
    BY <2>2, <2>3, <2>4, <2>5
  <2> HIDE DEF a, b, l, c, c0, c1, l0, l1, whole
  <2>7. a + c1 = whole + l1
    BY <2>6
  <2> QED
    BY <2>7 DEF a, c1, whole, l1
<1> HIDE DEF Even
<1>7. N \in SUBSET Nat /\ 0 \in N /\ \A m \in N : m + 1 \in N
  <2>1. \A m \in N : m + 1 <= n => m \in Nat /\ m <= n
    OBVIOUS
  <2> QED
    BY <1>5, <1>6, <2>1
<1> HIDE DEF N
<1>8. Even(n)
  <2>1. N = Nat
    BY <1>7, NumbersBelow
  <2> QED
    BY <2>1 DEF N
<1>9. L(n) = Lost(mm, x) /\ C(n) = Came(mm, x)
  <2> DEFINE D == 1..n
             A == {i \in D : mm[i].lost = x}
             B == {i \in D : mm[i].found = <<x>>}
  <2>1. IsFiniteSet(D) /\ A \in SUBSET D /\ B \in SUBSET D
    <3>1. IsFiniteSet(1..n)
      BY FS_Interval
    <3>2. A \in SUBSET D /\ B \in SUBSET D
      OBVIOUS
    <3> QED
      BY <3>1, <3>2
  <2>2. \A i \in D : losses[i] = IF i \in A THEN 1 ELSE 0
    BY DEF Same
  <2>3. \A i \in D : gains[i] = IF i \in B THEN 1 ELSE 0
    BY DEF Same
  <2>4. Lost(mm, x) = Cardinality(A) /\ Came(mm, x) = Cardinality(B)
    BY DEF Lost, Came
  <2> HIDE DEF D, A, B, losses, gains
  <2>5. SumOver(losses, D) = Cardinality(A)
    BY <2>1, <2>2, SumOfOnes
  <2>6. SumOver(gains, D) = Cardinality(B)
    BY <2>1, <2>3, SumOfOnes
  <2> QED
    BY <2>4, <2>5, <2>6 DEF D
<1> HIDE DEF L, C
<1>10. CountOf(t[n].text, x) + C(n) = CountOf(text, x) + L(n)
  BY <1>1, <1>8 DEF Even
<1> QED
  BY <1>1, <1>9, <1>10

\* What verify_numeric lists: a number, with nothing or a number in its place.
Entries == [lost : Numbers, found : {<<>>} \cup {<<e>> : e \in Marks}]
LostOf(x) == {e \in Entries : e.lost = x}
CameOf(x) == {e \in Entries : e.found = <<x>>}

\* Both are counts of entries.
LEMMA LostIs ==
    ASSUME NEW mm \in Seq(Entries), NEW x
    PROVE  Lost(mm, x) = CountIn(mm, LostOf(x)) /\ Came(mm, x) = CountIn(mm, CameOf(x))
<1>1. \A i \in DOMAIN mm : mm[i] \in Entries
  OBVIOUS
<1>2. {i \in DOMAIN mm : mm[i].lost = x} = {i \in DOMAIN mm : mm[i] \in LostOf(x)}
  BY <1>1 DEF LostOf
<1>3. {i \in DOMAIN mm : mm[i].found = <<x>>} = {i \in DOMAIN mm : mm[i] \in CameOf(x)}
  BY <1>1 DEF CameOf
<1> QED
  BY <1>2, <1>3 DEF Lost, Came, CountIn

\* A number counts among those of its own kind only: once for each time the
\* source has it more often, and at most once for each time the text has.
LEMMA MismatchesCount ==
    ASSUME NEW n \in Nat, NEW source \in [1..n -> Numbers], NEW m \in Nat, NEW text \in [1..m -> Marks],
           NEW kind
    PROVE  /\ MismatchesOf(kind, source, text) \in Seq(Entries)
           /\ \A x : /\ Lost(MismatchesOf(kind, source, text), x) = Excess(source, text, kind, x)
                     /\ Came(MismatchesOf(kind, source, text), x) <= Excess(text, source, kind, x)
<1> DEFINE lost == Beyond(source, text, kind)
           extra == Beyond(text, source, kind)
           entry(i) == [lost |-> lost[i], found |-> IF i \in DOMAIN extra THEN <<extra[i]>> ELSE <<>>]
           mm == [i \in DOMAIN lost |-> entry(i)]
<1>0. DOMAIN source = 1..n /\ DOMAIN text = 1..m
  OBVIOUS
<1>1. lost \in Seq(Numbers) /\ \A x : CountOf(lost, x) = Excess(source, text, kind, x)
  <2>1. source \in [1..n -> Numbers] /\ DOMAIN text = 1..m
    BY <1>0
  <2>2. lost \in Seq(Numbers) /\ IsExcess(lost, source, text, kind)
    BY ONLY m \in Nat, n \in Nat, <2>1, BeyondCounts
  <2> QED
    BY <2>2 DEF IsExcess
<1>2. extra \in Seq(Marks) /\ \A x : CountOf(extra, x) = Excess(text, source, kind, x)
  <2>1. text \in [1..m -> Marks] /\ DOMAIN source = 1..n
    BY <1>0
  <2>2. extra \in Seq(Marks) /\ IsExcess(extra, text, source, kind)
    BY ONLY m \in Nat, n \in Nat, <2>1, BeyondCounts
  <2> QED
    BY <2>2 DEF IsExcess
<1>3. mm = MismatchesOf(kind, source, text)
  BY DEF MismatchesOf
<1> HIDE DEF lost, extra
<1>4. PICK k \in Nat : lost \in [1..k -> Numbers] /\ DOMAIN lost = 1..k
  <2>1. lost \in [1..Len(lost) -> Numbers] /\ Len(lost) \in Nat
    BY <1>1
  <2> QED
    BY <2>1
<1>5. \A i \in DOMAIN extra : extra[i] \in Marks
  BY <1>2
<1>6. \A i \in 1..k : entry(i) \in Entries
  <2> TAKE i \in 1..k
  <2> DEFINE found == IF i \in DOMAIN extra THEN <<extra[i]>> ELSE <<>>
  <2>1. found \in {<<>>} \cup {<<e>> : e \in Marks}
    BY <1>5
  <2>2. lost[i] \in Numbers
    BY <1>4
  <2> HIDE DEF found
  <2>3. [lost |-> lost[i], found |-> found] \in Entries
    BY <2>1, <2>2 DEF Entries
  <2> QED
    BY <2>3 DEF found
<1>7. \A i \in 1..k : /\ entry(i).lost = lost[i]
                      /\ \A x : entry(i).found = <<x>> => i \in DOMAIN extra /\ extra[i] = x
  <2> TAKE i \in 1..k
  <2>1. entry(i).lost = lost[i]
    OBVIOUS
  <2>2. ASSUME NEW x, entry(i).found = <<x>> PROVE i \in DOMAIN extra /\ extra[i] = x
    <3>1. <<>> # <<x>>
      OBVIOUS
    <3>2. i \in DOMAIN extra /\ <<extra[i]>> = <<x>>
      BY <2>2, <3>1
    <3> QED
      BY <3>2
  <2> QED
    BY <2>1, <2>2
<1>8. DOMAIN mm = 1..k /\ \A i \in 1..k : mm[i] = entry(i)
  BY <1>4
<1> HIDE DEF entry
<1>9. mm \in [1..k -> Entries]
  BY <1>4, <1>6
<1> HIDE DEF mm
<1>10. mm \in Seq(Entries)
  BY <1>9
<1>11. ASSUME NEW x PROVE Lost(mm, x) = CountOf(lost, x)
  <2>1. {i \in DOMAIN mm : mm[i].lost = x} = {i \in DOMAIN lost : lost[i] = x}
    BY <1>4, <1>7, <1>8
  <2> QED
    BY <2>1 DEF Lost, CountOf
<1>12. ASSUME NEW x PROVE Came(mm, x) <= CountOf(extra, x)
  <2> DEFINE A == {i \in DOMAIN mm : mm[i].found = <<x>>}
             B == {i \in DOMAIN extra : extra[i] = x}
  <2>1. A \in SUBSET B
    BY <1>7, <1>8
  <2>2. IsFiniteSet(B)
    <3>1. DOMAIN extra = 1..Len(extra) /\ Len(extra) \in Nat
      BY <1>2
    <3>2. IsFiniteSet(DOMAIN extra)
      BY <3>1, FS_Interval
    <3>3. B \in SUBSET DOMAIN extra
      OBVIOUS
    <3> HIDE DEF B
    <3> QED
      BY <3>2, <3>3, FS_Subset
  <2>3. Came(mm, x) = Cardinality(A) /\ CountOf(extra, x) = Cardinality(B)
    BY DEF Came, CountOf
  <2> HIDE DEF A, B
  <2>4. Cardinality(A) <= Cardinality(B)
    BY <2>1, <2>2, FS_Subset
  <2> QED
    BY <2>3, <2>4
<1> QED
  BY <1>1, <1>2, <1>3, <1>10, <1>11, <1>12

\* The numbers that are compared.
LEMMA AllMismatches ==
    ASSUME NEW n \in Nat, NEW source \in [1..n -> Numbers], NEW m \in Nat, NEW text \in [1..m -> Marks]
    PROVE  /\ Mismatches(source, text) \in Seq(Entries)
           /\ \A x : x.kind \in {"ref", "sub", "num"} =>
                /\ Lost(Mismatches(source, text), x) = More(source, text, x)
                /\ Came(Mismatches(source, text), x) \in Nat
                /\ Came(Mismatches(source, text), x) <= More(text, source, x)
<1> DEFINE A == MismatchesOf("ref", source, text)
           B == MismatchesOf("sub", source, text)
           C == MismatchesOf("num", source, text)
           AB == A \o B
           ABC == AB \o C
<1>1. /\ A \in Seq(Entries)
      /\ \A x : Lost(A, x) = Excess(source, text, "ref", x) /\ Came(A, x) <= Excess(text, source, "ref", x)
  BY MismatchesCount
<1>2. /\ B \in Seq(Entries)
      /\ \A x : Lost(B, x) = Excess(source, text, "sub", x) /\ Came(B, x) <= Excess(text, source, "sub", x)
  BY MismatchesCount
<1>3. /\ C \in Seq(Entries)
      /\ \A x : Lost(C, x) = Excess(source, text, "num", x) /\ Came(C, x) <= Excess(text, source, "num", x)
  BY MismatchesCount
<1>4. Mismatches(source, text) = ABC
  BY DEF Mismatches
<1>5. \A x : More(source, text, x) \in Nat /\ More(text, source, x) \in Nat
  <2>1. DOMAIN source = 1..n /\ DOMAIN text = 1..m
    OBVIOUS
  <2> QED
    BY <2>1, MoreIs
<1> HIDE DEF A, B, C
<1>6. AB \in Seq(Entries)
  BY <1>1, <1>2, ConcatProperties
<1>7. \A Q : CountIn(AB, Q) = CountIn(A, Q) + CountIn(B, Q)
  BY <1>1, <1>2, CountInBoth
<1> HIDE DEF AB
<1>8. ABC \in Seq(Entries)
  BY <1>3, <1>6, ConcatProperties
<1>9. \A Q : CountIn(ABC, Q) = CountIn(AB, Q) + CountIn(C, Q)
  BY <1>3, <1>6, CountInBoth
<1> HIDE DEF ABC
<1>10. \A Q : CountIn(ABC, Q) = (CountIn(A, Q) + CountIn(B, Q)) + CountIn(C, Q)
  BY <1>7, <1>9
<1>11. ASSUME NEW mm \in Seq(Entries), NEW Q PROVE CountIn(mm, Q) \in Nat
  <2>1. DOMAIN mm = 1..Len(mm) /\ Len(mm) \in Nat
    OBVIOUS
  <2> QED
    BY <2>1, CountInIs
<1>12. ASSUME NEW x, x.kind \in {"ref", "sub", "num"}
       PROVE  /\ Lost(ABC, x) = More(source, text, x)
              /\ Came(ABC, x) \in Nat
              /\ Came(ABC, x) <= More(text, source, x)
  <2> DEFINE la == Lost(A, x)
             lb == Lost(B, x)
             lc == Lost(C, x)
             ca == Came(A, x)
             cb == Came(B, x)
             cc == Came(C, x)
             l == Lost(ABC, x)
             c == Came(ABC, x)
             gone == More(source, text, x)
             new == More(text, source, x)
  <2>1. l = (la + lb) + lc
    BY <1>1, <1>2, <1>3, <1>8, <1>10, LostIs
  <2>2. c = (ca + cb) + cc
    BY <1>1, <1>2, <1>3, <1>8, <1>10, LostIs
  <2>3. ca \in Nat /\ cb \in Nat /\ cc \in Nat
    BY <1>1, <1>2, <1>3, <1>11, LostIs
  <2>4. gone \in Nat /\ new \in Nat
    BY <1>5
  <2>5. /\ la = (IF x.kind = "ref" THEN gone ELSE 0) /\ ca <= (IF x.kind = "ref" THEN new ELSE 0)
        /\ lb = (IF x.kind = "sub" THEN gone ELSE 0) /\ cb <= (IF x.kind = "sub" THEN new ELSE 0)
        /\ lc = (IF x.kind = "num" THEN gone ELSE 0) /\ cc <= (IF x.kind = "num" THEN new ELSE 0)
    BY <1>1, <1>2, <1>3 DEF Excess
  <2> HIDE DEF la, lb, lc, ca, cb, cc, l, c, gone, new
  <2>6. l = gone /\ c \in Nat /\ c <= new
    <3>1. CASE x.kind = "ref"
      BY <2>1, <2>2, <2>3, <2>4, <2>5, <3>1
    <3>2. CASE x.kind = "sub"
      BY <2>1, <2>2, <2>3, <2>4, <2>5, <3>2
    <3>3. CASE x.kind = "num"
      BY <2>1, <2>2, <2>3, <2>4, <2>5, <3>3
    <3> QED
      BY <1>12, <3>1, <3>2, <3>3
  <2> QED
    BY <2>6 DEF l, c, gone, new
<1> QED
  BY <1>4, <1>8, <1>12

\* A text that could be repaired has every compared number of its source at least
\* as often as the source.
LEMMA NumbersKept ==
    ASSUME NEW n \in Nat, NEW source \in [1..n -> Numbers], NEW m \in Nat, NEW text \in [1..m -> Marks],
           Repaired(text, Mismatches(source, text)).resolved,
           NEW x, x.kind \in {"ref", "sub", "num"}
    PROVE  CountOf(Repaired(text, Mismatches(source, text)).text, x) >= CountOf(source, x)
<1> DEFINE mm == Mismatches(source, text)
           done == Repaired(text, mm)
           out == CountOf(done.text, x)
           has == CountOf(text, x)
           wants == CountOf(source, x)
           l == Lost(mm, x)
           c == Came(mm, x)
           gone == More(source, text, x)
           new == More(text, source, x)
<1>1. mm \in Seq(Entries) /\ l = gone /\ c \in Nat /\ c <= new
  BY AllMismatches
<1>2. /\ has \in Nat /\ wants \in Nat
      /\ gone = (IF wants > has THEN wants - has ELSE 0)
      /\ new = (IF has > wants THEN has - wants ELSE 0)
  <2>1. DOMAIN source = 1..n /\ DOMAIN text = 1..m
    OBVIOUS
  <2> QED
    BY <2>1, MoreIs
<1>3. done.resolved
  OBVIOUS
<1> HIDE DEF mm
<1>4. DOMAIN mm = 1..Len(mm) /\ Len(mm) \in Nat /\ AreMismatches(mm, Len(mm), Marks)
  <2>1. \A i \in 1..Len(mm) : mm[i] \in Entries
    BY <1>1
  <2>2. \A e \in Entries : e.lost \in Marks
    BY DEF Entries, Marks
  <2>3. DOMAIN mm = 1..Len(mm) /\ Len(mm) \in Nat
    BY <1>1
  <2> QED
    BY <2>1, <2>2, <2>3 DEF AreMismatches, IsMismatch
<1>5. out + c = has + l
  BY <1>3, <1>4, RepairedCounts
<1>6. out \in Nat
  <2>1. PICK t : RepairSteps(t, Len(mm), m, text, mm, Marks)
    BY <1>4, RepairFold
  <2>2. done \in Dones(m, Marks)
    BY <1>4, <2>1 DEF RepairSteps
  <2>3. DOMAIN done.text = 1..m
    BY <2>2 DEF Dones
  <2> HIDE DEF done
  <2> QED
    BY <2>3, CountInIs, CountOfIs
<1> HIDE DEF done, out, has, wants, l, c, gone, new
<1>7. out >= wants
  BY <1>1, <1>2, <1>5, <1>6
<1> QED
  BY <1>7 DEF out, wants, done, mm

\* A text is as it was when nothing in it is wrong.
LEMMA NothingWrong ==
    ASSUME NEW n \in Nat, NEW source \in [1..n -> Numbers]
    PROVE  Repaired(source, Mismatches(source, source)) = Begun(source)
<1>1. source \in [1..n -> Marks] /\ DOMAIN source = 1..n
  BY DEF Marks
<1>2. ASSUME NEW kind PROVE MismatchesOf(kind, source, source) = <<>>
  <2> DEFINE lost == Beyond(source, source, kind)
  <2>0. source \in [1..n -> Numbers] /\ DOMAIN source = 1..n
    BY <1>1
  <2>1. lost \in Seq(Numbers) /\ \A x : CountOf(lost, x) = IF x.kind = kind THEN More(source, source, x) ELSE 0
    <3>1. lost \in Seq(Numbers) /\ IsExcess(lost, source, source, kind)
      BY ONLY n \in Nat, <2>0, BeyondCounts
    <3> QED
      BY <3>1 DEF IsExcess, Excess
  <2>2. \A x : More(source, source, x) = 0
    <3>1. ASSUME NEW x PROVE More(source, source, x) = 0
      <4>1. /\ CountOf(source, x) \in Nat
            /\ More(source, source, x) = IF CountOf(source, x) > CountOf(source, x)
                                         THEN CountOf(source, x) - CountOf(source, x) ELSE 0
        BY <1>1, MoreIs
      <4> QED
        BY <4>1
    <3> QED
      BY <3>1
  <2>3. \A x : CountOf(lost, x) = 0
    BY <2>1, <2>2
  <2>4. MismatchesOf(kind, source, source)
           = [i \in DOMAIN lost |->
                [lost |-> lost[i], found |-> IF i \in DOMAIN lost THEN <<lost[i]>> ELSE <<>>]]
    BY DEF MismatchesOf
  <2> HIDE DEF lost
  <2>5. DOMAIN lost = 1..Len(lost) /\ Len(lost) \in Nat
    BY <2>1
  <2>6. DOMAIN lost = {}
    <3>1. ASSUME NEW i \in 1..Len(lost) PROVE FALSE
      <4>1. CountIn(lost, {lost[i]}) = 0 <=> \A j \in 1..Len(lost) : lost[j] \notin {lost[i]}
        BY <2>5, CountInIs
      <4>2. CountIn(lost, {lost[i]}) = 0
        BY <2>3, CountOfIs
      <4> QED
        BY <4>1, <4>2
    <3> QED
      BY <2>5, <3>1
  <2> QED
    BY <2>4, <2>6
<1>3. Mismatches(source, source) = <<>>
  BY <1>2 DEF Mismatches
<1>4. DOMAIN <<>> = 1..0 /\ AreMismatches(<<>>, 0, Marks)
  BY DEF AreMismatches
<1>5. PICK t : RepairSteps(t, 0, n, source, <<>>, Marks)
  <2> DEFINE none == <<>>
  <2>1. DOMAIN none = 1..0 /\ AreMismatches(none, 0, Marks) /\ 0 \in Nat
    BY <1>4
  <2> HIDE DEF none
  <2>2. \E t : RepairSteps(t, 0, n, source, none, Marks)
    BY <1>1, <2>1, RepairFold
  <2> QED
    BY <2>2 DEF none
<1> QED
  BY <1>3, <1>5 DEF RepairSteps

\* The originals of a unit's placeholders: those of its numbers that are protected,
\* each at its rank.
LEMMA Originals ==
    ASSUME NEW n \in Nat, NEW source \in [1..n -> Numbers]
    PROVE  /\ DOMAIN At(source, Protected(source)) \in SUBSET Nat
           /\ \A k \in DOMAIN At(source, Protected(source)) : At(source, Protected(source))[k] \in Numbers
           /\ \A i \in Protected(source) :
                 /\ Rank(Protected(source), i) \in DOMAIN At(source, Protected(source))
                 /\ At(source, Protected(source))[Rank(Protected(source), i)] = source[i]
<1> DEFINE S == Protected(source)
           C == Cardinality(S)
           order == InOrder(S)
<1>1. S \in SUBSET (1..n)
  BY DEF Protected
<1> HIDE DEF S
<1>2. S \in SUBSET Nat /\ IsFiniteSet(S)
  <2>1. IsFiniteSet(1..n)
    BY FS_Interval
  <2>2. IsFiniteSet(S)
    BY <1>1, <2>1, FS_Subset
  <2>3. S \in SUBSET Nat
    BY <1>1
  <2> QED
    BY <2>2, <2>3
<1>3. C \in Nat
  BY <1>2, FS_CardinalityType
<1>4. order \in [1..C -> S] /\ \A i \in S : order[Rank(S, i)] = i
  BY <1>2, InOrderIs
<1>5. DOMAIN order = 1..C /\ At(source, S) = [k \in 1..C |-> source[order[k]]]
  BY <1>2, AtIs
<1>6. \A i \in S : Rank(S, i) \in 1..C
  BY <1>2, RankIs
<1> HIDE DEF C, order
<1>7. ASSUME NEW k \in 1..C PROVE source[order[k]] \in Numbers
  BY <1>1, <1>4
<1> QED
  BY <1>3, <1>4, <1>5, <1>6, <1>7 DEF S

\* The translation of a unit's numbers.
LEMMA NumbersCome ==
    ASSUME NEW n \in Nat, NEW source \in [1..n -> Numbers], NEW m \in Nat, NEW reply \in [1..m -> Marks]
    PROVE  /\ CheckedNumbers(source, reply)[1] = "accepted" =>
                \A i \in 1..n : Compared(source[i]) =>
                    CountOf(CheckedNumbers(source, reply)[2], source[i]) >= CountOf(source, source[i])
           /\ reply = ProtectedNumbers(source) => CheckedNumbers(source, reply) = <<"accepted", source>>
<1> DEFINE S == Protected(source)
           originals == At(source, S)
           text == Restored(reply, originals)
           repaired == Repaired(text, Mismatches(source, text))
           result == CheckedNumbers(source, reply)
<1>1. result = IF repaired.resolved THEN <<"accepted", repaired.text>> ELSE <<"rejected">>
  BY DEF CheckedNumbers
<1>0. /\ \A k \in DOMAIN originals : originals[k] \in Numbers
      /\ \A i \in S : Rank(S, i) \in DOMAIN originals /\ originals[Rank(S, i)] = source[i]
  BY Originals
<1> HIDE DEF originals
<1>2. text \in [1..m -> Marks]
  BY <1>0 DEF Restored, Marks
<1>3. reply = ProtectedNumbers(source) => text = source
  <2> SUFFICES ASSUME reply = ProtectedNumbers(source) PROVE text = source
    OBVIOUS
  <2>1. DOMAIN reply = 1..n /\ \A i \in 1..n :
            reply[i] = IF i \in S THEN Placeholder(Rank(S, i)) ELSE source[i]
    BY DEF ProtectedNumbers
  <2>2. DOMAIN text = 1..n
    BY <2>1 DEF Restored
  <2>3. ASSUME NEW i \in 1..n PROVE text[i] = source[i]
    <3>1. text[i] = IF reply[i].kind = "placeholder" /\ reply[i].value \in DOMAIN originals
                    THEN originals[reply[i].value] ELSE reply[i]
      BY <2>1 DEF Restored
    <3>2. CASE i \in S
      <4>1. Rank(S, i) \in DOMAIN originals /\ originals[Rank(S, i)] = source[i]
        BY <1>0, <3>2
      <4>2. reply[i] = Placeholder(Rank(S, i))
        BY <2>1, <3>2
      <4>3. reply[i].kind = "placeholder" /\ reply[i].value = Rank(S, i)
        BY <4>2 DEF Placeholder
      <4> HIDE DEF S, text
      <4> QED
        BY <3>1, <4>1, <4>3
    <3>3. CASE i \notin S
      <4>1. reply[i] = source[i] /\ source[i].kind # "placeholder"
        BY <2>1, <3>3 DEF Protected
      <4> QED
        BY <3>1, <4>1
    <3> QED
      BY <3>2, <3>3
  <2> HIDE DEF text
  <2>4. text = [i \in 1..n |-> text[i]]
    BY <1>2, <2>2
  <2> QED
    BY <2>3, <2>4
<1>4. \A i \in 1..n : Compared(source[i]) => source[i].kind \in {"ref", "sub", "num"}
  BY DEF Numbers, Compared
<1> HIDE DEF text
<1>5. result[1] = "accepted" => repaired.resolved /\ result[2] = repaired.text
  <2>1. ~repaired.resolved => result[1] = "rejected"
    BY <1>1
  <2>2. repaired.resolved => result[2] = repaired.text
    BY <1>1
  <2> QED
    BY <2>1, <2>2
<1>6. ASSUME result[1] = "accepted", NEW i \in 1..n, Compared(source[i])
      PROVE  CountOf(result[2], source[i]) >= CountOf(source, source[i])
  BY <1>2, <1>4, <1>5, <1>6, NumbersKept
<1>7. ASSUME reply = ProtectedNumbers(source) PROVE result = <<"accepted", source>>
  <2>1. repaired = Begun(source)
    BY <1>3, <1>7, NothingWrong
  <2>2. repaired.resolved /\ repaired.text = source
    BY <2>1 DEF Begun
  <2> HIDE DEF repaired
  <2> QED
    BY <1>1, <2>2
<1> QED
  BY <1>6, <1>7

-----------------------------------------------------------------------------
(***************************************************************************)
(* The spaces of a segment                                                 *)
(***************************************************************************)

\* The spaces between two positions of a segment that are kept, and those of its
\* translation.
Keeps(positions, i, j) ==
    \E k \in i..j : \/ positions[k].size = 0
                    \/ k < j /\ ~positions[k].tail /\ positions[k].after
                    \/ k > i /\ positions[k].tail /\ positions[k].before
Apart(result, i, j) ==
    \E k \in i..j : \/ k < j /\ result[k].after
                    \/ k > i /\ result[k].before

LEMMA SpacesKept ==
    ASSUME NEW n \in Nat, NEW positions \in [1..n -> Positions], NEW words \in Nat \ {0},
           Content(positions) # {}, NEW i \in 1..n, NEW j \in 1..n, i < j,
           WrittenSegment(positions, words)[i].words # <<>>,
           WrittenSegment(positions, words)[j].words # <<>>,
           Keeps(positions, i, j)
    PROVE  Apart(WrittenSegment(positions, words), i, j)
<1> DEFINE result == WrittenSegment(positions, words)
<1>1. \A k \in 1..n :
        /\ positions[k].size = 0 => result[k].words = <<>>
        /\ result[k].after <=> positions[k].size = 0 \/ (~positions[k].tail /\ positions[k].after)
        /\ result[k].before <=>
              \/ positions[k].size = 0
              \/ positions[k].tail /\ positions[k].before /\ ~SpaceBefore(positions, k)
  BY SegmentWritten
<1>2. result[i].words # <<>> /\ result[j].words # <<>>
  OBVIOUS
<1> HIDE DEF result
<1>3. PICK k \in i..j : \/ positions[k].size = 0
                        \/ k < j /\ ~positions[k].tail /\ positions[k].after
                        \/ k > i /\ positions[k].tail /\ positions[k].before
  BY DEF Keeps
<1>4. k \in 1..n /\ k \in Nat /\ i \in Nat /\ j \in Nat
  BY <1>3
<1>5. CASE positions[k].size = 0
  <2>1. k # j
    BY <1>1, <1>2, <1>5
  <2>2. k < j
    BY <1>3, <1>4, <2>1
  <2>3. result[k].after
    BY <1>1, <1>4, <1>5
  <2> QED
    BY <1>3, <2>2, <2>3 DEF Apart, result
<1>6. CASE k < j /\ ~positions[k].tail /\ positions[k].after
  <2>1. result[k].after
    BY <1>1, <1>4, <1>6
  <2> QED
    BY <1>3, <1>6, <2>1 DEF Apart, result
<1>7. CASE k > i /\ positions[k].tail /\ positions[k].before
  <2>1. CASE ~SpaceBefore(positions, k)
    <3>1. result[k].before
      BY <1>1, <1>4, <1>7, <2>1
    <3> QED
      BY <1>3, <1>7, <3>1 DEF Apart, result
  <2>2. CASE SpaceBefore(positions, k)
    <3>1. k - 1 \in 1..n /\ k - 1 \in i..j /\ k - 1 < j
      BY <1>3, <1>4, <1>7
    <3>2. positions[k - 1].size = 0 \/ (~positions[k - 1].tail /\ positions[k - 1].after)
      BY <2>2 DEF SpaceBefore
    <3>3. result[k - 1].after
      BY <1>1, <3>1, <3>2
    <3> QED
      BY <3>1, <3>3 DEF Apart, result
  <2> QED
    BY <2>1, <2>2
<1> QED
  BY <1>3, <1>5, <1>6, <1>7

-----------------------------------------------------------------------------
(***************************************************************************)
(* The document                                                            *)
(***************************************************************************)

\* The kinds of documents, and what a document of each is, with its translation.
KindsOfText == {"segment", "runs", "labels", "paragraphs", "codes", "numbers"}
SegmentInv ==
    /\ dtDocument \in SeqsUpto(Positions, MaxPieces) /\ dtReply \in 0..MaxWords
    /\ dtResult # Untouched => dtResult = WrittenSegment(dtDocument, dtReply)
RunsInv ==
    /\ dtDocument \in SeqsUpto(0..MaxSize, MaxPieces) /\ dtReply \in 1..MaxWords
    /\ dtResult # Untouched => dtResult = WrittenRuns(dtDocument, dtReply)
LabelsInv ==
    /\ dtDocument \in SeqsUpto(Labels, MaxPieces)
    /\ dtReply \in PartialReplies({LabelId(dtDocument[i]) : i \in DOMAIN dtDocument}, Translated)
    /\ dtResult # Untouched => dtResult = WrittenLabels(dtDocument, dtReply)
ParagraphsInv ==
    /\ dtDocument \in [paragraphs : SeqsUpto({"text", "codes"}, MaxPieces + 1), long : BOOLEAN]
    /\ dtReply \in SUBSET UnitsOfText(dtDocument)
    /\ dtResult # Untouched => dtResult = WrittenParagraphs(dtDocument, dtReply)
CodesInv ==
    /\ dtDocument \in SeqsUpto({Code(1), Code(2), Word, Placeholder(1)}, MaxNumbers + 1)
    /\ dtReply \in SeqsUpto(Placeholders \cup {Word}, MaxNumbers + 1) \cup {<<>>}
    /\ dtResult # Untouched => dtResult = Decoded(dtDocument, dtReply)
NumbersInv ==
    /\ dtDocument \in SeqsUpto(Numbers, MaxNumbers)
    /\ dtReply \in SeqsUpto(Numbers \cup Placeholders, MaxNumbers) \cup {<<>>}
    /\ dtResult # Untouched => dtResult = CheckedNumbers(dtDocument, dtReply)
TextInv ==
    /\ dtKind \in KindsOfText
    /\ dtKind = "segment" => SegmentInv
    /\ dtKind = "runs" => RunsInv
    /\ dtKind = "labels" => LabelsInv
    /\ dtKind = "paragraphs" => ParagraphsInv
    /\ dtKind = "codes" => CodesInv
    /\ dtKind = "numbers" => NumbersInv

\* What is handed over at the start is what the invariant says.
LEMMA TextStarts == DocumentInit => TextInv
  BY DEF DocumentInit, TextInv, KindsOfText, SegmentInv, RunsInv, LabelsInv, ParagraphsInv, CodesInv, NumbersInv

\* The step writes the result of its kind, and changes nothing else.
LEMMA TextGoesOn == TextInv /\ [TranslateDocument]_dtVars => TextInv'
<1> SUFFICES ASSUME TextInv, TranslateDocument PROVE TextInv'
  BY DEF TextInv, SegmentInv, RunsInv, LabelsInv, ParagraphsInv, CodesInv, NumbersInv, dtVars
<1>1. UNCHANGED <<dtKind, dtDocument, dtReply>> /\ dtKind \in KindsOfText
  BY DEF TextInv, TranslateDocument
<1>2. CASE dtKind = "segment"
  <2>1. dtResult' = WrittenSegment(dtDocument, dtReply)
    BY <1>2 DEF TranslateDocument
  <2> QED
    BY <1>1, <1>2, <2>1 DEF TextInv, SegmentInv
<1>3. CASE dtKind = "runs"
  <2>1. dtResult' = WrittenRuns(dtDocument, dtReply)
    BY <1>3 DEF TranslateDocument
  <2> QED
    BY <1>1, <1>3, <2>1 DEF TextInv, RunsInv
<1>4. CASE dtKind = "labels"
  <2>1. dtResult' = WrittenLabels(dtDocument, dtReply)
    BY <1>4 DEF TranslateDocument
  <2> QED
    BY <1>1, <1>4, <2>1 DEF TextInv, LabelsInv
<1>5. CASE dtKind = "paragraphs"
  <2>1. dtResult' = WrittenParagraphs(dtDocument, dtReply)
    BY <1>5 DEF TranslateDocument
  <2> QED
    BY <1>1, <1>5, <2>1 DEF TextInv, ParagraphsInv
<1>6. CASE dtKind = "codes"
  <2>1. dtResult' = Decoded(dtDocument, dtReply)
    BY <1>6 DEF TranslateDocument
  <2> QED
    BY <1>1, <1>6, <2>1 DEF TextInv, CodesInv
<1>7. CASE dtKind = "numbers"
  <2>1. dtResult' = CheckedNumbers(dtDocument, dtReply)
    BY <1>7 DEF TranslateDocument
  <2> QED
    BY <1>1, <1>7, <2>1 DEF TextInv, NumbersInv
<1> QED
  BY <1>1, <1>2, <1>3, <1>4, <1>5, <1>6, <1>7 DEF KindsOfText

\* Pieces of any number are a function on the places up to it.
LEMMA PiecesAre ==
    ASSUME NEW S, NEW most, NEW pieces \in SeqsUpto(S, most), most \in Nat
    PROVE  \E n \in 1..most : pieces \in [1..n -> S]
  BY DEF SeqsUpto

\* The runs of a shared string keep their number, and hold the translation.
LEMMA RunsAre ==
    ASSUME NEW n \in Nat \ {0}, NEW lengths \in [1..n -> Nat], NEW words \in Nat
    PROVE  /\ Len(WrittenRuns(lengths, words)) = n
           /\ ~AllEmpty(lengths) => FlattenSeq(WrittenRuns(lengths, words)) = Upto(words)
<1>1. Len(lengths) = n /\ DOMAIN lengths = 1..n
  OBVIOUS
<1>2. CASE n = 1
  <2> DEFINE all == Upto(words)
             seqs == <<all>>
             text == [i \in 0..1 |-> IF i = 0 THEN <<>> ELSE all]
  <2>1. WrittenRuns(lengths, words) = seqs
    BY <1>1, <1>2 DEF WrittenRuns
  <2>2. all \in Seq(Nat)
    BY DEF Upto
  <2> HIDE DEF all
  <2>3. seqs \in Seq(Seq(Nat)) /\ Len(seqs) = 1 /\ seqs[1] = all
    BY <2>2
  <2>4. <<>> \in Seq(Nat)
    OBVIOUS
  <2>5. text \in [0..1 -> Seq(Nat)] /\ text[0] = <<>> /\ text[1] = all
    BY <2>2, <2>4
  <2>6. <<>> \o all = all
    BY <2>2
  <2>7. FlattenSeq(seqs) = all
    <3> HIDE DEF seqs, text
    <3>1. \A i \in 1..Len(seqs) : text[i] = text[i - 1] \o seqs[i]
      <4>1. 1..Len(seqs) = {1} /\ 1 - 1 = 0
        BY <2>3
      <4> QED
        BY <2>3, <2>5, <2>6, <4>1
    <3>2. FlattenSeq(seqs) = text[Len(seqs)]
      BY <2>3, <2>5, <3>1, FlattenIs
    <3> QED
      BY <2>3, <2>5, <3>2
  <2> QED
    BY <1>2, <2>1, <2>3, <2>7 DEF all
<1>3. CASE n # 1 /\ AllEmpty(lengths)
  BY <1>1, <1>3 DEF WrittenRuns
<1>4. CASE n # 1 /\ ~AllEmpty(lengths)
  <2>1. \E k \in 1..n : lengths[k] > 0
    BY <1>1, <1>4 DEF AllEmpty
  <2>2. WrittenRuns(lengths, words) = FilledRuns(lengths, words)
    BY <1>1, <1>4 DEF WrittenRuns
  <2> QED
    BY <2>1, <2>2, RunsAreFilled
<1> QED
  BY <1>2, <1>3, <1>4

\* A reply that may be empty.
LEMMA RepliesAre ==
    ASSUME NEW S, NEW most \in Nat, NEW reply \in SeqsUpto(S, most) \cup {<<>>}
    PROVE  \E m \in Nat : reply \in [1..m -> S]
<1>1. CASE reply \in SeqsUpto(S, most)
  <2>1. PICK m \in 1..most : reply \in [1..m -> S]
    BY <1>1, PiecesAre
  <2> QED
    BY <2>1
<1>2. CASE reply = <<>>
  <2>1. <<>> \in [1..0 -> S]
    OBVIOUS
  <2> QED
    BY <1>2, <2>1
<1> QED
  BY <1>1, <1>2

\* Segments: the words arrive in order, and apart where they were apart.
LEMMA SegmentIs == TextInv => SegmentArrives
<1> SUFFICES ASSUME TextInv, dtKind = "segment", dtReply > 0, dtResult # Untouched
             PROVE  /\ FlattenSeq(Pieces) = Upto(dtReply)
                    /\ Content(dtDocument) # {} => \A i, j \in DOMAIN dtDocument :
                          i < j /\ Pieces[i] # <<>> /\ Pieces[j] # <<>> /\ KeepsSpace(i, j) => Spaced(i, j)
  BY DEF SegmentArrives
<1>0. MaxPieces \in Nat /\ MaxWords \in Nat
  BY DocumentAssumption
<1>1. /\ dtDocument \in SeqsUpto(Positions, MaxPieces) /\ dtReply \in 0..MaxWords
      /\ dtResult = WrittenSegment(dtDocument, dtReply)
  BY DEF TextInv, SegmentInv
<1>2. PICK n \in 1..MaxPieces : dtDocument \in [1..n -> Positions]
  BY <1>0, <1>1, PiecesAre
<1>3. n \in Nat /\ dtReply \in Nat \ {0} /\ DOMAIN dtDocument = 1..n
  BY <1>0, <1>1, <1>2
<1>4. /\ FlattenSeq([i \in DOMAIN dtResult |-> dtResult[i].words]) = Upto(dtReply)
      /\ Content(dtDocument) # {} => DOMAIN dtResult = 1..n
  BY <1>1, <1>2, <1>3, SegmentWritten
<1>5. ASSUME Content(dtDocument) # {}, NEW i \in 1..n, NEW j \in 1..n, i < j,
             Pieces[i] # <<>>, Pieces[j] # <<>>, KeepsSpace(i, j)
      PROVE  Spaced(i, j)
  <2>1. dtResult[i].words # <<>> /\ dtResult[j].words # <<>>
    BY <1>4, <1>5 DEF Pieces
  <2>2. Keeps(dtDocument, i, j)
    BY <1>5 DEF Keeps, KeepsSpace
  <2>3. Apart(WrittenSegment(dtDocument, dtReply), i, j)
    BY <1>1, <1>2, <1>3, <1>5, <2>1, <2>2, SpacesKept
  <2> QED
    BY <1>1, <2>3 DEF Apart, Spaced
<1> QED
  BY <1>3, <1>4, <1>5 DEF Pieces

\* Paragraphs: each that has text arrives in its place.
LEMMA ParagraphsAre == TextInv => ParagraphsArrive
<1> SUFFICES ASSUME TextInv, dtKind = "paragraphs", dtResult # Untouched PROVE ParagraphsArrive
  BY DEF ParagraphsArrive
<1>0. MaxPieces + 1 \in Nat
  BY DocumentAssumption
<1>1. /\ dtDocument \in [paragraphs : SeqsUpto({"text", "codes"}, MaxPieces + 1), long : BOOLEAN]
      /\ dtReply \in SUBSET UnitsOfText(dtDocument)
      /\ dtResult = WrittenParagraphs(dtDocument, dtReply)
  BY DEF TextInv, ParagraphsInv
<1>2. dtDocument.paragraphs \in SeqsUpto({"text", "codes"}, MaxPieces + 1)
  BY <1>1
<1>3. PICK n \in 1..(MaxPieces + 1) : dtDocument.paragraphs \in [1..n -> {"text", "codes"}]
  BY <1>0, <1>2, PiecesAre
<1>4. n \in Nat
  BY <1>0
<1> QED
  BY <1>1, <1>3, <1>4, ParagraphsWritten DEF ParagraphsArrive

\* Codes: each comes back as often as it was there.
LEMMA CodesAre == TextInv => CodesArrive
<1> SUFFICES ASSUME TextInv, dtKind = "codes", dtResult # Untouched,
                    \A i \in DOMAIN dtDocument : dtDocument[i] \notin Placeholders,
                    \A mark \in Placeholders : CountOf(dtReply, mark) = CountOf(Encoded(dtDocument), mark),
                    NEW v \in 1..2
             PROVE  CountOf(dtResult, Code(v)) = CountOf(dtDocument, Code(v))
  BY DEF CodesArrive
<1>0. MaxNumbers + 1 \in Nat /\ 1 \in 1..(MaxNumbers + 1)
  BY DocumentAssumption
<1>1. /\ dtDocument \in SeqsUpto({Code(1), Code(2), Word, Placeholder(1)}, MaxNumbers + 1)
      /\ dtReply \in SeqsUpto(Placeholders \cup {Word}, MaxNumbers + 1) \cup {<<>>}
      /\ dtResult = Decoded(dtDocument, dtReply)
  BY DEF TextInv, CodesInv
<1>2. PICK n \in 1..(MaxNumbers + 1) : dtDocument \in [1..n -> {Code(1), Code(2), Word, Placeholder(1)}]
  BY <1>0, <1>1, PiecesAre
<1>3. PICK m \in Nat : dtReply \in [1..m -> Placeholders \cup {Word}]
  BY <1>0, <1>1, RepliesAre
<1>4. Placeholder(1) \in Placeholders
  BY <1>0 DEF Placeholders
<1>5. dtDocument \in [1..n -> {Code(1), Code(2), Word}]
  BY <1>2, <1>4
<1>6. n \in Nat /\ n <= MaxNumbers + 1
  BY <1>0
<1> QED
  BY <1>1, <1>3, <1>5, <1>6, CodesComeBack

\* Numbers: an accepted translation has those of its source.
LEMMA NumbersAre == TextInv => NumbersArrive
<1> SUFFICES ASSUME TextInv, dtKind = "numbers", dtResult # Untouched PROVE NumbersArrive
  BY DEF NumbersArrive
<1>0. MaxNumbers \in Nat
  BY DocumentAssumption
<1>1. /\ dtDocument \in SeqsUpto(Numbers, MaxNumbers)
      /\ dtReply \in SeqsUpto(Marks, MaxNumbers) \cup {<<>>}
      /\ dtResult = CheckedNumbers(dtDocument, dtReply)
  BY DEF TextInv, NumbersInv, Marks
<1>2. PICK n \in 1..MaxNumbers : dtDocument \in [1..n -> Numbers]
  BY <1>0, <1>1, PiecesAre
<1>3. PICK m \in Nat : dtReply \in [1..m -> Marks]
  BY <1>0, <1>1, RepliesAre
<1>4. n \in Nat /\ DOMAIN dtDocument = 1..n
  BY <1>0, <1>2
<1> QED
  BY <1>1, <1>2, <1>3, <1>4, NumbersCome DEF NumbersArrive

\* What TextInv says of shared strings and labels.
LEMMA RunsAndLabelsAre == TextInv => DocumentTypeOK /\ RunsArrive /\ LabelsArrive
<1> SUFFICES ASSUME TextInv PROVE DocumentTypeOK /\ RunsArrive /\ LabelsArrive
  OBVIOUS
<1>0. MaxPieces \in Nat /\ MaxSize \in Nat /\ MaxWords \in Nat
  BY DocumentAssumption
<1>1. ASSUME dtKind = "runs", dtResult # Untouched
      PROVE  /\ Len(dtResult) = Len(dtDocument)
             /\ ~AllEmpty(dtDocument) => FlattenSeq(dtResult) = Upto(dtReply)
  <2>1. /\ dtDocument \in SeqsUpto(0..MaxSize, MaxPieces) /\ dtReply \in 1..MaxWords
        /\ dtResult = WrittenRuns(dtDocument, dtReply)
    BY <1>1 DEF TextInv, RunsInv
  <2>2. PICK n \in 1..MaxPieces : dtDocument \in [1..n -> 0..MaxSize]
    BY <1>0, <2>1, PiecesAre
  <2>3. n \in Nat \ {0} /\ dtDocument \in [1..n -> Nat] /\ dtReply \in Nat /\ Len(dtDocument) = n
    BY <1>0, <2>1, <2>2
  <2> QED
    BY <2>1, <2>3, RunsAre
<1>2. ASSUME dtKind = "labels", dtResult # Untouched
      PROVE  Len(dtResult) = Len(dtDocument) /\ LabelsArrive
  <2>1. /\ dtDocument \in SeqsUpto(Labels, MaxPieces)
        /\ dtReply \in PartialReplies({LabelId(dtDocument[i]) : i \in DOMAIN dtDocument}, Translated)
        /\ dtResult = WrittenLabels(dtDocument, dtReply)
    BY <1>2 DEF TextInv, LabelsInv
  <2>2. PICK n \in 1..MaxPieces : dtDocument \in [1..n -> Labels]
    BY <1>0, <2>1, PiecesAre
  <2>3. PICK ids : dtReply \in [ids -> Translated]
    BY <2>1 DEF PartialReplies
  <2>4. n \in Nat /\ DOMAIN dtDocument = 1..n /\ Len(dtDocument) = n /\ DOMAIN dtReply = ids
    BY <1>0, <2>2, <2>3
  <2>5. /\ dtResult \in [1..n -> LabelTexts]
        /\ LET texts == {dtDocument[i] : i \in 1..n}
           IN  (\A t, u \in texts : LabelId(t) = LabelId(u) => t = u)
               /\ (\A id \in ids : dtReply[id] \notin texts)
               => \A i \in 1..n : dtResult[i]
                     = IF LabelId(dtDocument[i]) \in ids THEN dtReply[LabelId(dtDocument[i])]
                       ELSE dtDocument[i]
    BY <2>1, <2>2, <2>3, <2>4, LabelsAreWritten
  <2>6. Len(dtResult) = n
    BY <2>4, <2>5
  <2> QED
    BY <2>4, <2>5, <2>6 DEF LabelsArrive
<1>3. DocumentTypeOK
  BY <1>1, <1>2 DEF TextInv, KindsOfText, DocumentTypeOK
<1>4. RunsArrive
  BY <1>1 DEF RunsArrive
<1>5. LabelsArrive
  <2>1. CASE dtKind = "labels" /\ dtResult # Untouched
    BY <1>2, <2>1
  <2>2. CASE ~(dtKind = "labels" /\ dtResult # Untouched)
    BY <2>2 DEF LabelsArrive
  <2> QED
    BY <2>1, <2>2
<1> QED
  BY <1>3, <1>4, <1>5

\* A document of every kind is what it is, and a shared string or a chart has as
\* many runs or labels after its translation as before.
THEOREM DocumentTypeCorrect == DocumentSpec => []DocumentTypeOK
<1>1. TextInv => DocumentTypeOK
  BY RunsAndLabelsAre
<1> QED
  BY <1>1, TextStarts, TextGoesOn, PTL DEF DocumentSpec

\* Every character of a shared string's translation lands in one of its runs,
\* in order and once, however the runs share how many characters.
THEOREM RunsArriveAlways == DocumentSpec => []RunsArrive
<1>1. TextInv => RunsArrive
  BY RunsAndLabelsAre
<1> QED
  BY <1>1, TextStarts, TextGoesOn, PTL DEF DocumentSpec

\* Every label of a chart gets the translation of its own unit, as long as its
\* text is told apart from the others and from the translations.
THEOREM LabelsArriveAlways == DocumentSpec => []LabelsArrive
<1>1. TextInv => LabelsArrive
  BY RunsAndLabelsAre
<1> QED
  BY <1>1, TextStarts, TextGoesOn, PTL DEF DocumentSpec

\* A translation reaches the document whole, whatever pieces it is put into: the
\* words and spaces of a segment, the characters of a shared string, the labels
\* of a chart, the paragraphs and codes of a drawing's text, and the numbers.
THEOREM TranslationArrivesAlways == DocumentSpec => []TranslationArrives
<1>1. TextInv => TranslationArrives
  BY SegmentIs, ParagraphsAre, CodesAre, NumbersAre, RunsAndLabelsAre
      DEF TranslationArrives
<1> QED
  BY <1>1, TextStarts, TextGoesOn, PTL DEF DocumentSpec
=============================================================================
