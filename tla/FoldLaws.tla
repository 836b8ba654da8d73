------------------------------ MODULE FoldLaws ------------------------------
(***************************************************************************)
(* What FoldLeft computes, for an arbitrary operator Op.  The loops of the *)
(* program over a list (the records of a poll, the messages of a topic,    *)
(* the entries of a timeline) are modelled as folds; the modules with the  *)
(* proofs about them instantiate this one with the body of their loop.     *)
(*                                                                         *)
(* Induction is over sets of numbers instead of predicates, so that the    *)
(* provers can use it.                                                     *)
(***************************************************************************)
EXTENDS Integers, SequencesExt, WellFoundedInduction, TLAPS

CONSTANT Op(_, _)

Fold(base, seq) == FoldLeft(Op, base, seq)

\* A set of naturals that is not empty has a least element.
LEMMA LeastNumber ==
  ASSUME NEW T \in SUBSET Nat, T # {}
  PROVE  \E x \in T : \A y \in T : x <= y
<1> DEFINE R == OpToRel(<, Nat)
<1>1. IsWellFoundedOn(R, Nat)
  BY NatLessThanWellFounded, Zenon
<1>2. \E x \in T : \A y \in T : <<y, x>> \notin R
  <2> HIDE DEF R
  <2> QED BY <1>1, WFMin
<1>3. PICK x \in T : \A y \in T : <<y, x>> \notin R
  BY <1>2
<1>4. \A y \in T : ~(y < x)
  BY <1>3 DEF OpToRel
<1>5. QED
  BY <1>4

\* A set of naturals with 0 that is closed under successor has them all.
LEMMA NumberInduction ==
  ASSUME NEW N, 0 \in N, \A n \in Nat : n \in N => n + 1 \in N
  PROVE  Nat \subseteq N
<1> SUFFICES ASSUME NEW k \in Nat, k \notin N PROVE FALSE
  OBVIOUS
<1> DEFINE T == {n \in Nat : n \notin N}
<1>1. T \in SUBSET Nat /\ T # {}
  OBVIOUS
<1>2. PICK x \in T : \A y \in T : x <= y
  <2> HIDE DEF T
  <2> QED BY <1>1, LeastNumber
<1>3. x \in Nat /\ x \notin N /\ x # 0
  BY <1>2
<1>4. x - 1 \in Nat /\ x - 1 \in N
  BY <1>2, <1>3
<1>5. QED
  BY <1>3, <1>4

-----------------------------------------------------------------------------
\* f computes the fold on the sets of indices of seq that are below n.
Computes(f, n, base, seq) ==
  f = [s \in SUBSET (1..n) |->
         IF s = {} THEN base ELSE Op(f[s \ {Max(s)}], seq[Max(s)])]

\* The two kinds of sets of numbers up to m + 1: those with m + 1 ...
LEMMA MaxOfBounded ==
  ASSUME NEW m \in Nat, NEW s \in SUBSET (1..(m + 1)), m + 1 \in s
  PROVE  Max(s) = m + 1
<1>1. \A y \in s : m + 1 >= y
  OBVIOUS
<1>2. \A x \in s : x >= m + 1 => x = m + 1
  OBVIOUS
<1>3. QED
  BY <1>1, <1>2 DEF Max

\* ... and those without it.
LEMMA WithoutLast ==
  ASSUME NEW m \in Nat, NEW s \in SUBSET (1..(m + 1)), m + 1 \notin s
  PROVE  s \in SUBSET (1..m)
<1>1. \A i \in 1..(m + 1) : i = m + 1 \/ i \in 1..m
  OBVIOUS
<1>2. QED
  BY <1>1

\* Below every n there is such a function.
LEMMA ComputesExists ==
  ASSUME NEW base, NEW seq, NEW n \in Nat
  PROVE  \E f : Computes(f, n, base, seq)
<1> DEFINE N == {m \in Nat : \E f : Computes(f, m, base, seq)}
<1>1. 0 \in N
  <2> DEFINE f == [s \in SUBSET (1..0) |-> base]
  <2>1. \A s \in SUBSET (1..0) : s = {}
    OBVIOUS
  <2>2. Computes(f, 0, base, seq)
    BY <2>1 DEF Computes
  <2>3. QED
    BY <2>2
<1>2. ASSUME NEW m \in Nat, m \in N PROVE m + 1 \in N
  <2>1. PICK f : Computes(f, m, base, seq)
    BY <1>2
  <2> DEFINE g == [s \in SUBSET (1..(m + 1)) |->
                     IF m + 1 \in s THEN Op(f[s \ {m + 1}], seq[m + 1]) ELSE f[s]]
  <2>2. ASSUME NEW s \in SUBSET (1..(m + 1)), m + 1 \in s
        PROVE  g[s] = Op(g[s \ {Max(s)}], seq[Max(s)])
    <3>1. Max(s) = m + 1
      BY <2>2, MaxOfBounded
    <3>2. s \ {m + 1} \in SUBSET (1..(m + 1)) /\ m + 1 \notin s \ {m + 1}
      OBVIOUS
    <3>3. g[s \ {m + 1}] = f[s \ {m + 1}]
      BY <3>2
    <3>4. g[s] = Op(f[s \ {m + 1}], seq[m + 1])
      BY <2>2
    <3>5. QED
      BY <3>1, <3>3, <3>4
  <2>3. ASSUME NEW s \in SUBSET (1..(m + 1)), m + 1 \notin s, s # {}
        PROVE  g[s] = Op(g[s \ {Max(s)}], seq[Max(s)])
    <3>1. s \in SUBSET (1..m) /\ s \ {Max(s)} \in SUBSET (1..(m + 1)) /\ m + 1 \notin s \ {Max(s)}
      BY <2>3, WithoutLast
    <3>2. g[s] = f[s] /\ g[s \ {Max(s)}] = f[s \ {Max(s)}]
      BY <3>1, <2>3
    <3>3. f[s] = Op(f[s \ {Max(s)}], seq[Max(s)])
      BY <2>1, <3>1, <2>3 DEF Computes
    <3>4. QED
      BY <3>2, <3>3
  <2>4. g[{}] = base
    <3>1. {} \in SUBSET (1..m) /\ {} \in SUBSET (1..(m + 1)) /\ m + 1 \notin {}
      OBVIOUS
    <3>2. f[{}] = base
      BY <2>1, <3>1 DEF Computes
    <3>3. QED
      BY <3>1, <3>2
  <2>5. \A s \in SUBSET (1..(m + 1)) :
          g[s] = IF s = {} THEN base ELSE Op(g[s \ {Max(s)}], seq[Max(s)])
    BY <2>2, <2>3, <2>4
  <2>6. Computes(g, m + 1, base, seq)
    <3>1. g = [s \in SUBSET (1..(m + 1)) |-> g[s]]
      OBVIOUS
    <3> HIDE DEF g
    <3>2. QED
      BY <3>1, <2>5 DEF Computes
  <2>7. QED
    BY <2>6
<1>3. Nat \subseteq N
  <2> HIDE DEF N
  <2> QED BY <1>1, <1>2, NumberInduction
<1>4. QED
  BY <1>3

\* FoldLeft is the value of such a function at all the indices.
LEMMA FoldIsComputed ==
  ASSUME NEW S, NEW seq \in Seq(S), NEW base
  PROVE  \E f : Computes(f, Len(seq), base, seq) /\ Fold(base, seq) = f[1..Len(seq)]
<1> DEFINE f == CHOOSE g : Computes(g, Len(seq), base, seq)
<1>1. Len(seq) \in Nat /\ DOMAIN seq = 1..Len(seq)
  OBVIOUS
<1>2. Computes(f, Len(seq), base, seq)
  BY <1>1, ComputesExists
<1>3. Fold(base, seq) = f[1..Len(seq)]
  BY <1>1 DEF Fold, FoldLeft, MapThenFoldSet, Computes
<1>4. QED
  BY <1>2, <1>3

\* Along the prefixes of the sequence, such a function applies Op once more.
LEMMA ComputesPrefix ==
  ASSUME NEW f, NEW n \in Nat, NEW base, NEW seq, Computes(f, n, base, seq)
  PROVE  /\ f[1..0] = base
         /\ \A k \in 1..n : f[1..k] = Op(f[1..(k - 1)], seq[k])
<1>1. f[1..0] = base
  <2>1. 1..0 = {} /\ {} \in SUBSET (1..n)
    OBVIOUS
  <2>2. QED
    BY <2>1 DEF Computes
<1>2. ASSUME NEW k \in 1..n
      PROVE  f[1..k] = Op(f[1..(k - 1)], seq[k])
  <2>1. 1..k \in SUBSET (1..n) /\ 1..k # {}
    <3>1. k \in 1..k /\ \A i \in 1..k : i \in 1..n
      OBVIOUS
    <3>2. QED
      BY <3>1
  <2>2. (k - 1) + 1 = k /\ k - 1 \in Nat
    OBVIOUS
  <2>3. Max(1..k) = k
    <3>1. k \in 1..k
      OBVIOUS
    <3>2. QED
      BY <3>1, <2>2, MaxOfBounded
  <2>4. (1..k) \ {k} = 1..(k - 1)
    OBVIOUS
  <2>5. f[1..k] = Op(f[(1..k) \ {Max(1..k)}], seq[Max(1..k)])
    BY <2>1 DEF Computes
  <2>6. QED
    BY <2>3, <2>4, <2>5
<1>3. QED
  BY <1>1, <1>2

\* A loop over no elements.
THEOREM FoldEmpty ==
  ASSUME NEW base
  PROVE  Fold(base, <<>>) = base
<1>1. <<>> \in Seq({}) /\ Len(<<>>) = 0
  OBVIOUS
<1>2. PICK f : Computes(f, 0, base, <<>>) /\ Fold(base, <<>>) = f[1..0]
  BY <1>1, FoldIsComputed
<1>3. QED
  BY <1>2, ComputesPrefix

\* A loop over one element more.
THEOREM FoldAppend ==
  ASSUME NEW S, NEW seq \in Seq(S), NEW e \in S, NEW base
  PROVE  Fold(base, Append(seq, e)) = Op(Fold(base, seq), e)
<1> DEFINE n == Len(seq)
           longer == Append(seq, e)
<1>1. /\ n \in Nat
      /\ longer \in Seq(S) /\ Len(longer) = n + 1
      /\ \A k \in 1..n : longer[k] = seq[k]
      /\ longer[n + 1] = e
  OBVIOUS
<1>2. PICK f : Computes(f, n, base, seq) /\ Fold(base, seq) = f[1..n]
  BY FoldIsComputed
<1>3. PICK g : Computes(g, n + 1, base, longer) /\ Fold(base, longer) = g[1..(n + 1)]
  BY <1>1, FoldIsComputed
<1> HIDE DEF n, longer
<1>4. /\ f[1..0] = base
      /\ \A k \in 1..n : f[1..k] = Op(f[1..(k - 1)], seq[k])
  BY <1>1, <1>2, ComputesPrefix
<1>5. /\ g[1..0] = base
      /\ \A k \in 1..(n + 1) : g[1..k] = Op(g[1..(k - 1)], longer[k])
  <2>1. n + 1 \in Nat
    BY <1>1
  <2>2. QED
    BY <2>1, <1>3, ComputesPrefix
<1> DEFINE N == {k \in Nat : k <= n => f[1..k] = g[1..k]}
<1>6. 0 \in N
  BY <1>4, <1>5
<1>7. ASSUME NEW k \in Nat, k \in N PROVE k + 1 \in N
  <2> SUFFICES ASSUME k + 1 <= n PROVE f[1..(k + 1)] = g[1..(k + 1)]
    OBVIOUS
  <2>1. k + 1 \in 1..n /\ k + 1 \in 1..(n + 1) /\ (k + 1) - 1 = k
    BY <1>1
  <2>2. f[1..k] = g[1..k]
    BY <1>7, <1>1
  <2>3. f[1..(k + 1)] = Op(f[1..k], seq[k + 1]) /\ g[1..(k + 1)] = Op(g[1..k], longer[k + 1])
    BY <2>1, <1>4, <1>5
  <2>4. longer[k + 1] = seq[k + 1]
    BY <2>1, <1>1
  <2>5. QED
    BY <2>2, <2>3, <2>4
<1>8. n \in N
  <2> HIDE DEF N
  <2> QED BY <1>1, <1>6, <1>7, NumberInduction
<1>9. f[1..n] = g[1..n]
  BY <1>8, <1>1
<1>10. g[1..(n + 1)] = Op(g[1..n], longer[n + 1])
  <2>1. n + 1 \in 1..(n + 1) /\ (n + 1) - 1 = n
    BY <1>1
  <2>2. QED
    BY <2>1, <1>5
<1>11. Fold(base, longer) = Op(Fold(base, seq), e)
  BY <1>1, <1>2, <1>3, <1>9, <1>10
<1>12. QED
  BY <1>11 DEF longer

\* What the body of a loop preserves holds when the loop ends.  I[k] is the
\* set of accumulators that are right after k elements.
THEOREM FoldInvariant ==
  ASSUME NEW S, NEW seq \in Seq(S), NEW base, NEW I,
         base \in I[0],
         \A k \in 1..Len(seq) : \A acc \in I[k - 1] : Op(acc, seq[k]) \in I[k]
  PROVE  Fold(base, seq) \in I[Len(seq)]
<1> DEFINE n == Len(seq)
<1>1. n \in Nat
  OBVIOUS
<1>2. PICK f : Computes(f, n, base, seq) /\ Fold(base, seq) = f[1..n]
  BY FoldIsComputed
<1>3. /\ f[1..0] = base
      /\ \A k \in 1..n : f[1..k] = Op(f[1..(k - 1)], seq[k])
  BY <1>1, <1>2, ComputesPrefix
<1> DEFINE N == {k \in Nat : k <= n => f[1..k] \in I[k]}
<1>4. 0 \in N
  BY <1>3
<1>5. ASSUME NEW k \in Nat, k \in N PROVE k + 1 \in N
  <2> SUFFICES ASSUME k + 1 <= n PROVE f[1..(k + 1)] \in I[k + 1]
    OBVIOUS
  <2>1. k + 1 \in 1..n /\ (k + 1) - 1 = k
    BY <1>1
  <2>2. f[1..k] \in I[k]
    BY <1>5, <1>1
  <2>3. f[1..(k + 1)] = Op(f[1..k], seq[k + 1])
    BY <2>1, <1>3
  <2>4. QED
    BY <2>1, <2>2, <2>3
<1>6. n \in N
  <2> HIDE DEF N, n
  <2> QED BY <1>1, <1>4, <1>5, NumberInduction
<1>7. QED
  BY <1>1, <1>2, <1>6
=============================================================================
