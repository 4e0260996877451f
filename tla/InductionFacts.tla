---------------------------- MODULE InductionFacts ----------------------------
(***************************************************************************)
(* Facts the proofs of several components need: induction over numbers and  *)
(* finite sets, stated about sets, and what follows for SumFunction and     *)
(* MapThenSumSet, which fold over the subsets of a set and take away one    *)
(* element at a time.                                                       *)
(***************************************************************************)
EXTENDS Integers, FiniteSets, Functions, FiniteSetsExt, FiniteSetTheorems,
        WellFoundedInduction, TLAPS

\* A set of numbers has a least one.
LEMMA LeastNat ==
    ASSUME NEW S, S \subseteq Nat, S # {}
    PROVE  \E x \in S : \A y \in S : x <= y
<1>1. PICK x \in S : \A y \in S : ~(<<y, x>> \in OpToRel(<, Nat))
  BY NatLessThanWellFounded, WFMin
<1>2. ASSUME NEW y \in S PROVE ~(y < x)
  <2>1. <<y, x>> \in Nat \X Nat /\ <<y, x>>[1] = y /\ <<y, x>>[2] = x
    OBVIOUS
  <2> QED
    BY <1>1, <2>1 DEF OpToRel
<1>3. \A y \in S : x <= y
  BY <1>2
<1> QED
  BY <1>3

\* A set of numbers that is closed under the successor holds all of them: induction, as
\* a fact about sets.
LEMMA NatFrom ==
    ASSUME NEW S, 0 \in S, \A n \in Nat : n \in S => n + 1 \in S
    PROVE  Nat \subseteq S
<1> SUFFICES ASSUME Nat \ S # {} PROVE FALSE
  OBVIOUS
<1>1. PICK x \in Nat \ S : \A y \in Nat \ S : x <= y
  BY LeastNat
<1>2. x # 0 /\ x - 1 \in Nat
  BY <1>1
<1>3. x - 1 \in S
  BY <1>1, <1>2
<1>4. (x - 1) + 1 \in S
  BY <1>2, <1>3
<1> QED
  BY <1>1, <1>4

\* What the folds of Functions and FiniteSetsExt take out of a set.
Chosen(s) == CHOOSE x \in s : TRUE

\* Taking the chosen element away makes a finite set smaller.
LEMMA Smaller ==
    ASSUME NEW D, IsFiniteSet(D), NEW s \in SUBSET D
    PROVE  /\ Cardinality(s) \in Nat /\ Cardinality(s) <= Cardinality(D)
           /\ Cardinality(s) = 0 <=> s = {}
           /\ s # {} => /\ Chosen(s) \in s /\ s \ {Chosen(s)} \in SUBSET D
                        /\ Cardinality(s \ {Chosen(s)}) = Cardinality(s) - 1
<1>1. IsFiniteSet(s) /\ Cardinality(s) <= Cardinality(D)
  BY FS_Subset
<1>2. Cardinality(s) \in Nat
  BY <1>1, FS_CardinalityType
<1>3. Cardinality(s) = 0 <=> s = {}
  BY <1>1, FS_EmptySet
<1>4. ASSUME s # {} PROVE Chosen(s) \in s /\ Cardinality(s \ {Chosen(s)}) = Cardinality(s) - 1
  <2>1. Chosen(s) \in s
    BY <1>4 DEF Chosen
  <2> QED
    BY <1>1, <2>1, FS_RemoveElement
<1> QED
  BY <1>1, <1>2, <1>3, <1>4

\* Induction over a finite set, in the order of the folds.
LEMMA SubsetInduction ==
    ASSUME NEW D, IsFiniteSet(D), NEW P, {} \in P,
           \A s \in SUBSET D : s # {} /\ s \ {Chosen(s)} \in P => s \in P
    PROVE  D \in P
<1> DEFINE Up == {n \in Nat : \A s \in SUBSET D : Cardinality(s) = n => s \in P}
<1>1. 0 \in Up
  BY Smaller
<1>2. ASSUME NEW n \in Nat, n \in Up PROVE n + 1 \in Up
  <2> SUFFICES ASSUME NEW s \in SUBSET D, Cardinality(s) = n + 1 PROVE s \in P
    OBVIOUS
  <2>1. s # {} /\ s \ {Chosen(s)} \in SUBSET D /\ Cardinality(s \ {Chosen(s)}) = n
    BY Smaller
  <2>2. s \ {Chosen(s)} \in P
    BY <1>2, <2>1
  <2> QED
    BY <2>1, <2>2
<1>3. Nat \subseteq Up
  <2> HIDE DEF Up
  <2> QED
    BY <1>1, <1>2, NatFrom
<1>4. Cardinality(D) \in Nat
  BY FS_CardinalityType
<1> QED
  BY <1>3, <1>4

\* g sums f over each subset of D.
Sums(g, f, D) ==
    g = [s \in SUBSET D |-> IF s = {} THEN 0 ELSE f[Chosen(s)] + g[s \ {Chosen(s)}]]

LEMMA SumsExist ==
    ASSUME NEW D, IsFiniteSet(D), NEW f
    PROVE  \E g : Sums(g, f, D)
<1> DEFINE Rule(g, s) == g[s] = IF s = {} THEN 0 ELSE f[Chosen(s)] + g[s \ {Chosen(s)}]
           Up == {n \in Nat : \E g : \A s \in SUBSET D : Cardinality(s) <= n => Rule(g, s)}
<1>1. 0 \in Up
  <2> DEFINE g == [s \in SUBSET D |-> 0]
  <2>1. ASSUME NEW s \in SUBSET D, Cardinality(s) <= 0 PROVE Rule(g, s)
    <3>1. s = {}
      <4>1. Cardinality(s) \in Nat /\ (Cardinality(s) = 0 => s = {})
        BY Smaller
      <4> QED
        BY <2>1, <4>1
    <3>2. g[s] = 0
      OBVIOUS
    <3> HIDE DEF g
    <3> QED
      BY <3>1, <3>2
  <2> QED
    BY <2>1
<1>2. ASSUME NEW n \in Nat, n \in Up PROVE n + 1 \in Up
  <2>1. PICK g : \A s \in SUBSET D : Cardinality(s) <= n => Rule(g, s)
    BY <1>2
  <2> DEFINE h == [s \in SUBSET D |-> IF s = {} THEN 0 ELSE f[Chosen(s)] + g[s \ {Chosen(s)}]]
  <2>2. \A s \in SUBSET D : Cardinality(s) <= n => h[s] = g[s]
    BY <2>1
  <2>3. ASSUME NEW s \in SUBSET D, Cardinality(s) <= n + 1 PROVE Rule(h, s)
    <3>1. CASE s = {}
      BY <3>1
    <3>2. CASE s # {}
      <4>1. s \ {Chosen(s)} \in SUBSET D /\ Cardinality(s \ {Chosen(s)}) <= n
        BY <2>3, <3>2, Smaller
      <4>2. h[s \ {Chosen(s)}] = g[s \ {Chosen(s)}]
        BY <2>2, <4>1
      <4> QED
        BY <3>2, <4>2
    <3> QED
      BY <3>1, <3>2
  <2> HIDE DEF h, Rule
  <2> QED
    BY <2>3
<1>3. Cardinality(D) \in Up
  <2> HIDE DEF Up
  <2>1. Nat \subseteq Up
    BY <1>1, <1>2, NatFrom
  <2> QED
    BY <2>1, FS_CardinalityType
<1>4. PICK g : \A s \in SUBSET D : Rule(g, s)
  <2>1. \A s \in SUBSET D : Cardinality(s) <= Cardinality(D)
    BY Smaller
  <2> QED
    BY <1>3, <2>1
<1> DEFINE h == [s \in SUBSET D |-> g[s]]
<1>5. ASSUME NEW s \in SUBSET D
      PROVE  g[s] = IF s = {} THEN 0 ELSE f[Chosen(s)] + h[s \ {Chosen(s)}]
  BY <1>4
<1>6. Sums(h, f, D)
  BY <1>5 DEF Sums
<1> QED
  BY <1>6

\* The rule such a g follows.
Accrues(g, f, D) ==
    g[{}] = 0 /\ \A s \in SUBSET D : s # {} => g[s] = f[Chosen(s)] + g[s \ {Chosen(s)}]

LEMMA SumIs ==
    ASSUME NEW D, IsFiniteSet(D), NEW f, DOMAIN f = D
    PROVE  \E g : SumFunction(f) = g[D] /\ Accrues(g, f, D)
<1> DEFINE g == CHOOSE g : Sums(g, f, D)
<1>1. Sums(g, f, D)
  BY SumsExist
<1>2. SumFunction(f) = g[D]
  BY DEF SumFunction, SumFunctionOnSet, FoldFunctionOnSet, MapThenFoldSet, Sums, Chosen
<1> HIDE DEF g
<1>3. \A s \in SUBSET D : g[s] = IF s = {} THEN 0 ELSE f[Chosen(s)] + g[s \ {Chosen(s)}]
  BY <1>1 DEF Sums
<1>4. g[{}] = 0
  BY <1>3
<1>5. Accrues(g, f, D)
  BY <1>3, <1>4 DEF Accrues
<1> QED
  BY <1>2, <1>5

\* The sum of f over D.
SumOver(f, D) == MapThenSumSet(LAMBDA x : f[x], D)

LEMMA SetSumIs ==
    ASSUME NEW D, IsFiniteSet(D), NEW f
    PROVE  \E g : SumOver(f, D) = g[D] /\ Accrues(g, f, D)
<1> DEFINE g == CHOOSE g : Sums(g, f, D)
<1>1. Sums(g, f, D)
  BY SumsExist
<1>2. SumOver(f, D) = g[D]
  BY DEF SumOver, MapThenSumSet, MapThenFoldSet, Sums, Chosen
<1> HIDE DEF g
<1>3. \A s \in SUBSET D : g[s] = IF s = {} THEN 0 ELSE f[Chosen(s)] + g[s \ {Chosen(s)}]
  BY <1>1 DEF Sums
<1>4. g[{}] = 0
  BY <1>3
<1>5. Accrues(g, f, D)
  BY <1>3, <1>4 DEF Accrues
<1> QED
  BY <1>2, <1>5

LEMMA SumInt ==
    ASSUME NEW D, IsFiniteSet(D), NEW f \in [D -> Int]
    PROVE  SumFunction(f) \in Int
<1>1. PICK g : SumFunction(f) = g[D] /\ Accrues(g, f, D)
  BY SumIs
<1> DEFINE P == {s \in SUBSET D : g[s] \in Int}
<1>2. {} \in P
  BY <1>1 DEF Accrues
<1>3. ASSUME NEW s \in SUBSET D, s # {}, s \ {Chosen(s)} \in P PROVE s \in P
  <2>1. Chosen(s) \in D /\ f[Chosen(s)] \in Int
    BY <1>3, Smaller
  <2>2. g[s] = f[Chosen(s)] + g[s \ {Chosen(s)}]
    BY <1>1, <1>3 DEF Accrues
  <2> QED
    BY <1>3, <2>1, <2>2
<1>4. D \in P
  <2> HIDE DEF P
  <2> QED
    BY <1>2, <1>3, SubsetInduction
<1> QED
  BY <1>1, <1>4

Added(h, a, b, D) == \A x \in D : h[x] = a[x] + b[x]

\* The sum of a sum of functions.
LEMMA SumSplit ==
    ASSUME NEW D, IsFiniteSet(D), NEW a \in [D -> Int], NEW b \in [D -> Int],
           NEW h \in [D -> Int], Added(h, a, b, D)
    PROVE  SumFunction(h) = SumFunction(a) + SumFunction(b)
<1> USE DEF Added
<1>1. PICK ga : SumFunction(a) = ga[D] /\ Accrues(ga, a, D)
  BY SumIs
<1>2. PICK gb : SumFunction(b) = gb[D] /\ Accrues(gb, b, D)
  BY SumIs
<1>3. PICK gh : SumFunction(h) = gh[D] /\ Accrues(gh, h, D)
  BY SumIs
<1> DEFINE P == {s \in SUBSET D : ga[s] \in Int /\ gb[s] \in Int /\ gh[s] = ga[s] + gb[s]}
<1>4. {} \in P
  <2>1. ga[{}] = 0 /\ gb[{}] = 0 /\ gh[{}] = 0
    BY <1>1, <1>2, <1>3 DEF Accrues
  <2> QED
    BY <2>1
<1>5. ASSUME NEW s \in SUBSET D, s # {}, s \ {Chosen(s)} \in P PROVE s \in P
  <2>1. PICK x \in D : x = Chosen(s)
    BY <1>5, Smaller
  <2>2. ga[s] = a[x] + ga[s \ {x}]
    BY <1>1, <1>5, <2>1 DEF Accrues
  <2>3. gb[s] = b[x] + gb[s \ {x}]
    BY <1>2, <1>5, <2>1 DEF Accrues
  <2>4. gh[s] = h[x] + gh[s \ {x}]
    BY <1>3, <1>5, <2>1 DEF Accrues
  <2>5. a[x] \in Int /\ b[x] \in Int /\ h[x] = a[x] + b[x]
    OBVIOUS
  <2>6. ga[s \ {x}] \in Int /\ gb[s \ {x}] \in Int /\ gh[s \ {x}] = ga[s \ {x}] + gb[s \ {x}]
    BY <1>5, <2>1
  <2> QED
    BY <2>2, <2>3, <2>4, <2>5, <2>6
<1>6. D \in P
  <2> HIDE DEF P
  <2> QED
    BY <1>4, <1>5, SubsetInduction
<1> QED
  BY <1>1, <1>2, <1>3, <1>6

LEMMA SumZero ==
    ASSUME NEW D, IsFiniteSet(D), NEW z \in [D -> Int], Added(z, z, z, D)
    PROVE  SumFunction(z) = 0
<1>1. SumFunction(z) = SumFunction(z) + SumFunction(z)
  BY SumSplit
<1>2. ASSUME NEW n \in Int, n = n + n PROVE n = 0
  BY <1>2
<1> QED
  BY <1>1, <1>2, SumInt, Zenon

\* The sum of a function that is zero but at one place.
LEMMA SumSingle ==
    ASSUME NEW D, IsFiniteSet(D), NEW y \in D, NEW d \in Int
    PROVE  SumFunction([x \in D |-> IF x = y THEN d ELSE 0]) = d
<1> DEFINE f == [x \in D |-> IF x = y THEN d ELSE 0]
<1>0. DOMAIN f = D /\ f[y] = d /\ \A x \in D : x # y => f[x] = 0
  OBVIOUS
<1> HIDE DEF f
<1>1. PICK g : SumFunction(f) = g[D] /\ Accrues(g, f, D)
  BY <1>0, SumIs
<1> DEFINE P == {s \in SUBSET D : g[s] = IF y \in s THEN d ELSE 0}
<1>2. {} \in P
  BY <1>1 DEF Accrues
<1>3. ASSUME NEW s \in SUBSET D, s # {}, s \ {Chosen(s)} \in P PROVE s \in P
  <2>1. PICK x \in D : x = Chosen(s) /\ x \in s
    BY <1>3, Smaller
  <2>2. g[s] = f[x] + g[s \ {x}]
    BY <1>1, <1>3, <2>1 DEF Accrues
  <2>3. g[s \ {x}] = IF y \in s /\ y # x THEN d ELSE 0
    BY <1>3, <2>1
  <2>4. CASE x = y
    <3>1. g[s] = d + 0
      BY <1>0, <2>2, <2>3, <2>4
    <3> QED
      BY <2>1, <2>4, <3>1
  <2>5. CASE x # y
    <3>1. g[s] = 0 + (IF y \in s THEN d ELSE 0)
      BY <1>0, <2>2, <2>3, <2>5
    <3> QED
      BY <3>1
  <2> QED
    BY <2>4, <2>5
<1>4. D \in P
  <2> HIDE DEF P
  <2> QED
    BY <1>2, <1>3, SubsetInduction
<1> QED
  BY <1>1, <1>4 DEF f

\* Two functions on the finite set D that differ at most at y, by d.
Changed(h, f, D, y, d) ==
    /\ IsFiniteSet(D) /\ y \in D /\ d \in Int
    /\ f \in [D -> Int] /\ h \in [D -> Int]
    /\ h[y] = f[y] + d
    /\ \A x \in D : x # y => h[x] = f[x]

\* Changing a function at one place changes its sum by as much.
LEMMA SumChange ==
    ASSUME NEW D, NEW f, NEW h, NEW y, NEW d, Changed(h, f, D, y, d)
    PROVE  SumFunction(h) = SumFunction(f) + d
<1>0. /\ IsFiniteSet(D) /\ y \in D /\ d \in Int
      /\ f \in [D -> Int] /\ h \in [D -> Int]
  BY DEF Changed
<1> DEFINE b == [x \in D |-> IF x = y THEN d ELSE 0]
<1>1. b \in [D -> Int] /\ Added(h, f, b, D)
  BY <1>0 DEF Changed, Added
<1>2. SumFunction(b) = d
  BY <1>0, SumSingle
<1> HIDE DEF b
<1> QED
  BY <1>0, <1>1, <1>2, SumSplit

Shifted(b, a, n, N, p) ==
    \A j \in 0 .. n - 1 : b[j] = IF p <= j /\ j < p + N THEN a[j - p] ELSE 0

\* Moving values elsewhere, with zeros around them, keeps their sum.
LEMMA SumShift ==
    ASSUME NEW N \in Nat, NEW n \in Nat, NEW p \in Nat, p + N <= n,
           NEW a \in [0 .. N - 1 -> Int], NEW b \in [0 .. n - 1 -> Int],
           Shifted(b, a, n, N, p)
    PROVE  SumFunction(b) = SumFunction(a)
<1> DEFINE S == 0 .. N - 1
           T == 0 .. n - 1
           A(m) == [k \in S |-> IF k < m THEN a[k] ELSE 0]
           C(m) == [j \in T |-> IF j < p + m THEN b[j] ELSE 0]
           Same == {m \in Nat : m <= N => SumFunction(A(m)) = SumFunction(C(m))}
<1>f. IsFiniteSet(S) /\ IsFiniteSet(T)
  BY FS_Interval
<1>1. 0 \in Same
  <2>1. A(0) \in [S -> Int] /\ Added(A(0), A(0), A(0), S)
    BY DEF Added
  <2>2. C(0) \in [T -> Int] /\ Added(C(0), C(0), C(0), T)
    BY DEF Added, Shifted
  <2>3. SumFunction(A(0)) = 0 /\ SumFunction(C(0)) = 0
    <3> HIDE DEF A, C
    <3> QED
      BY <1>f, <2>1, <2>2, SumZero
  <2> HIDE DEF A, C
  <2> QED
    BY <2>3
<1>2. ASSUME NEW m \in Nat, m \in Same PROVE m + 1 \in Same
  <2> SUFFICES ASSUME m + 1 <= N PROVE SumFunction(A(m + 1)) = SumFunction(C(m + 1))
    OBVIOUS
  <2>1. m \in S /\ p + m \in T /\ a[m] \in Int /\ b[p + m] = a[m]
    BY DEF Shifted
  <2>2. Changed(A(m + 1), A(m), S, m, a[m])
    BY <1>f, <2>1 DEF Changed
  <2>3. Changed(C(m + 1), C(m), T, p + m, a[m])
    BY <1>f, <2>1 DEF Changed, Shifted
  <2>5. SumFunction(A(m)) = SumFunction(C(m))
    BY <1>2
  <2> HIDE DEF A, C, S, T, Same
  <2>6. SumFunction(A(m + 1)) = SumFunction(A(m)) + a[m]
    BY <2>2, SumChange
  <2>7. SumFunction(C(m + 1)) = SumFunction(C(m)) + a[m]
    BY <2>3, SumChange
  <2> QED
    BY <2>5, <2>6, <2>7
<1>3. N \in Same
  <2> HIDE DEF Same
  <2>1. Nat \subseteq Same
    BY <1>1, <1>2, NatFrom
  <2> QED
    BY <2>1
<1>4. A(N) = a /\ C(N) = b
  BY DEF Shifted
<1> HIDE DEF A, C
<1> QED
  BY <1>3, <1>4

-----------------------------------------------------------------------------

\* Adding two values that do not argue against a sign gives another.
LEMMA SignSum ==
    ASSUME NEW x \in Int, NEW y \in Int, NEW s \in {1, -1}, x * s >= 0, y * s >= 0
    PROVE  (x + y) * s >= 0
  OBVIOUS

\* No value of f on D argues against the sign s.
NoneAgainst(f, D, s) == \A x \in D : f[x] \in Int /\ f[x] * s >= 0

\* Nor does their sum, with all of them or with one or two taken away.
LEMMA SetSumSign ==
    ASSUME NEW D, IsFiniteSet(D), NEW f, NEW s \in {1, -1}, NoneAgainst(f, D, s)
    PROVE  /\ SumOver(f, D) \in Int
           /\ SumOver(f, D) * s >= 0
           /\ \A y \in D : (SumOver(f, D) - f[y]) * s >= 0
           /\ \A y, z \in D : y # z => ((SumOver(f, D) - f[y]) - f[z]) * s >= 0
<1> USE DEF NoneAgainst
<1>1. PICK g : SumOver(f, D) = g[D] /\ Accrues(g, f, D)
  BY SetSumIs
<1> DEFINE P == {t \in SUBSET D : /\ g[t] \in Int /\ g[t] * s >= 0
                                  /\ \A y \in t : (g[t] - f[y]) * s >= 0
                                  /\ \A y, z \in t : y # z => ((g[t] - f[y]) - f[z]) * s >= 0}
<1>2. {} \in P
  BY <1>1 DEF Accrues
<1>3. ASSUME NEW t \in SUBSET D, t # {}, t \ {Chosen(t)} \in P PROVE t \in P
  <2>1. PICK x \in D : x = Chosen(t)
    BY <1>3, Smaller
  <2>2. g[t] = f[x] + g[t \ {x}]
    BY <1>1, <1>3, <2>1 DEF Accrues
  <2>3. PICK r \in Int : r = g[t \ {x}]
    BY <1>3, <2>1
  <2>4. r * s >= 0 /\ \A y \in t \ {x} : (r - f[y]) * s >= 0
    BY <1>3, <2>1, <2>3
  <2>4a. \A y, z \in t \ {x} : y # z => ((r - f[y]) - f[z]) * s >= 0
    BY <1>3, <2>1, <2>3
  <2>5. PICK a \in Int : a = f[x] /\ a * s >= 0
    OBVIOUS
  <2>6. g[t] = a + r /\ g[t] \in Int
    BY <2>2, <2>3, <2>5
  <2>7. (a + r) * s >= 0
    BY <2>4, <2>5, SignSum
  <2>8. ASSUME NEW y \in t PROVE (g[t] - f[y]) * s >= 0
    <3>1. CASE y = x
      <4>1. (a + r) - a = r
        OBVIOUS
      <4> QED
        BY <2>4, <2>5, <2>6, <3>1, <4>1
    <3>2. CASE y # x
      <4>1. PICK b \in Int : b = f[y]
        OBVIOUS
      <4>2. (r - b) * s >= 0 /\ r - b \in Int
        BY <2>4, <3>2, <4>1
      <4>3. (a + (r - b)) * s >= 0
        BY <2>5, <4>2, SignSum
      <4>4. a + (r - b) = (a + r) - b
        OBVIOUS
      <4> QED
        BY <2>6, <4>1, <4>3, <4>4
    <3> QED
      BY <3>1, <3>2
  <2>9. ASSUME NEW y \in t, NEW z \in t, y # z PROVE ((g[t] - f[y]) - f[z]) * s >= 0
    <3>1. PICK b \in Int, c \in Int : b = f[y] /\ c = f[z]
      OBVIOUS
    <3>2. CASE y = x
      <4>1. (r - c) * s >= 0 /\ ((a + r) - a) - c = r - c
        BY <2>4, <2>9, <3>1, <3>2
      <4> QED
        BY <2>5, <2>6, <3>1, <3>2, <4>1
    <3>3. CASE z = x
      <4>1. (r - b) * s >= 0 /\ ((a + r) - b) - a = r - b
        BY <2>4, <2>9, <3>1, <3>3
      <4> QED
        BY <2>5, <2>6, <3>1, <3>3, <4>1
    <3>4. CASE y # x /\ z # x
      <4>1. ((r - b) - c) * s >= 0
        BY <2>4a, <2>9, <3>1, <3>4
      <4>2. (a + ((r - b) - c)) * s >= 0
        BY <2>5, <4>1, SignSum
      <4>3. a + ((r - b) - c) = ((a + r) - b) - c
        OBVIOUS
      <4> QED
        BY <2>6, <3>1, <4>2, <4>3
    <3> QED
      BY <3>2, <3>3, <3>4
  <2> QED
    BY <2>6, <2>7, <2>8, <2>9
<1>4. D \in P
  <2> HIDE DEF P
  <2> QED
    BY <1>2, <1>3, SubsetInduction
<1> QED
  BY <1>1, <1>4

\* Values of f on D that argue against the sign s do so in X only, and by b at most.
Bounded(f, D, s, X, b) ==
    /\ IsFiniteSet(D) /\ s \in {1, -1} /\ b \in Nat
    /\ \A x \in D : /\ f[x] \in Int
                    /\ f[x] * s >= IF x \in X THEN -b ELSE 0

\* Then their sum does so by b for each of them at most.
LEMMA SetSumBound ==
    ASSUME NEW f, NEW D, NEW s, NEW X, NEW b, Bounded(f, D, s, X, b)
    PROVE  /\ SumOver(f, D) \in Int /\ Cardinality(D \cap X) \in Nat
           /\ SumOver(f, D) * s + b * Cardinality(D \cap X) >= 0
<1> USE DEF Bounded
<1>1. PICK g : SumOver(f, D) = g[D] /\ Accrues(g, f, D)
  BY SetSumIs
<1> DEFINE P == {t \in SUBSET D : /\ g[t] \in Int /\ Cardinality(t \cap X) \in Nat
                                  /\ g[t] * s + b * Cardinality(t \cap X) >= 0}
<1>2. {} \in P
  <2>1. g[{}] = 0 /\ Cardinality({} \cap X) = 0
    BY <1>1, FS_EmptySet DEF Accrues
  <2> QED
    BY <2>1
<1>3. ASSUME NEW t \in SUBSET D, t # {}, t \ {Chosen(t)} \in P PROVE t \in P
  <2>1. PICK x \in D : x = Chosen(t) /\ x \in t
    BY <1>3, Smaller
  <2>2. g[t] = f[x] + g[t \ {x}]
    BY <1>1, <1>3, <2>1 DEF Accrues
  <2>3. PICK r \in Int, n \in Nat : /\ r = g[t \ {x}] /\ n = Cardinality((t \ {x}) \cap X)
                                    /\ r * s + b * n >= 0
    BY <1>3, <2>1
  <2>4. PICK a \in Int : a = f[x] /\ a * s >= IF x \in X THEN -b ELSE 0
    OBVIOUS
  <2>5. IsFiniteSet(t \cap X)
    <3>1. IsFiniteSet(t)
      BY FS_Subset
    <3> QED
      BY <3>1, FS_Subset
  <2>6. /\ g[t] = a + r /\ g[t] \in Int /\ (a + r) * s = a * s + r * s
        /\ a * s \in Int /\ r * s \in Int /\ b * n \in Int
    <3>1. g[t] = a + r
      BY <2>2, <2>3, <2>4
    <3>2. s \in Int /\ b \in Nat
      OBVIOUS
    <3>3. (a + r) * s = a * s + r * s /\ a * s \in Int /\ r * s \in Int /\ b * n \in Int
      BY <3>2
    <3> QED
      BY <3>1, <3>3
  <2>7. CASE x \in X
    <3>1. (t \ {x}) \cap X = (t \cap X) \ {x} /\ x \in t \cap X
      BY <2>1, <2>7
    <3>2. Cardinality(t \cap X) = n + 1
      <4>1. Cardinality((t \cap X) \ {x}) = Cardinality(t \cap X) - 1 /\ Cardinality(t \cap X) \in Nat
        BY <2>5, <3>1, FS_RemoveElement, FS_CardinalityType
      <4>2. n = Cardinality((t \cap X) \ {x})
        BY <2>3, <3>1
      <4> QED
        BY <4>1, <4>2
    <3>3. a * s >= -b /\ b * (n + 1) = b * n + b
      BY <2>4, <2>7
    <3>4. (a + r) * s + b * (n + 1) >= 0
      BY <2>3, <2>6, <3>3
    <3> QED
      BY <2>6, <3>2, <3>4
  <2>8. CASE x \notin X
    <3>1. (t \ {x}) \cap X = t \cap X
      BY <2>8
    <3>2. a * s >= 0
      BY <2>4, <2>8
    <3>3. (a + r) * s + b * n >= 0
      BY <2>3, <2>6, <3>2
    <3>4. n = Cardinality(t \cap X)
      BY <2>3, <3>1
    <3> QED
      BY <2>6, <3>3, <3>4
  <2> QED
    BY <2>7, <2>8
<1>4. D \in P
  <2> HIDE DEF P
  <2> QED
    BY <1>2, <1>3, SubsetInduction
<1> QED
  BY <1>1, <1>4

\* The least number of a set is in it.
LEMMA MinOfNat ==
    ASSUME NEW S, S \subseteq Nat, S # {}
    PROVE  Min(S) \in S /\ \A y \in S : Min(S) <= y
BY LeastNat DEF Min

=============================================================================
