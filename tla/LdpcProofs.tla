----------------------------- MODULE LdpcProofs -----------------------------
(***************************************************************************)
(* Theorems about the LDPC codes: the elimination returns codewords, for    *)
(* every base graph, lifting and information word; the decoder's list of    *)
(* edges and the encoder's matrix are the same checks; graphs made like the *)
(* tables can always be solved for the parity bits; the decoder is never    *)
(* misled by a link that only erases; and it returns the information sent   *)
(* when the erasures peel, or when weak wrong bits lie apart.               *)
(***************************************************************************)
EXTENDS CompactQc, InductionFacts, TLAPS

-----------------------------------------------------------------------------
(* Parity of sets.                                                         *)

LEMMA ParityType ==
    ASSUME NEW S, IsFiniteSet(S)
    PROVE  Parity(S) \in 0 .. 1 /\ Cardinality(S) \in Nat
BY FS_CardinalityType DEF Parity

LEMMA ParityArithmetic ==
    ASSUME NEW a \in Nat, NEW b \in Nat, NEW i \in Nat, (a + b) - 2 * i \in Nat
    PROVE  /\ (a + b) % 2 = ((a % 2) + (b % 2)) % 2
           /\ ((a + b) - 2 * i) % 2 = ((a % 2) + (b % 2)) % 2
<1>1. PICK x \in Nat : a = 2 * x + (a % 2) /\ (a % 2) \in 0 .. 1
  OBVIOUS
<1>2. PICK y \in Nat : b = 2 * y + (b % 2) /\ (b % 2) \in 0 .. 1
  OBVIOUS
<1> QED
  BY <1>1, <1>2, SMTT(30)

LEMMA DisjointUnion ==
    ASSUME NEW S, NEW T, IsFiniteSet(S), IsFiniteSet(T), S \cap T = {}
    PROVE  Cardinality(S \cup T) = Cardinality(S) + Cardinality(T)
<1>1. Cardinality(S) \in Nat /\ Cardinality(T) \in Nat
  BY FS_CardinalityType
<1>2. Cardinality(S \cup T) = Cardinality(S) + Cardinality(T) - Cardinality(S \cap T)
  BY FS_Union
<1>3. Cardinality(S \cap T) = 0
  BY FS_EmptySet
<1> QED
  BY <1>1, <1>2, <1>3

\* Parity is additive over disjoint sets.
LEMMA ParityUnion ==
    ASSUME NEW S, NEW T, IsFiniteSet(S), IsFiniteSet(T), S \cap T = {}
    PROVE  Parity(S \cup T) = (Parity(S) + Parity(T)) % 2
<1>1. Cardinality(S) \in Nat /\ Cardinality(T) \in Nat
  BY FS_CardinalityType
<1>2. (Cardinality(S) + Cardinality(T)) - 2 * 0 \in Nat
  BY <1>1
<1> QED
  BY <1>1, <1>2, DisjointUnion, ParityArithmetic DEF Parity

\* And over the symmetric difference: adding rows modulo 2.
LEMMA ParitySymDiff ==
    ASSUME NEW S, NEW T, IsFiniteSet(S), IsFiniteSet(T)
    PROVE  Parity(SymDiff(S, T)) = (Parity(S) + Parity(T)) % 2
<1> DEFINE i == Cardinality(S \cap T)
<1>1. Cardinality(S) \in Nat /\ Cardinality(T) \in Nat /\ i \in Nat
  BY FS_CardinalityType, FS_Intersection
<1>2. Cardinality(S \ T) = Cardinality(S) - i /\ IsFiniteSet(S \ T)
  BY FS_Difference
<1>3. Cardinality(T \ S) = Cardinality(T) - i /\ IsFiniteSet(T \ S)
  <2>1. T \cap S = S \cap T
    OBVIOUS
  <2> QED
    BY FS_Difference, <2>1
<1>4. Cardinality((S \ T) \cup (T \ S)) = Cardinality(S \ T) + Cardinality(T \ S)
  <2>1. (S \ T) \cap (T \ S) = {}
    OBVIOUS
  <2> QED
    BY <1>2, <1>3, <2>1, DisjointUnion
<1>5. Cardinality(SymDiff(S, T)) = (Cardinality(S) + Cardinality(T)) - 2 * i
  <2> HIDE DEF i
  <2> QED
    BY <1>1, <1>2, <1>3, <1>4 DEF SymDiff
<1> QED
  <2>1. Cardinality(SymDiff(S, T)) \in Nat
    BY <1>2, <1>3, <1>4, FS_CardinalityType DEF SymDiff
  <2> HIDE DEF i
  <2> QED
    BY <1>1, <1>5, <2>1, ParityArithmetic DEF Parity

-----------------------------------------------------------------------------
(* Systems of equations modulo 2: rows B, right-hand sides b, columns kept  *)
(* in pc(k, m) for m columns from k on.                                     *)

Columns(k, m) == k .. k + m - 1
System(k, m, B, b) ==
    B \in [0 .. m - 1 -> SUBSET Columns(k, m)] /\ b \in [0 .. m - 1 -> 0 .. 1]

\* X solves the system.
Solves(m, B, b, X) == \A r \in 0 .. m - 1 : Parity(B[r] \cap X) = b[r]

\* The first c columns are those of the identity.
Identity(k, m, c, B) == \A r \in 0 .. m - 1 : \A x \in 0 .. c - 1 : k + x \in B[r] <=> x = r

LEMMA SwapSound ==
    ASSUME NEW k \in Nat, NEW m \in Nat, NEW i \in 0 .. m - 1, NEW j \in 0 .. m - 1,
           NEW B, NEW b, System(k, m, B, b)
    PROVE  /\ System(k, m, Swapped(B, i, j), Swapped(b, i, j))
           /\ \A X : Solves(m, Swapped(B, i, j), Swapped(b, i, j), X) => Solves(m, B, b, X)
<1>1. /\ Swapped(B, i, j)[i] = B[j] /\ Swapped(B, i, j)[j] = B[i]
      /\ Swapped(b, i, j)[i] = b[j] /\ Swapped(b, i, j)[j] = b[i]
      /\ \A r \in 0 .. m - 1 : r # i /\ r # j =>
            Swapped(B, i, j)[r] = B[r] /\ Swapped(b, i, j)[r] = b[r]
  BY DEF Swapped, System
<1>2. System(k, m, Swapped(B, i, j), Swapped(b, i, j))
  BY DEF Swapped, System
<1>3. ASSUME NEW X, Solves(m, Swapped(B, i, j), Swapped(b, i, j), X)
      PROVE  Solves(m, B, b, X)
  <2> SUFFICES ASSUME NEW r \in 0 .. m - 1 PROVE Parity(B[r] \cap X) = b[r]
    BY DEF Solves
  <2>1. CASE r = i
    BY <1>1, <1>3, <2>1 DEF Solves
  <2>2. CASE r = j
    BY <1>1, <1>3, <2>2 DEF Solves
  <2>3. CASE r # i /\ r # j
    BY <1>1, <1>3, <2>3 DEF Solves
  <2> QED
    BY <2>1, <2>2, <2>3
<1> QED
  BY <1>2, <1>3

\* Rows of a system are finite.
LEMMA RowsFinite ==
    ASSUME NEW k \in Nat, NEW m \in Nat, NEW B, NEW b, System(k, m, B, b), NEW r \in 0 .. m - 1, NEW X
    PROVE  IsFiniteSet(B[r] \cap X) /\ B[r] \subseteq Columns(k, m) /\ Parity(B[r] \cap X) \in 0 .. 1
<1>1. IsFiniteSet(Columns(k, m))
  BY FS_Interval DEF Columns
<1>2. B[r] \subseteq Columns(k, m)
  BY DEF System
<1>3. IsFiniteSet(B[r] \cap X)
  BY <1>1, <1>2, FS_Subset
<1> QED
  BY <1>2, <1>3, ParityType

LEMMA ReduceSound ==
    ASSUME NEW k \in Nat, NEW m \in Nat, NEW c \in 0 .. m - 1,
           NEW B, NEW b, System(k, m, B, b), Tail(B, k, c) = B[c]
    PROVE  /\ System(k, m, Reduced(B, k, c), ReducedRhs(B, b, k, c))
           /\ \A X : Solves(m, Reduced(B, k, c), ReducedRhs(B, b, k, c), X) => Solves(m, B, b, X)
<1>1. DOMAIN B = 0 .. m - 1
  BY DEF System
<1>2. System(k, m, Reduced(B, k, c), ReducedRhs(B, b, k, c))
  <2>1. ASSUME NEW r \in 0 .. m - 1
        PROVE  /\ Reduced(B, k, c)[r] \subseteq Columns(k, m)
               /\ ReducedRhs(B, b, k, c)[r] \in 0 .. 1
    <3>1. B[r] \subseteq Columns(k, m) /\ B[c] \subseteq Columns(k, m)
      BY DEF System
    <3>2. b[r] \in 0 .. 1 /\ b[c] \in 0 .. 1
      BY DEF System
    <3>3. (b[r] + b[c]) % 2 \in 0 .. 1
      BY <3>2
    <3> QED
      BY <1>1, <3>1, <3>2, <3>3 DEF Reduced, ReducedRhs, SymDiff
  <2> QED
    BY <1>1, <2>1 DEF System, Reduced, ReducedRhs
<1>3. ASSUME NEW X, Solves(m, Reduced(B, k, c), ReducedRhs(B, b, k, c), X)
      PROVE  Solves(m, B, b, X)
  <2>1. Parity(B[c] \cap X) = b[c]
    <3>1. Reduced(B, k, c)[c] = B[c] /\ ReducedRhs(B, b, k, c)[c] = b[c]
      BY <1>1 DEF Reduced, ReducedRhs, Hit
    <3> QED
      BY <1>3, <3>1 DEF Solves
  <2> SUFFICES ASSUME NEW r \in 0 .. m - 1 PROVE Parity(B[r] \cap X) = b[r]
    BY DEF Solves
  <2>2. CASE ~Hit(B, k, c, r)
    BY <1>1, <1>3, <2>2 DEF Solves, Reduced, ReducedRhs
  <2>3. CASE Hit(B, k, c, r)
    <3>1. Reduced(B, k, c)[r] = SymDiff(B[r], B[c])
      BY <1>1, <2>3 DEF Reduced
    <3>2. ReducedRhs(B, b, k, c)[r] = (b[r] + b[c]) % 2
      BY <1>1, <2>3 DEF ReducedRhs
    <3>3. SymDiff(B[r], B[c]) \cap X = SymDiff(B[r] \cap X, B[c] \cap X)
      BY DEF SymDiff
    <3>4. IsFiniteSet(B[r] \cap X) /\ IsFiniteSet(B[c] \cap X) /\ Parity(B[r] \cap X) \in 0 .. 1
      BY RowsFinite
    <3>5. Parity(SymDiff(B[r], B[c]) \cap X) = (Parity(B[r] \cap X) + b[c]) % 2
      BY <2>1, <3>3, <3>4, ParitySymDiff
    <3>6. Parity(SymDiff(B[r], B[c]) \cap X) = (b[r] + b[c]) % 2
      BY <1>3, <3>1, <3>2 DEF Solves
    <3>7. b[r] \in 0 .. 1 /\ b[c] \in 0 .. 1
      BY DEF System
    <3> DEFINE z == Parity(B[r] \cap X)
    <3>8. (z + b[c]) % 2 = (b[r] + b[c]) % 2 /\ z \in 0 .. 1
      BY <3>4, <3>5, <3>6
    <3> HIDE DEF z
    <3>9. z = b[r]
      BY <3>7, <3>8
    <3> QED
      BY <3>9 DEF z
  <2> QED
    BY <2>2, <2>3
<1> QED
  BY <1>2, <1>3

LEMMA SwapIdentity ==
    ASSUME NEW k \in Nat, NEW m \in Nat, NEW c \in 0 .. m - 1, NEW i \in c .. m - 1,
           NEW B, NEW b, System(k, m, B, b), Identity(k, m, c, B), k + c \in B[i]
    PROVE  Identity(k, m, c, Swapped(B, c, i)) /\ k + c \in Swapped(B, c, i)[c]
<1>1. i \in 0 .. m - 1 /\ c \in DOMAIN B /\ i \in DOMAIN B
  BY DEF System
<1>2. /\ Swapped(B, c, i)[c] = B[i] /\ Swapped(B, c, i)[i] = B[c]
      /\ \A r \in 0 .. m - 1 : r # c /\ r # i => Swapped(B, c, i)[r] = B[r]
  BY <1>1 DEF Swapped, System
<1>3. ASSUME NEW r \in 0 .. m - 1, NEW x \in 0 .. c - 1
      PROVE  k + x \in Swapped(B, c, i)[r] <=> x = r
  <2>1. k + x \notin B[c] /\ k + x \notin B[i]
    BY <1>1 DEF Identity
  <2>2. x # c /\ x # i
    OBVIOUS
  <2>3. CASE r = c \/ r = i
    BY <1>2, <2>1, <2>2, <2>3
  <2>4. CASE r # c /\ r # i
    BY <1>2, <2>4 DEF Identity
  <2> QED
    BY <2>3, <2>4
<1> QED
  BY <1>2, <1>3 DEF Identity

\* The loop may start at the column of the pivot, and makes that column a column of
\* the identity without touching the ones before.
LEMMA ReduceIdentity ==
    ASSUME NEW k \in Nat, NEW m \in Nat, NEW c \in 0 .. m - 1,
           NEW B, NEW b, System(k, m, B, b), Identity(k, m, c, B), k + c \in B[c]
    PROVE  Tail(B, k, c) = B[c] /\ Identity(k, m, c + 1, Reduced(B, k, c))
<1>1. DOMAIN B = 0 .. m - 1 /\ B[c] \subseteq Columns(k, m)
  BY DEF System
<1>2. \A x \in 0 .. c - 1 : k + x \notin B[c]
  BY DEF Identity
<1>3. Tail(B, k, c) = B[c]
  <2>1. ASSUME NEW y \in B[c] PROVE y >= k + c
    <3>1. y \in Columns(k, m)
      BY <1>1
    <3>2. CASE y < k + c
      <4>1. y - k \in 0 .. c - 1 /\ k + (y - k) = y
        BY <3>1, <3>2 DEF Columns
      <4> QED
        BY <1>2, <4>1
    <3> QED
      BY <3>1, <3>2 DEF Columns
  <2> QED
    BY <2>1 DEF Tail
<1>4. ASSUME NEW r \in 0 .. m - 1, NEW x \in 0 .. c
      PROVE  k + x \in Reduced(B, k, c)[r] <=> x = r
  <2>1. CASE x < c
    <3>1. k + x \notin B[c] /\ (k + x \in B[r] <=> x = r)
      BY <1>2, <2>1 DEF Identity
    <3> QED
      BY <1>1, <1>3, <3>1 DEF Reduced, SymDiff
  <2>2. CASE x = c /\ r = c
    BY <1>1, <2>2 DEF Reduced, Hit
  <2>3. CASE x = c /\ r # c
    <3>1. CASE k + c \in B[r]
      BY <1>1, <1>3, <2>3, <3>1 DEF Reduced, Hit, SymDiff
    <3>2. CASE k + c \notin B[r]
      BY <1>1, <2>3, <3>2 DEF Reduced, Hit
    <3> QED
      BY <3>1, <3>2
  <2> QED
    BY <2>1, <2>2, <2>3
<1> QED
  BY <1>3, <1>4 DEF Identity

\* The right-hand sides solve a system that has become the identity.
LEMMA IdentitySolved ==
    ASSUME NEW k \in Nat, NEW m \in Nat, NEW B, NEW b, System(k, m, B, b), Identity(k, m, m, B)
    PROVE  Solved(b, k) \subseteq Columns(k, m) /\ Solves(m, B, b, Solved(b, k))
<1>1. DOMAIN b = 0 .. m - 1 /\ Solved(b, k) \subseteq Columns(k, m)
  BY DEF System, Solved, Columns
<1>2. ASSUME NEW r \in 0 .. m - 1 PROVE Parity(B[r] \cap Solved(b, k)) = b[r]
  <2>1. B[r] = {k + r}
    <3>1. ASSUME NEW y \in B[r] PROVE y = k + r
      <4>1. y \in Columns(k, m)
        BY DEF System
      <4>2. y - k \in 0 .. m - 1 /\ k + (y - k) = y
        BY <4>1 DEF Columns
      <4>3. k + (y - k) \in B[r] <=> y - k = r
        BY <4>2 DEF Identity
      <4> QED
        BY <4>2, <4>3
    <3>2. k + r \in B[r]
      BY DEF Identity
    <3> QED
      BY <3>1, <3>2
  <2>2. k + r \in Solved(b, k) <=> b[r] = 1
    <3>1. ASSUME k + r \in Solved(b, k) PROVE b[r] = 1
      <4>1. PICK x \in {y \in DOMAIN b : b[y] = 1} : k + r = k + x
        BY <3>1 DEF Solved
      <4>2. x = r
        BY <1>1, <4>1
      <4> QED
        BY <4>2
    <3> QED
      BY <1>1, <3>1 DEF Solved
  <2>3. Parity({k + r}) = 1 /\ Parity({}) = 0
    <3>1. Cardinality({k + r}) = 1
      BY FS_Singleton
    <3>2. Cardinality({}) = 0
      BY FS_EmptySet
    <3> QED
      BY <3>1, <3>2 DEF Parity
  <2>4. CASE b[r] = 1
    <3>1. B[r] \cap Solved(b, k) = {k + r}
      BY <2>1, <2>2, <2>4
    <3> QED
      BY <2>3, <2>4, <3>1
  <2>5. CASE b[r] = 0
    <3>1. B[r] \cap Solved(b, k) = {}
      BY <2>1, <2>2, <2>5
    <3> QED
      BY <2>3, <2>5, <3>1
  <2>6. b[r] \in 0 .. 1
    BY DEF System
  <2> QED
    BY <2>4, <2>5, <2>6
<1> QED
  BY <1>1, <1>2 DEF Solves

-----------------------------------------------------------------------------
(* The encoder: every solution of the system being eliminated solves the   *)
(* checks of H, so the one found in the end does.                           *)

\* Parity bits X make the checks of h even for the word w.
Completes(m, h, w, X) == \A r \in 0 .. m - 1 : Parity(h[r] \cap X) = Parity(h[r] \cap w)

Eliminating(k, m, n, h, B, b, c, w) ==
    /\ k \in Nat /\ m \in Nat /\ c \in 0 .. m /\ n \in Int
    /\ h \in [0 .. m - 1 -> SUBSET (0 .. n - 1)]
    /\ w \subseteq 0 .. k - 1
    /\ System(k, m, B, b)
    /\ Identity(k, m, c, B)
    /\ \A X \in SUBSET Columns(k, m) : Solves(m, B, b, X) => Completes(m, h, w, X)

\* A column.
LEMMA EliminateStep ==
    ASSUME NEW k, NEW m, NEW n, NEW h, NEW B, NEW b, NEW c, NEW w,
           Eliminating(k, m, n, h, B, b, c, w), c < m,
           NEW i \in c .. m - 1, k + c \in B[i]
    PROVE  Eliminating(k, m, n, h, Reduced(Swapped(B, c, i), k, c),
                       ReducedRhs(Swapped(B, c, i), Swapped(b, c, i), k, c), c + 1, w)
<1> DEFINE B1 == Swapped(B, c, i)
           b1 == Swapped(b, c, i)
<1>1. k \in Nat /\ m \in Nat /\ c \in 0 .. m - 1 /\ i \in 0 .. m - 1
  BY DEF Eliminating
<1>2. System(k, m, B, b) /\ Identity(k, m, c, B)
  BY DEF Eliminating
<1>3. System(k, m, B1, b1) /\ \A X : Solves(m, B1, b1, X) => Solves(m, B, b, X)
  BY <1>1, <1>2, SwapSound
<1>4. Identity(k, m, c, B1) /\ k + c \in B1[c]
  BY <1>1, <1>2, SwapIdentity
<1> HIDE DEF B1, b1
<1>5. Tail(B1, k, c) = B1[c] /\ Identity(k, m, c + 1, Reduced(B1, k, c))
  BY <1>1, <1>3, <1>4, ReduceIdentity
<1>6. /\ System(k, m, Reduced(B1, k, c), ReducedRhs(B1, b1, k, c))
      /\ \A X : Solves(m, Reduced(B1, k, c), ReducedRhs(B1, b1, k, c), X) => Solves(m, B1, b1, X)
  BY <1>1, <1>3, <1>5, ReduceSound
<1>7. \A X \in SUBSET Columns(k, m) :
        Solves(m, Reduced(B1, k, c), ReducedRhs(B1, b1, k, c), X) => Completes(m, h, w, X)
  BY <1>3, <1>6 DEF Eliminating
<1>8. Eliminating(k, m, n, h, Reduced(B1, k, c), ReducedRhs(B1, b1, k, c), c + 1, w)
  BY <1>1, <1>5, <1>6, <1>7 DEF Eliminating
<1> QED
  BY <1>8 DEF B1, b1

\* The end: the information and the solution together are a codeword.
LEMMA FinishStep ==
    ASSUME NEW k, NEW m, NEW n, NEW h, NEW B, NEW b, NEW w,
           Eliminating(k, m, n, h, B, b, m, w)
    PROVE  /\ syndrome_ok(h, w \cup Solved(b, k))
           /\ (w \cup Solved(b, k)) \cap (0 .. k - 1) = w
<1> DEFINE X == Solved(b, k)
<1>1. /\ k \in Nat /\ m \in Nat /\ n \in Int /\ w \subseteq 0 .. k - 1
      /\ h \in [0 .. m - 1 -> SUBSET (0 .. n - 1)]
      /\ System(k, m, B, b) /\ Identity(k, m, m, B)
  BY DEF Eliminating
<1>2. X \subseteq Columns(k, m) /\ Solves(m, B, b, X)
  BY <1>1, IdentitySolved
<1> HIDE DEF X
<1>3. Completes(m, h, w, X)
  BY <1>2 DEF Eliminating
<1>4. ASSUME NEW r \in 0 .. m - 1 PROVE Parity(h[r] \cap (w \cup X)) = 0
  <2>1. IsFiniteSet(h[r])
    <3>1. n - 1 \in Int /\ h[r] \in SUBSET (0 .. n - 1)
      BY <1>1
    <3>2. IsFiniteSet(0 .. n - 1)
      BY <3>1, FS_Interval
    <3> QED
      BY <3>1, <3>2, FS_Subset
  <2>2. IsFiniteSet(h[r] \cap w) /\ IsFiniteSet(h[r] \cap X)
    BY <2>1, FS_Intersection
  <2>3. (h[r] \cap w) \cap (h[r] \cap X) = {}
    BY <1>1, <1>2 DEF Columns
  <2>4. h[r] \cap (w \cup X) = (h[r] \cap w) \cup (h[r] \cap X)
    OBVIOUS
  <2>5. Parity(h[r] \cap X) = Parity(h[r] \cap w) /\ Parity(h[r] \cap w) \in 0 .. 1
    BY <1>3, <2>2, ParityType DEF Completes
  <2>6. Parity(h[r] \cap (w \cup X)) = (Parity(h[r] \cap w) + Parity(h[r] \cap w)) % 2
    BY <2>2, <2>3, <2>4, <2>5, ParityUnion
  <2> QED
    BY <2>5, <2>6
<1>5. syndrome_ok(h, w \cup X)
  BY <1>1, <1>4 DEF syndrome_ok
<1>6. (w \cup X) \cap (0 .. k - 1) = w
  <2>1. ASSUME NEW y \in X PROVE y \notin 0 .. k - 1
    <3>1. y \in k .. k + m - 1
      BY <1>2 DEF Columns
    <3> QED
      BY <1>1, <3>1
  <2> QED
    BY <1>1, <2>1
<1> QED
  BY <1>5, <1>6 DEF X

\* The beginning: the system is the parity columns of the matrix, and what the
\* information adds to each check.
LEMMA SetupStep ==
    ASSUME NEW k \in Nat, NEW m \in Nat, NEW n \in Int,
           NEW h \in [0 .. m - 1 -> SUBSET (0 .. n - 1)], NEW w \in SUBSET (0 .. k - 1)
    PROVE  Eliminating(k, m, n, h, [r \in 0 .. m - 1 |-> h[r] \cap (k .. k + m - 1)],
                       [r \in 0 .. m - 1 |-> Parity(h[r] \cap w)], 0, w)
<1> DEFINE B == [r \in 0 .. m - 1 |-> h[r] \cap (k .. k + m - 1)]
           b == [r \in 0 .. m - 1 |-> Parity(h[r] \cap w)]
<1>1. ASSUME NEW r \in 0 .. m - 1 PROVE b[r] \in 0 .. 1
  <2>1. n - 1 \in Int /\ h[r] \in SUBSET (0 .. n - 1)
    OBVIOUS
  <2>2. IsFiniteSet(0 .. n - 1)
    BY <2>1, FS_Interval
  <2>3. IsFiniteSet(h[r] \cap w)
    BY <2>1, <2>2, FS_Subset, FS_Intersection
  <2> QED
    BY <2>3, ParityType
<1>2. System(k, m, B, b)
  BY <1>1 DEF System, Columns
<1>3. Identity(k, m, 0, B)
  BY DEF Identity
<1>4. ASSUME NEW X \in SUBSET Columns(k, m), Solves(m, B, b, X)
      PROVE  Completes(m, h, w, X)
  <2> SUFFICES ASSUME NEW r \in 0 .. m - 1 PROVE Parity(h[r] \cap X) = Parity(h[r] \cap w)
    BY DEF Completes
  <2>1. B[r] \cap X = h[r] \cap X
    BY DEF Columns
  <2> QED
    BY <1>4, <2>1 DEF Solves
<1> HIDE DEF B, b
<1>5. Eliminating(k, m, n, h, B, b, 0, w)
  BY <1>2, <1>3, <1>4 DEF Eliminating
<1> QED
  BY <1>5 DEF B, b

-----------------------------------------------------------------------------
(* Graphs: what make_graph builds has sizes the encoder can use.           *)

GoodGraph(h) == h.zc \in Nat \ {0} /\ h.kb \in Nat /\ h.mb \in Nat /\ h.nb \in Nat

LEMMA LiftingSizesNat == LiftingSizes \subseteq Nat \ {0}
<1>1. ASSUME NEW i \in 1 .. 8 PROVE LiftingSets[i] \subseteq Nat \ {0}
  <2>1. i = 1 \/ i = 2 \/ i = 3 \/ i = 4 \/ i = 5 \/ i = 6 \/ i = 7 \/ i = 8
    OBVIOUS
  <2> QED
    BY <2>1 DEF LiftingSets
<1> QED
  BY <1>1 DEF LiftingSizes

LEMMA LeastCandidate ==
    ASSUME NEW k, NEW b, Candidates(k, b) # {}
    PROVE  select_lifting(k, b) \in LiftingSizes
<1>1. Candidates(k, b) \subseteq Nat /\ Candidates(k, b) \subseteq LiftingSizes
  BY LiftingSizesNat DEF Candidates
<1>2. PICK z \in Candidates(k, b) : \A y \in Candidates(k, b) : z <= y
  BY <1>1, LeastNat
<1>3. select_lifting(k, b) \in Candidates(k, b)
  BY <1>2 DEF select_lifting
<1> QED
  BY <1>1, <1>3

LEMMA AcceptedGraph ==
    ASSUME NEW q, q.bg \in BaseGraph, q.kb \in Int, q.zc \in Int, q.mb_use \in Int, Accepted(q)
    PROVE  GoodGraph(make_graph(q))
<1>1. ZcOf(q) \in Nat \ {0}
  BY LiftingSizesNat, LeastCandidate DEF Accepted, ZcOf
<1>2. BaseGraphs[q.bg].kb \in Nat /\ BaseGraphs[q.bg].mb \in Nat /\ BaseGraphs[q.bg].nb \in Nat
  BY BaseGraphAssumption
<1>3. KbOf(q) \in Nat
  BY <1>2 DEF KbOf
<1> QED
  BY <1>1, <1>2, <1>3 DEF GoodGraph, make_graph

LEMMA CompactGraph ==
    ASSUME NEW q, NEW w, q.bg \in BaseGraph, q.zc \in Int, q.info_cols \in Int, CompactEncodable(q, w)
    PROVE  GoodGraph(compact_make_graph(q)) /\ w.size = K_of(compact_make_graph(q))
BY DEF CompactEncodable, GoodGraph, compact_make_graph

LEMMA GoodSizes ==
    ASSUME NEW h, GoodGraph(h)
    PROVE  K_of(h) \in Nat /\ M_of(h) \in Nat /\ N_of(h) \in Nat
BY DEF GoodGraph, K_of, M_of, N_of

LEMMA BuiltMatrix ==
    ASSUME NEW h
    PROVE  build_H(h) \in [0 .. M_of(h) - 1 -> SUBSET (0 .. N_of(h) - 1)]
BY DEF build_H

-----------------------------------------------------------------------------
(* The invariant.                                                          *)

Call ==
    \/ code = "nr" /\ p \in Params /\ info \in Words(p)
    \/ code = "compact" /\ p \in CompactParams /\ info \in CompactWords(p)

Coded == {"encoded", "undecodable", "decode", "decoded"}

EncoderInv ==
    /\ Call
    /\ pc \in {"start", "refused", "eliminate", "singular"} \cup Coded
    /\ pc = "eliminate" => Eliminating(K, M, N, H, A, rhs, col, info.ones)
    /\ pc \in Coded => syndrome_ok(H, cw) /\ cw \cap (0 .. K - 1) = info.ones

LEMMA SetupKeeps ==
    ASSUME EncoderInv, NEW h, GoodGraph(h), info.ones \subseteq 0 .. K_of(h) - 1, Setup(h, info)
    PROVE  EncoderInv'
<1>1. Eliminating(K_of(h), M_of(h), N_of(h), build_H(h),
         [r \in 0 .. M_of(h) - 1 |-> build_H(h)[r] \cap (K_of(h) .. K_of(h) + M_of(h) - 1)],
         [r \in 0 .. M_of(h) - 1 |-> Parity(build_H(h)[r] \cap info.ones)], 0, info.ones)
  <2> DEFINE k == K_of(h)
             m == M_of(h)
             n == N_of(h)
             B == build_H(h)
             w == info.ones
  <2>1. k \in Nat /\ m \in Nat /\ n \in Int /\ w \in SUBSET (0 .. k - 1)
    BY GoodSizes
  <2>2. B \in [0 .. m - 1 -> SUBSET (0 .. n - 1)]
    BY BuiltMatrix
  <2> HIDE DEF k, m, n, B, w
  <2>3. Eliminating(k, m, n, B, [r \in 0 .. m - 1 |-> B[r] \cap (k .. k + m - 1)],
                    [r \in 0 .. m - 1 |-> Parity(B[r] \cap w)], 0, w)
    BY <2>1, <2>2, SetupStep
  <2> QED
    BY <2>3 DEF k, m, n, B, w
<1>2. Eliminating(K, M, N, H, A, rhs, col, info.ones)'
  BY <1>1 DEF Setup, K, M, N
<1>3. pc' = "eliminate" /\ Call'
  BY DEF Setup, EncoderInv, Call
<1> QED
  BY <1>2, <1>3 DEF EncoderInv, Coded

LEMMA EncodeKeeps ==
    ASSUME EncoderInv, encode_ge
    PROVE  EncoderInv'
<1>1. CASE Eliminate
  <2>1. Eliminating(K, M, N, H, A, rhs, col, info.ones) /\ col < M
    BY <1>1 DEF Eliminate, EncoderInv
  <2> DEFINE C == Candidate(A, K, M, col)
  <2>2. C \subseteq col .. M - 1 /\ C # {} /\ col \in Nat /\ M \in Nat
    BY <1>1, <2>1 DEF Candidate, Eliminate, Eliminating
  <2>3. Min(C) \in C
    <3>1. C \subseteq Nat
      BY <2>2
    <3> HIDE DEF C
    <3> QED
      BY <2>2, <3>1, LeastNat DEF Min
  <2> DEFINE piv == Min(C)
  <2>4. piv \in col .. M - 1 /\ K + col \in A[piv]
    BY <2>2, <2>3 DEF Candidate
  <2> HIDE DEF piv
  <2>5. Eliminating(K, M, N, H, Reduced(Swapped(A, col, piv), K, col),
                    ReducedRhs(Swapped(A, col, piv), Swapped(rhs, col, piv), K, col), col + 1, info.ones)
    BY <2>1, <2>4, EliminateStep
  <2>6. /\ A' = Reduced(Swapped(A, col, piv), K, col)
        /\ rhs' = ReducedRhs(Swapped(A, col, piv), Swapped(rhs, col, piv), K, col)
        /\ col' = col + 1
        /\ UNCHANGED <<code, p, info, pc, g, H, cw>>
    BY <1>1 DEF Eliminate, piv
  <2>7. K' = K /\ M' = M /\ N' = N
    BY <2>6 DEF K, M, N
  <2>8. Eliminating(K, M, N, H, A, rhs, col, info.ones)'
    BY <2>5, <2>6, <2>7
  <2>9. pc' = "eliminate" /\ Call'
    BY <1>1, <2>6 DEF Eliminate, EncoderInv, Call
  <2> QED
    BY <2>8, <2>9 DEF EncoderInv, Coded
<1>2. CASE Singular
  BY <1>2 DEF Singular, EncoderInv, Call, Coded, K, M, N
<1>3. CASE Finish
  <2>1. Eliminating(K, M, N, H, A, rhs, M, info.ones)
    BY <1>3 DEF Finish, EncoderInv
  <2>2. /\ syndrome_ok(H, info.ones \cup Solved(rhs, K))
        /\ (info.ones \cup Solved(rhs, K)) \cap (0 .. K - 1) = info.ones
    BY <2>1, FinishStep
  <2>3. cw' = info.ones \cup Solved(rhs, K) /\ pc' = "encoded" /\ UNCHANGED <<code, p, info, g, H>>
    BY <1>3 DEF Finish
  <2>4. (syndrome_ok(H, cw) /\ cw \cap (0 .. K - 1) = info.ones)'
    BY <2>2, <2>3 DEF K
  <2> QED
    BY <2>3, <2>4 DEF EncoderInv, Call, Coded
<1> QED
  BY <1>1, <1>2, <1>3 DEF encode_ge

\* Steps that leave the encoder's result alone.
LEMMA QuietKeeps ==
    ASSUME EncoderInv, UNCHANGED <<code, p, info, g, H, A, rhs, col, cw>>,
           \/ pc' = pc
           \/ pc = "start" /\ pc' = "refused"
           \/ pc \in Coded /\ pc' \in Coded
    PROVE  EncoderInv'
BY DEF EncoderInv, Call, Coded, K, M, N

LEMMA BeginKeeps ==
    ASSUME EncoderInv, Begin
    PROVE  EncoderInv'
<1> DEFINE q == WithSize(p, info)
<1>1. p \in LdpcParams /\ info.size \in Nat /\ info.ones \subseteq 0 .. info.size - 1
  BY ParamsAssumption DEF Begin, EncoderInv, Call
<1>2. q.bg \in BaseGraph /\ q.kb \in Int /\ q.zc \in Int /\ q.mb_use \in Int
  BY <1>1 DEF WithSize, LdpcParams
<1>3. Accepted(q) /\ info.size <= K_of(make_graph(q)) /\ Setup(make_graph(q), info)
  BY DEF Begin, Encodable
<1> DEFINE h == make_graph(q)
<1> HIDE DEF q
<1>4. GoodGraph(h)
  BY <1>2, <1>3, AcceptedGraph
<1>5. K_of(h) \in Nat
  BY <1>4, GoodSizes
<1> HIDE DEF h
<1>6. info.size <= K_of(h) /\ Setup(h, info)
  BY <1>3 DEF h
<1>7. info.ones \subseteq 0 .. K_of(h) - 1
  BY <1>1, <1>5, <1>6
<1> QED
  BY <1>4, <1>6, <1>7, SetupKeeps

LEMMA CompactBeginKeeps ==
    ASSUME EncoderInv, CompactBegin
    PROVE  EncoderInv'
<1> DEFINE h == compact_make_graph(p)
<1>1. /\ p.bg \in BaseGraph /\ p.zc \in Int /\ p.info_cols \in Int
      /\ info.ones \subseteq 0 .. info.size - 1
  BY CompactAssumption DEF CompactBegin, EncoderInv, Call
<1>2. CompactEncodable(p, info) /\ Setup(h, info)
  BY DEF CompactBegin
<1>3. GoodGraph(h) /\ info.size = K_of(h)
  BY <1>1, <1>2, CompactGraph
<1> HIDE DEF h
<1> QED
  BY <1>1, <1>2, <1>3, SetupKeeps

\* What the steps other than the encoder's do to it.
LEMMA QuietSteps ==
    ASSUME \/ Refuse \/ CompactRefuse \/ Decode \/ CompactTransmit \/ decode_minsum
    PROVE  /\ UNCHANGED <<code, p, info, g, H, A, rhs, col, cw>>
           /\ \/ pc' = pc
              \/ pc = "start" /\ pc' = "refused"
              \/ pc \in Coded /\ pc' \in Coded
BY DEF Refuse, CompactRefuse, Decode, CompactTransmit, Transmit, RefuseDecode, decode_minsum,
       Iterate, Stop, GiveUp, Return, encoder, Coded

\* The steps of both codes, sorted by what they do to the encoder.
LEMMA StepCases ==
    ASSUME CodesNext
    PROVE  \/ Begin \/ CompactBegin \/ encode_ge
           \/ Refuse \/ CompactRefuse \/ Decode \/ CompactTransmit \/ decode_minsum
BY DEF CodesNext, CompactNext, Next, Encode, compact_encode_ge, compact_decode_minsum

LEMMA EncoderInvInit == CodesInit => EncoderInv
BY DEF CodesInit, Init, EncInit, CompactInit, Blank, EncoderInv, Call, Coded

LEMMA EncoderInvStep ==
    ASSUME EncoderInv, [CodesNext]_vars
    PROVE  EncoderInv'
<1>1. CASE Begin
  BY <1>1, BeginKeeps
<1>2. CASE CompactBegin
  BY <1>2, CompactBeginKeeps
<1>3. CASE encode_ge
  BY <1>3, EncodeKeeps
<1>4. CASE Refuse \/ CompactRefuse \/ Decode \/ CompactTransmit \/ decode_minsum
  BY <1>4, QuietSteps, QuietKeeps
<1>5. CASE UNCHANGED vars
  <2>1. UNCHANGED <<code, p, info, g, H, A, rhs, col, cw>> /\ pc' = pc
    BY <1>5 DEF vars, encoder
  <2> QED
    BY <2>1, QuietKeeps
<1> QED
  BY <1>1, <1>2, <1>3, <1>4, <1>5, StepCases

\* The encoder's invariant holds of every call on either code.
THEOREM EncoderInvariant == CodesSpec => []EncoderInv
BY EncoderInvInit, EncoderInvStep, PTL DEF CodesSpec

\* Whatever the base graph, the lifting and the information, what the encoder
\* returns holds the information and satisfies every check (ldpc.cpp:110-148, and
\* compact_qc_ldpc.cpp:76-111).
THEOREM EncodedTheorem == CodesSpec => []EncodedIsCodeword
<1>1. EncoderInv => EncodedIsCodeword
  BY DEF EncoderInv, Coded, EncodedIsCodeword
<1> QED
  BY <1>1, EncoderInvariant, PTL

-----------------------------------------------------------------------------
(* The matrix and the list of edges are the same checks.                   *)

LEMMA QuotientUnique ==
    ASSUME NEW d \in Nat \ {0}, NEW a \in Nat, NEW q \in Nat, NEW z \in 0 .. d - 1, NEW r \in 0 .. d - 1,
           a * d + z = q * d + r
    PROVE  a = q /\ z = r
<1>1. d * (a - q) = r - z
  OBVIOUS
<1>2. ~(a - q >= 1)
  <2>1. ASSUME a - q >= 1 PROVE FALSE
    <3>1. d * (a - q) >= d
      BY <2>1
    <3> QED
      BY <1>1, <3>1
  <2> QED
    BY <2>1
<1>3. ~(q - a >= 1)
  <2>1. ASSUME q - a >= 1 PROVE FALSE
    <3>1. d * (q - a) >= d
      BY <2>1
    <3>2. d * (q - a) = z - r
      OBVIOUS
    <3> QED
      BY <3>1, <3>2
  <2> QED
    BY <2>1
<1>4. a = q
  BY <1>2, <1>3
<1> QED
  BY <1>1, <1>4

EdgesOK(h) ==
    /\ \A e \in h.edges : /\ e.row \in 0 .. h.mb - 1 /\ e.col \in 0 .. h.nb - 1
                           /\ e.shift[h.i_ls + 1] \in Int
    /\ \A e, f \in h.edges : e.row = f.row /\ e.col = f.col => e = f

\* A position in a column of the lifted graph is a position in the word.
LEMMA InColumn ==
    ASSUME NEW n \in Nat, NEW d \in Nat \ {0}, NEW a \in Nat, a <= n - 1, NEW y \in 0 .. d - 1
    PROVE  a * d + y \in 0 .. n * d - 1
<1>1. a * d \in Nat /\ n * d \in Nat
  OBVIOUS
<1>2. PICK k \in Nat : n = a + 1 + k
  <2>1. n - 1 - a \in Nat /\ n = a + 1 + (n - 1 - a)
    OBVIOUS
  <2> QED
    BY <2>1
<1>3. k * d \in Nat
  OBVIOUS
<1>4. n * d = a * d + d + k * d
  BY <1>2
<1> QED
  BY <1>1, <1>3, <1>4

\* Where a copy of an edge is.
LEMMA CopyRange ==
    ASSUME NEW h, GoodGraph(h), EdgesOK(h), NEW e \in Live(h), NEW z \in 0 .. h.zc - 1
    PROVE  /\ \E y \in 0 .. h.zc - 1 : VarOf(h, e, z) = e.col * h.zc + y
           /\ VarOf(h, e, z) \in 0 .. N_of(h) - 1
           /\ CheckOf(h, e, z) = e.row * h.zc + z
<1>1. h.zc \in Nat \ {0} /\ h.nb \in Nat /\ e.col \in Nat /\ e.col <= h.nb - 1 /\ e.shift[h.i_ls + 1] \in Int
  BY DEF Live, EdgesOK, GoodGraph
<1> DEFINE s == e.shift[h.i_ls + 1] % h.zc
           y == (z + s) % h.zc
<1>2. s \in Nat
  BY <1>1
<1>3. y \in 0 .. h.zc - 1
  <2> HIDE DEF s
  <2>1. z + s \in Nat
    BY <1>2
  <2> QED
    BY <1>1, <2>1
<1>4. VarOf(h, e, z) = e.col * h.zc + y
  BY DEF VarOf, lifted_var, mod_shift
<1> HIDE DEF s, y
<1>5. e.col * h.zc + y \in 0 .. N_of(h) - 1
  BY <1>1, <1>3, InColumn DEF N_of
<1> QED
  BY <1>3, <1>4, <1>5 DEF CheckOf

LEMMA Quotient ==
    ASSUME NEW c \in Nat, NEW d \in Nat \ {0}
    PROVE  c % d \in 0 .. d - 1 /\ c \div d \in Nat /\ c = (c \div d) * d + (c % d)
OBVIOUS

LEMMA RowsAreEdges ==
    ASSUME NEW h, GoodGraph(h), EdgesOK(h), NEW c \in 0 .. M_of(h) - 1, NEW v
    PROVE  v \in build_H(h)[c] <=> <<c, v>> \in expand_edges(h)
<1>1. h.zc \in Nat \ {0} /\ M_of(h) \in Nat /\ c \in Nat
  BY GoodSizes DEF GoodGraph
<1> DEFINE z == c % h.zc
           q == c \div h.zc
           hits(x) == {e \in {f \in Live(h) : f.row = q} : VarOf(h, e, z) = x}
<1>2. z \in 0 .. h.zc - 1 /\ q \in Nat /\ c = q * h.zc + z
  BY <1>1, Quotient
<1>3. build_H(h)[c] = {x \in 0 .. N_of(h) - 1 : Parity(hits(x)) = 1}
  BY DEF build_H
<1> HIDE DEF z, q
<1>4. ASSUME v \in build_H(h)[c] PROVE <<c, v>> \in expand_edges(h)
  <2>1. hits(v) # {}
    <3>1. Parity({}) = 0
      <4>1. Cardinality({}) = 0
        BY FS_EmptySet
      <4> QED
        BY <4>1 DEF Parity
    <3>2. Parity(hits(v)) = 1
      BY <1>3, <1>4
    <3> HIDE DEF hits
    <3> QED
      BY <3>1, <3>2
  <2>2. PICK e \in Live(h) : e.row = q /\ VarOf(h, e, z) = v
    BY <2>1
  <2>3. CheckOf(h, e, z) = c
    BY <1>2, <2>2 DEF CheckOf
  <2> QED
    BY <1>2, <2>2, <2>3 DEF expand_edges
<1>5. ASSUME <<c, v>> \in expand_edges(h) PROVE v \in build_H(h)[c]
  <2>1. PICK e \in Live(h), x \in 0 .. h.zc - 1 : <<c, v>> = <<CheckOf(h, e, x), VarOf(h, e, x)>>
    BY <1>5 DEF expand_edges
  <2>2. c = e.row * h.zc + x /\ v = VarOf(h, e, x) /\ v \in 0 .. N_of(h) - 1
    BY <2>1, CopyRange
  <2>3. e.row \in Nat
    BY DEF Live, EdgesOK
  <2>4. e.row = q /\ x = z
    <3>1. e.row * h.zc + x = q * h.zc + z
      BY <1>2, <2>2
    <3> QED
      BY <1>1, <1>2, <2>3, <3>1, QuotientUnique, ZenonT(30)
  <2>5. e \in hits(v)
    BY <2>2, <2>4
  <2>6. ASSUME NEW f \in hits(v) PROVE f = e
    <3>1. f \in Live(h) /\ f.row = q /\ VarOf(h, f, z) = v
      BY <2>6
    <3>2. PICK y1 \in 0 .. h.zc - 1 : v = f.col * h.zc + y1
      BY <1>2, <3>1, CopyRange
    <3>3. PICK y2 \in 0 .. h.zc - 1 : v = e.col * h.zc + y2
      BY <1>2, <2>2, <2>4, CopyRange
    <3>4. f.col \in Nat /\ e.col \in Nat
      BY <3>1 DEF Live, EdgesOK
    <3>5. f.col = e.col
      BY <1>1, <3>2, <3>3, <3>4, QuotientUnique
    <3> QED
      BY <2>4, <3>1, <3>5 DEF Live, EdgesOK
  <2>7. hits(v) = {e}
    BY <2>5, <2>6
  <2>8. Parity({e}) = 1
    <3>1. Cardinality({e}) = 1
      BY FS_Singleton
    <3> QED
      BY <3>1 DEF Parity
  <2> HIDE DEF hits
  <2> QED
    BY <1>3, <2>2, <2>7, <2>8
<1> QED
  BY <1>4, <1>5

\* The edges of a check to the ones of a word.
OnesOver(edges, c, S) == {e \in edges : e[1] = c /\ e[2] \in S}

\* A check counts as many ones over its edges as over its row.
LEMMA SameParity ==
    ASSUME NEW h, GoodGraph(h), EdgesOK(h), NEW c \in 0 .. M_of(h) - 1, NEW S
    PROVE  Parity(OnesOver(expand_edges(h), c, S)) = Parity(build_H(h)[c] \cap S)
<1> DEFINE T == {e \in expand_edges(h) : e[1] = c /\ e[2] \in S}
           R == build_H(h)[c] \cap S
           f == [v \in R |-> <<c, v>>]
<1>1. \A v \in R : f[v] \in T
  BY RowsAreEdges
<1>2. \A e \in T : e = <<c, e[2]>> /\ e[2] \in R
  <2> SUFFICES ASSUME NEW e \in T PROVE e = <<c, e[2]>> /\ e[2] \in R
    OBVIOUS
  <2>1. e = <<c, e[2]>>
    BY DEF expand_edges
  <2> QED
    BY <2>1, RowsAreEdges
<1>3. f \in Bijection(R, T)
  <2>1. f \in [R -> T]
    BY <1>1
  <2>2. \A v, w \in R : f[v] = f[w] => v = w
    OBVIOUS
  <2>3. \A e \in T : \E v \in R : f[v] = e
    BY <1>2
  <2> HIDE DEF f, R, T
  <2> QED
    BY <2>1, <2>2, <2>3 DEF Bijection, Injection, Surjection, IsInjective
<1>4. IsFiniteSet(R)
  <2>1. N_of(h) \in Nat /\ build_H(h)[c] \in SUBSET (0 .. N_of(h) - 1)
    BY GoodSizes, BuiltMatrix
  <2>2. N_of(h) - 1 \in Int
    BY <2>1
  <2>3. IsFiniteSet(0 .. N_of(h) - 1)
    BY <2>2, FS_Interval
  <2> QED
    BY <2>1, <2>3, FS_Subset
<1> HIDE DEF T, R, f
<1>5. ExistsBijection(R, T)
  BY <1>3 DEF ExistsBijection
<1>6. Cardinality(T) = Cardinality(R)
  BY <1>4, <1>5, FS_Bijection
<1> QED
  BY <1>6 DEF Parity, T, R, OnesOver

\* The edges make_graph keeps are edges of a base graph, in the rows and columns
\* it keeps.
LEMMA AcceptedEdges ==
    ASSUME NEW q, q.bg \in BaseGraph, q.kb \in Int, q.zc \in Int, q.mb_use \in Int, Accepted(q)
    PROVE  EdgesOK(make_graph(q))
<1> DEFINE h == make_graph(q)
           G == BaseGraphs[q.bg]
<1>1. /\ \A e \in G.edges : e.row \in 0 .. G.mb - 1 /\ e.col \in 0 .. G.nb - 1
      /\ \A e \in G.edges : \A i \in 1 .. 8 : e.shift[i] \in Int
      /\ \A e, f \in G.edges : e.row = f.row /\ e.col = f.col => e = f
  BY BaseGraphAssumption
<1>2. h.i_ls + 1 \in 1 .. 8
  BY DEF make_graph, Accepted
<1>3. h.edges = {e \in G.edges : e.row < h.mb /\ e.col < h.nb}
  BY DEF make_graph
<1> HIDE DEF h, G
<1>4. \A e \in h.edges : e \in G.edges /\ e.row < h.mb /\ e.col < h.nb
  BY <1>3
<1>5. h.mb \in Int /\ h.nb \in Int
  BY AcceptedGraph DEF h, GoodGraph
<1>6. \A e \in h.edges : /\ e.row \in 0 .. h.mb - 1 /\ e.col \in 0 .. h.nb - 1
                          /\ e.shift[h.i_ls + 1] \in Int
  BY <1>1, <1>2, <1>4, <1>5
<1>7. \A e, f \in h.edges : e.row = f.row /\ e.col = f.col => e = f
  BY <1>1, <1>4
<1> QED
  BY <1>6, <1>7 DEF EdgesOK, h

LEMMA CompactEdges ==
    ASSUME NEW q
    PROVE  EdgesOK(compact_make_graph(q))
<1> DEFINE h == compact_make_graph(q)
<1>1. h.i_ls + 1 = 1 /\ h.mb = 4
  BY DEF compact_make_graph
<1>2. CASE q.bg = "BG1"
  <2>1. h.nb = 10 /\ h.edges = COMPACT_BG1_EDGES
    BY <1>2 DEF compact_make_graph
  <2> HIDE DEF h
  <2>2. \A e \in COMPACT_BG1_EDGES : e.row \in 0 .. 3 /\ e.col \in 0 .. 9 /\ e.shift[1] \in Int
    BY DEF COMPACT_BG1_EDGES, E, Same
  <2>3. \A e, f \in COMPACT_BG1_EDGES : e.row = f.row /\ e.col = f.col => e = f
    BY DEF COMPACT_BG1_EDGES, E
  <2> QED
    BY <1>1, <2>1, <2>2, <2>3 DEF EdgesOK, h
<1>3. CASE q.bg # "BG1"
  <2>1. h.nb = 8 /\ h.edges = COMPACT_BG2_EDGES
    BY <1>3 DEF compact_make_graph
  <2> HIDE DEF h
  <2>2. \A e \in COMPACT_BG2_EDGES : e.row \in 0 .. 3 /\ e.col \in 0 .. 7 /\ e.shift[1] \in Int
    BY DEF COMPACT_BG2_EDGES, E, Same
  <2>3. \A e, f \in COMPACT_BG2_EDGES : e.row = f.row /\ e.col = f.col => e = f
    BY DEF COMPACT_BG2_EDGES, E
  <2> QED
    BY <1>1, <2>1, <2>2, <2>3 DEF EdgesOK, h
<1> QED
  BY <1>2, <1>3

GraphInv ==
    /\ EncoderInv
    /\ pc \notin {"start", "refused"} => GoodGraph(g) /\ EdgesOK(g) /\ H = build_H(g)

LEMMA GraphStep ==
    ASSUME GraphInv, [CodesNext]_vars
    PROVE  GraphInv'
<1>1. EncoderInv'
  BY EncoderInvStep DEF GraphInv
<1>2. CASE Begin
  <2> DEFINE q == WithSize(p, info)
  <2>1. p \in LdpcParams
    BY <1>2, ParamsAssumption DEF Begin, GraphInv, EncoderInv, Call
  <2>2. q.bg \in BaseGraph /\ q.kb \in Int /\ q.zc \in Int /\ q.mb_use \in Int
    BY <2>1 DEF WithSize, LdpcParams
  <2>3. Accepted(q) /\ g' = make_graph(q) /\ H' = build_H(make_graph(q))
    BY <1>2 DEF Begin, Encodable, Setup
  <2> HIDE DEF q
  <2>4. GoodGraph(make_graph(q)) /\ EdgesOK(make_graph(q))
    BY <2>2, <2>3, AcceptedGraph, AcceptedEdges
  <2> QED
    BY <1>1, <2>3, <2>4 DEF GraphInv
<1>3. CASE CompactBegin
  <2>1. p.bg \in BaseGraph /\ p.zc \in Int /\ p.info_cols \in Int
    BY <1>3, CompactAssumption DEF CompactBegin, GraphInv, EncoderInv, Call
  <2>2. CompactEncodable(p, info)
    BY <1>3 DEF CompactBegin
  <2>3. GoodGraph(compact_make_graph(p)) /\ EdgesOK(compact_make_graph(p))
    BY <2>1, <2>2, CompactGraph, CompactEdges
  <2>4. g' = compact_make_graph(p) /\ H' = build_H(compact_make_graph(p))
    BY <1>3 DEF CompactBegin, Setup
  <2> QED
    BY <1>1, <2>3, <2>4 DEF GraphInv
<1>4. CASE encode_ge
  <2>1. pc = "eliminate" /\ UNCHANGED <<g, H>>
    BY <1>4 DEF encode_ge, Eliminate, Singular, Finish
  <2> QED
    BY <1>1, <2>1 DEF GraphInv
<1>5. CASE Refuse \/ CompactRefuse \/ Decode \/ CompactTransmit \/ decode_minsum
  <2>1. /\ UNCHANGED <<g, H>>
        /\ \/ pc' = pc
           \/ pc = "start" /\ pc' = "refused"
           \/ pc \in Coded /\ pc' \in Coded
    BY <1>5, QuietSteps
  <2> QED
    BY <1>1, <2>1 DEF GraphInv, Coded
<1>6. CASE UNCHANGED vars
  BY <1>1, <1>6 DEF GraphInv, vars, encoder
<1> QED
  BY <1>2, <1>3, <1>4, <1>5, <1>6, StepCases

\* The decoder's list of edges and the encoder's matrix say the same of every word
\* the decoder looks at: of every word at all, for no copies of two edges coincide
\* (ldpc.cpp:94-108, 155-166, 188-195).
THEOREM SyndromesTheorem == CodesSpec => []SyndromesAgree
<1>1. CodesInit => GraphInv
  BY EncoderInvInit DEF CodesInit, Init, EncInit, CompactInit, Blank, GraphInv
<1>2. ASSUME GraphInv PROVE SyndromesAgree
  <2> SUFFICES ASSUME pc \in {"decode", "decoded"}, NEW hard
               PROVE  syndrome(expand_edges(g), hard) <=> syndrome_ok(H, hard)
    BY DEF SyndromesAgree
  <2>0. GoodGraph(g) /\ EdgesOK(g)
    BY <1>2 DEF GraphInv
  <2>1. H = build_H(g)
    BY <1>2 DEF GraphInv
  <2>2. DOMAIN H = Rows /\ Rows = 0 .. M_of(g) - 1
    BY <2>0, <2>1, BuiltMatrix DEF Rows, M
  <2>3. \A c \in Rows : Parity(OnesOver(expand_edges(g), c, hard)) = Parity(H[c] \cap hard)
    <3>1. ASSUME NEW c \in 0 .. M_of(g) - 1
          PROVE  Parity(OnesOver(expand_edges(g), c, hard)) = Parity(build_H(g)[c] \cap hard)
      BY <2>0, SameParity, ZenonT(30)
    <3> QED
      BY <2>1, <2>2, <3>1
  <2> QED
    BY <2>2, <2>3 DEF syndrome, syndrome_ok, OnesOver
<1> QED
  BY <1>1, <1>2, GraphStep, PTL DEF CodesSpec

-----------------------------------------------------------------------------
(* The elimination never lacks a pivot: while nothing but the empty word     *)
(* makes all rows even there is one, a step keeps it so, and the parity      *)
(* columns of the tables are so, lifted in any way.                          *)

Zeros(m) == [r \in 0 .. m - 1 |-> 0]

Regular(k, m, B) == \A X \in SUBSET Columns(k, m) : Solves(m, B, Zeros(m), X) => X = {}

\* A column keeps it so.
LEMMA RegularStep ==
    ASSUME NEW k \in Nat, NEW m \in Nat, NEW c \in 0 .. m - 1, NEW i \in c .. m - 1,
           NEW B, NEW b, System(k, m, B, b), Identity(k, m, c, B), k + c \in B[i], Regular(k, m, B)
    PROVE  Regular(k, m, Reduced(Swapped(B, c, i), k, c))
<1> DEFINE z == Zeros(m)
           B1 == Swapped(B, c, i)
<1>1. i \in 0 .. m - 1
  OBVIOUS
<1>2. System(k, m, B, z)
  BY DEF System, Zeros
<1>3. Swapped(z, c, i) = z
  BY <1>1 DEF Swapped, Zeros
<1>4. System(k, m, B1, z) /\ \A X : Solves(m, B1, z, X) => Solves(m, B, z, X)
  BY <1>1, <1>2, <1>3, SwapSound
<1>5. Identity(k, m, c, B1) /\ k + c \in B1[c]
  BY <1>2, SwapIdentity
<1>6. ReducedRhs(B1, z, k, c) = z
  BY <1>4 DEF ReducedRhs, Zeros, System
<1> HIDE DEF z, B1
<1>7. Tail(B1, k, c) = B1[c]
  BY <1>4, <1>5, ReduceIdentity
<1>8. \A X : Solves(m, Reduced(B1, k, c), z, X) => Solves(m, B1, z, X)
  BY <1>4, <1>6, <1>7, ReduceSound
<1>9. Regular(k, m, Reduced(B1, k, c))
  BY <1>4, <1>8 DEF Regular, z
<1> QED
  BY <1>9 DEF B1

LEMMA ParityNone == Parity({}) = 0
<1>1. Cardinality({}) = 0
  BY FS_EmptySet
<1> QED
  BY <1>1 DEF Parity

LEMMA ParityOne ==
    ASSUME NEW a
    PROVE  Parity({a}) = 1 /\ IsFiniteSet({a}) /\ Cardinality({a}) = 1
<1>1. IsFiniteSet({a}) /\ Cardinality({a}) = 1
  BY FS_Singleton
<1> QED
  BY <1>1 DEF Parity

LEMMA ParityTwo ==
    ASSUME NEW a, NEW b, a # b
    PROVE  Parity({a, b}) = 0 /\ IsFiniteSet({a, b})
<1>1. IsFiniteSet({a}) /\ Cardinality({a}) = 1 /\ IsFiniteSet({b}) /\ Cardinality({b}) = 1
  BY ParityOne
<1>2. {a, b} = {a} \cup {b} /\ {a} \cap {b} = {}
  OBVIOUS
<1>3. Cardinality({a, b}) = 2
  BY <1>1, <1>2, DisjointUnion
<1>4. IsFiniteSet({a, b})
  BY <1>1, <1>2, FS_Union
<1> QED
  BY <1>3, <1>4 DEF Parity

LEMMA ParityThree ==
    ASSUME NEW a, NEW b, NEW c, a # b, a # c, b # c
    PROVE  Parity({a, b, c}) = 1
<1>1. IsFiniteSet({a}) /\ IsFiniteSet({b, c}) /\ Parity({a}) = 1 /\ Parity({b, c}) = 0
  BY ParityOne, ParityTwo
<1>2. {a, b, c} = {a} \cup {b, c} /\ {a} \cap {b, c} = {}
  OBVIOUS
<1>3. Parity({a, b, c}) = (Parity({a}) + Parity({b, c})) % 2
  BY <1>1, <1>2, ParityUnion
<1> QED
  BY <1>1, <1>3

\* A column without a pivot is the sum of columns before it.
LEMMA NoPivot ==
    ASSUME NEW k \in Nat, NEW m \in Nat, NEW c \in 0 .. m - 1, NEW B, NEW b,
           System(k, m, B, b), Identity(k, m, c, B), Candidate(B, k, m, c) = {}
    PROVE  ~Regular(k, m, B)
<1> DEFINE Y == {k + x : x \in {r \in 0 .. c - 1 : k + c \in B[r]}}
           X == Y \cup {k + c}
<1>1. X \in SUBSET Columns(k, m)
  BY DEF Columns
<1>2. ASSUME NEW r \in 0 .. m - 1 PROVE Parity(B[r] \cap X) = 0
  <2>1. CASE r \in 0 .. c - 1 /\ k + c \in B[r]
    <3>1. \A x \in 0 .. c - 1 : k + x \in B[r] <=> x = r
      BY DEF Identity
    <3>2. B[r] \cap X = {k + r, k + c}
      BY <2>1, <3>1
    <3>3. k + r # k + c
      BY <2>1
    <3> QED
      BY <3>2, <3>3, ParityTwo
  <2>2. CASE r \in 0 .. c - 1 /\ k + c \notin B[r]
    <3>1. \A x \in 0 .. c - 1 : k + x \in B[r] <=> x = r
      BY DEF Identity
    <3>2. B[r] \cap X = {}
      BY <2>2, <3>1
    <3> QED
      BY <3>2, ParityNone
  <2>3. CASE r >= c
    <3>1. k + c \notin B[r]
      BY <2>3 DEF Candidate
    <3>2. \A x \in 0 .. c - 1 : k + x \notin B[r]
      BY <2>3 DEF Identity
    <3>3. B[r] \cap X = {}
      BY <3>1, <3>2
    <3> QED
      BY <3>3, ParityNone
  <2> QED
    BY <2>1, <2>2, <2>3
<1>3. X # {}
  OBVIOUS
<1> HIDE DEF X
<1> QED
  BY <1>1, <1>2, <1>3 DEF Regular, Solves, Zeros

-----------------------------------------------------------------------------
(* What the checks of a lifted graph say of a word.                         *)

RowEdges(h, q) == {e \in Live(h) : e.row = q}

\* Every copy of every row is even on X.
Even(h, X) == \A q \in 0 .. h.mb - 1, z \in 0 .. h.zc - 1 :
    Parity({VarOf(h, e, z) : e \in RowEdges(h, q)} \cap X) = 0

\* No copy of the edge is in X.
Quiet(h, X, e) == \A z \in 0 .. h.zc - 1 : VarOf(h, e, z) \notin X

LEMMA RowMeets ==
    ASSUME NEW h, GoodGraph(h), EdgesOK(h), NEW q \in 0 .. h.mb - 1, NEW z \in 0 .. h.zc - 1
    PROVE  /\ q * h.zc + z \in 0 .. M_of(h) - 1
           /\ build_H(h)[q * h.zc + z] = {VarOf(h, e, z) : e \in RowEdges(h, q)}
<1> DEFINE c == q * h.zc + z
<1>1. h.zc \in Nat \ {0} /\ h.mb \in Nat /\ q \in Nat /\ q <= h.mb - 1
  BY DEF GoodGraph
<1>2. c \in 0 .. M_of(h) - 1
  BY <1>1, InColumn DEF M_of
<1>3. ASSUME NEW v PROVE v \in build_H(h)[c] <=> <<c, v>> \in expand_edges(h)
  BY <1>2, RowsAreEdges
<1>4. ASSUME NEW e \in RowEdges(h, q)
      PROVE  VarOf(h, e, z) \in build_H(h)[c]
  <2>1. e \in Live(h) /\ CheckOf(h, e, z) = c
    BY DEF RowEdges, CheckOf
  <2>2. <<c, VarOf(h, e, z)>> \in expand_edges(h)
    BY <2>1 DEF expand_edges
  <2> QED
    BY <1>3, <2>2
<1>5. ASSUME NEW v \in build_H(h)[c]
      PROVE  \E e \in RowEdges(h, q) : v = VarOf(h, e, z)
  <2>1. PICK e \in Live(h), x \in 0 .. h.zc - 1 : <<c, v>> = <<CheckOf(h, e, x), VarOf(h, e, x)>>
    BY <1>3 DEF expand_edges
  <2>2. q * h.zc + z = e.row * h.zc + x /\ v = VarOf(h, e, x)
    BY <2>1 DEF CheckOf
  <2>3. e.row \in Nat
    BY <1>1 DEF Live, EdgesOK
  <2>4. q = e.row /\ z = x
    BY <1>1, <2>2, <2>3, QuotientUnique, ZenonT(30)
  <2> QED
    BY <2>2, <2>4 DEF RowEdges
<1>6. build_H(h)[c] \subseteq {VarOf(h, e, z) : e \in RowEdges(h, q)}
  <2> HIDE DEF c
  <2> QED
    BY <1>5
<1>7. {VarOf(h, e, z) : e \in RowEdges(h, q)} \subseteq build_H(h)[c]
  <2> HIDE DEF c
  <2> QED
    BY <1>4
<1> QED
  BY <1>2, <1>6, <1>7

\* A word of parity columns that the parity columns of the matrix are even on.
LEMMA KernelEven ==
    ASSUME NEW h, GoodGraph(h), EdgesOK(h), NEW k, NEW m, NEW X \in SUBSET (k .. k + m - 1),
           Solves(M_of(h), [r \in 0 .. M_of(h) - 1 |-> build_H(h)[r] \cap (k .. k + m - 1)],
                  Zeros(M_of(h)), X)
    PROVE  Even(h, X)
<1> SUFFICES ASSUME NEW q \in 0 .. h.mb - 1, NEW z \in 0 .. h.zc - 1
             PROVE  Parity({VarOf(h, e, z) : e \in RowEdges(h, q)} \cap X) = 0
  BY DEF Even
<1> DEFINE c == q * h.zc + z
           V == {VarOf(h, e, z) : e \in RowEdges(h, q)}
<1>1. c \in 0 .. M_of(h) - 1 /\ build_H(h)[c] = V
  BY RowMeets
<1> HIDE DEF c, V
<1>2. Parity((V \cap (k .. k + m - 1)) \cap X) = 0
  BY <1>1 DEF Solves, Zeros
<1>3. (V \cap (k .. k + m - 1)) \cap X = V \cap X
  OBVIOUS
<1> QED
  BY <1>2, <1>3 DEF V

\* Copies of two edges of a row that coincide are of one edge.
LEMMA SameVar ==
    ASSUME NEW h, GoodGraph(h), EdgesOK(h), NEW q, NEW e \in RowEdges(h, q), NEW f \in RowEdges(h, q),
           NEW z \in 0 .. h.zc - 1, VarOf(h, e, z) = VarOf(h, f, z)
    PROVE  e = f
<1>1. e \in Live(h) /\ f \in Live(h) /\ e.row = f.row
  BY DEF RowEdges
<1>2. PICK y1 \in 0 .. h.zc - 1 : VarOf(h, e, z) = e.col * h.zc + y1
  BY <1>1, CopyRange
<1>3. PICK y2 \in 0 .. h.zc - 1 : VarOf(h, f, z) = f.col * h.zc + y2
  BY <1>1, CopyRange
<1>4. f.col \in Nat /\ e.col \in Nat /\ h.zc \in Nat \ {0}
  BY <1>1 DEF Live, EdgesOK, GoodGraph
<1>5. f.col * h.zc + y2 = e.col * h.zc + y1
  BY <1>2, <1>3
<1>6. f.col = e.col
  BY <1>4, <1>5, QuotientUnique, ZenonT(30)
<1> QED
  BY <1>1, <1>6 DEF Live, EdgesOK

\* All other edges of the row are quiet.
Alone(h, X, q, E0) == E0 \subseteq RowEdges(h, q) /\ \A f \in RowEdges(h, q) \ E0 : Quiet(h, X, f)

LEMMA OnlyThese ==
    ASSUME NEW h, NEW X, NEW q, NEW E0, Alone(h, X, q, E0), NEW z \in 0 .. h.zc - 1
    PROVE  {VarOf(h, e, z) : e \in RowEdges(h, q)} \cap X = {VarOf(h, e, z) : e \in E0} \cap X
BY DEF Alone, Quiet

LEMMA LastEdge ==
    ASSUME NEW h, GoodGraph(h), EdgesOK(h), NEW X, Even(h, X), NEW q \in 0 .. h.mb - 1,
           NEW e, Alone(h, X, q, {e})
    PROVE  Quiet(h, X, e)
<1> SUFFICES ASSUME NEW z \in 0 .. h.zc - 1, VarOf(h, e, z) \in X PROVE FALSE
  BY DEF Quiet
<1>1. {VarOf(h, f, z) : f \in RowEdges(h, q)} \cap X = {VarOf(h, f, z) : f \in {e}} \cap X
  BY OnlyThese
<1>2. {VarOf(h, f, z) : f \in {e}} \cap X = {VarOf(h, e, z)}
  OBVIOUS
<1>3. Parity({VarOf(h, e, z)}) = 0
  BY <1>1, <1>2 DEF Even
<1>4. Parity({VarOf(h, e, z)}) = 1
  BY ParityOne
<1> QED
  BY <1>3, <1>4

\* Of two edges, both are in the word or none is.
LEMMA TwoEdges ==
    ASSUME NEW h, GoodGraph(h), EdgesOK(h), NEW X, Even(h, X), NEW q \in 0 .. h.mb - 1,
           NEW e, NEW f, Alone(h, X, q, {e, f}), NEW z \in 0 .. h.zc - 1
    PROVE  VarOf(h, e, z) \in X <=> VarOf(h, f, z) \in X
<1> DEFINE a == VarOf(h, e, z)
           b == VarOf(h, f, z)
<1>1. {VarOf(h, x, z) : x \in RowEdges(h, q)} \cap X = {VarOf(h, x, z) : x \in {e, f}} \cap X
  BY OnlyThese
<1>2. {VarOf(h, x, z) : x \in {e, f}} = {a, b}
  OBVIOUS
<1>3. Parity({a, b} \cap X) = 0
  BY <1>1, <1>2 DEF Even
<1> HIDE DEF a, b
<1>4. Parity({a}) = 1 /\ Parity({b}) = 1
  BY ParityOne
<1>5. CASE a \in X /\ b \notin X
  <2>1. {a, b} \cap X = {a}
    BY <1>5
  <2> QED
    BY <1>3, <1>4, <2>1
<1>6. CASE a \notin X /\ b \in X
  <2>1. {a, b} \cap X = {b}
    BY <1>6
  <2> QED
    BY <1>3, <1>4, <2>1
<1> QED
  BY <1>5, <1>6 DEF a, b

\* Of three, the one is not if the other two agree.
LEMMA ThreeEdges ==
    ASSUME NEW h, GoodGraph(h), EdgesOK(h), NEW X, Even(h, X), NEW q \in 0 .. h.mb - 1,
           NEW e, NEW f, NEW d, e # f, e # d, f # d, Alone(h, X, q, {e, f, d}),
           \A z \in 0 .. h.zc - 1 : VarOf(h, f, z) \in X <=> VarOf(h, d, z) \in X
    PROVE  Quiet(h, X, e)
<1> SUFFICES ASSUME NEW z \in 0 .. h.zc - 1, VarOf(h, e, z) \in X PROVE FALSE
  BY DEF Quiet
<1> DEFINE a == VarOf(h, e, z)
           b == VarOf(h, f, z)
           c == VarOf(h, d, z)
<1>0. e \in RowEdges(h, q) /\ f \in RowEdges(h, q) /\ d \in RowEdges(h, q)
  BY DEF Alone
<1>1. {VarOf(h, x, z) : x \in RowEdges(h, q)} \cap X = {VarOf(h, x, z) : x \in {e, f, d}} \cap X
  BY OnlyThese
<1>2. {VarOf(h, x, z) : x \in {e, f, d}} = {a, b, c}
  OBVIOUS
<1>3. Parity({a, b, c} \cap X) = 0
  BY <1>1, <1>2 DEF Even
<1>4. a # b /\ a # c /\ b # c
  BY <1>0, SameVar
<1>5. a \in X /\ (b \in X <=> c \in X)
  OBVIOUS
<1> HIDE DEF a, b, c
<1>6. CASE b \in X
  <2>1. {a, b, c} \cap X = {a, b, c}
    BY <1>5, <1>6
  <2>2. Parity({a, b, c}) = 1
    BY <1>4, ParityThree
  <2> QED
    BY <1>3, <2>1, <2>2
<1>7. CASE b \notin X
  <2>1. {a, b, c} \cap X = {a}
    BY <1>5, <1>7
  <2>2. Parity({a}) = 1
    BY ParityOne
  <2> QED
    BY <1>3, <2>1, <2>2
<1> QED
  BY <1>6, <1>7

-----------------------------------------------------------------------------
(* Columns of a lifted graph.                                               *)

\* No copy of parity column j is in X.
Empty(h, X, j) == \A y \in 0 .. h.zc - 1 : (h.kb + j) * h.zc + y \notin X

\* Every place of a column is a rotation of one.
LEMMA Rotated ==
    ASSUME NEW d \in Nat \ {0}, NEW s \in 0 .. d - 1, NEW y \in 0 .. d - 1
    PROVE  \E z \in 0 .. d - 1 : (z + s) % d = y
<1>1. CASE y >= s
  <2>1. y - s \in 0 .. d - 1 /\ ((y - s) + s) % d = y
    BY <1>1
  <2> QED
    BY <2>1
<1>2. CASE y < s
  <2> DEFINE z == (y - s) + d
  <2>1. z \in 0 .. d - 1 /\ z + s = y + d
    BY <1>2
  <2> DEFINE q == (y + d) \div d
             r == (y + d) % d
  <2>2. r \in 0 .. d - 1 /\ q \in Nat /\ y + d = q * d + r
    BY Quotient
  <2> HIDE DEF q, r
  <2>3. 1 * d + y = q * d + r
    BY <2>2
  <2>4. y = r
    BY <2>2, <2>3, QuotientUnique, ZenonT(30)
  <2> QED
    BY <2>1, <2>4 DEF r
<1> QED
  BY <1>1, <1>2

LEMMA QuietColumn ==
    ASSUME NEW h, GoodGraph(h), EdgesOK(h), NEW X, NEW e \in Live(h), NEW j, e.col = h.kb + j,
           Quiet(h, X, e)
    PROVE  Empty(h, X, j)
<1> SUFFICES ASSUME NEW y \in 0 .. h.zc - 1 PROVE (h.kb + j) * h.zc + y \notin X
  BY DEF Empty
<1>1. h.zc \in Nat \ {0} /\ e.shift[h.i_ls + 1] \in Int
  BY DEF Live, EdgesOK, GoodGraph
<1> DEFINE s == e.shift[h.i_ls + 1] % h.zc
<1>2. s \in 0 .. h.zc - 1
  BY <1>1
<1>3. \A z \in 0 .. h.zc - 1 : VarOf(h, e, z) = e.col * h.zc + ((z + s) % h.zc)
  BY DEF VarOf, lifted_var, mod_shift
<1> HIDE DEF s
<1>4. PICK z \in 0 .. h.zc - 1 : (z + s) % h.zc = y
  BY <1>1, <1>2, Rotated
<1>5. VarOf(h, e, z) = (h.kb + j) * h.zc + y
  BY <1>3, <1>4
<1> QED
  BY <1>5 DEF Quiet

LEMMA EmptyColumn ==
    ASSUME NEW h, GoodGraph(h), EdgesOK(h), NEW X, NEW e \in Live(h), NEW j, e.col = h.kb + j,
           Empty(h, X, j)
    PROVE  Quiet(h, X, e)
<1> SUFFICES ASSUME NEW z \in 0 .. h.zc - 1 PROVE VarOf(h, e, z) \notin X
  BY DEF Quiet
<1>1. PICK y \in 0 .. h.zc - 1 : VarOf(h, e, z) = e.col * h.zc + y
  BY CopyRange
<1> QED
  BY <1>1 DEF Empty

\* A position of an earlier column is before all positions of a later.
LEMMA ColumnsApart ==
    ASSUME NEW d \in Nat \ {0}, NEW a \in Nat, NEW b \in Nat, a < b, NEW y \in 0 .. d - 1
    PROVE  a * d + y < b * d
<1>1. a \in Nat /\ a <= b - 1 /\ b \in Nat
  OBVIOUS
<1>2. a * d + y \in 0 .. b * d - 1
  BY <1>1, InColumn
<1>3. b * d \in Nat
  OBVIOUS
<1> QED
  BY <1>2, <1>3

\* Edges to information columns have no part in a word of parity columns.
LEMMA QuietInfo ==
    ASSUME NEW h, GoodGraph(h), EdgesOK(h), NEW X \in SUBSET (K_of(h) .. K_of(h) + M_of(h) - 1),
           NEW e \in Live(h), e.col < h.kb
    PROVE  Quiet(h, X, e)
<1> SUFFICES ASSUME NEW z \in 0 .. h.zc - 1 PROVE VarOf(h, e, z) \notin X
  BY DEF Quiet
<1>1. PICK y \in 0 .. h.zc - 1 : VarOf(h, e, z) = e.col * h.zc + y
  BY CopyRange
<1>2. h.zc \in Nat \ {0} /\ e.col \in Nat /\ h.kb \in Nat
  BY DEF Live, EdgesOK, GoodGraph
<1>3. e.col * h.zc + y < K_of(h)
  BY <1>2, ColumnsApart DEF K_of
<1>4. K_of(h) \in Nat /\ e.col * h.zc + y \in Nat
  BY <1>2 DEF K_of
<1> QED
  BY <1>1, <1>3, <1>4

\* A word of parity columns that are all empty is empty.
LEMMA AllEmpty ==
    ASSUME NEW h, GoodGraph(h), NEW X \in SUBSET (K_of(h) .. K_of(h) + M_of(h) - 1),
           \A j \in 0 .. h.mb - 1 : Empty(h, X, j)
    PROVE  X = {}
<1> SUFFICES ASSUME NEW v \in X PROVE FALSE
  OBVIOUS
<1>1. h.zc \in Nat \ {0} /\ h.kb \in Nat /\ h.mb \in Nat /\ K_of(h) \in Nat /\ M_of(h) \in Nat
  BY GoodSizes DEF GoodGraph
<1>2. v - K_of(h) \in Nat /\ v - K_of(h) < M_of(h) /\ v \in Int
  BY <1>1
<1> DEFINE j == (v - K_of(h)) \div h.zc
           y == (v - K_of(h)) % h.zc
<1>3. y \in 0 .. h.zc - 1 /\ j \in Nat /\ v - K_of(h) = j * h.zc + y
  BY <1>1, <1>2, Quotient
<1> HIDE DEF j, y
<1>4. j < h.mb
  <2>1. ASSUME h.mb <= j PROVE FALSE
    <3>1. PICK x \in Nat : j = h.mb + x
      <4>1. j - h.mb \in Nat /\ j = h.mb + (j - h.mb)
        BY <1>1, <1>3, <2>1
      <4> QED
        BY <4>1
    <3>2. x * h.zc \in Nat /\ h.mb * h.zc \in Nat
      BY <1>1
    <3>3. j * h.zc = h.mb * h.zc + x * h.zc
      BY <1>1, <3>1
    <3>4. M_of(h) = h.mb * h.zc
      BY DEF M_of
    <3> QED
      BY <1>2, <1>3, <3>2, <3>3, <3>4
  <2> QED
    BY <1>1, <1>3, <2>1
<1>5. v = (h.kb + j) * h.zc + y
  <2>1. K_of(h) = h.kb * h.zc
    BY DEF K_of
  <2>2. (h.kb + j) * h.zc = h.kb * h.zc + j * h.zc
    BY <1>1, <1>3
  <2>3. h.kb * h.zc \in Nat /\ j * h.zc \in Nat
    BY <1>1, <1>3
  <2> QED
    BY <1>2, <1>3, <2>1, <2>2, <2>3
<1>6. j \in 0 .. h.mb - 1
  BY <1>1, <1>3, <1>4
<1> QED
  BY <1>3, <1>5, <1>6 DEF Empty

-----------------------------------------------------------------------------
(* The tables' graphs are regular: the four core rows, added up, leave one  *)
(* copy of the first parity column; then the others follow from the rows.   *)

\* X is even on a graph of the tables.
Shaped(h, X) ==
    /\ GoodGraph(h) /\ EdgesOK(h) /\ h.i_ls \in 0 .. 7 /\ h.mb >= 4
    /\ DualDiagonal(h, h.mb)
    /\ X \in SUBSET (K_of(h) .. K_of(h) + M_of(h) - 1)
    /\ Even(h, X)

LEMMA ParityEdge ==
    ASSUME NEW h, NEW X, Shaped(h, X), NEW q \in 0 .. h.mb - 1, NEW j \in ParityBlocks(h, q),
           q < 4 \/ j = q
    PROVE  \E e \in RowEdges(h, q) : e.col = h.kb + j
<1>1. PICK e \in h.edges : e.row = q /\ e.col >= h.kb /\ j = e.col - h.kb
  BY DEF ParityBlocks
<1>2. e.col \in Int /\ h.kb \in Int /\ h.i_ls + 1 \in 1 .. 8 /\ q \in Int
  BY <1>1 DEF Shaped, EdgesOK, GoodGraph
<1>3. e.col = h.kb + j
  BY <1>1, <1>2
<1>4. e.shift[h.i_ls + 1] >= 0
  <2>1. \A x \in h.edges, i \in 1 .. 8 :
          /\ x.row < 4 /\ x.col = h.kb => x.shift[i] >= 0
          /\ x.col > h.kb /\ (x.row < 4 \/ x.col = h.kb + x.row) => x.shift[i] = 0
    BY DEF Shaped, DualDiagonal
  <2> DEFINE i == h.i_ls + 1
  <2>5. /\ e.row < 4 /\ e.col = h.kb => e.shift[i] >= 0
        /\ e.col > h.kb /\ (e.row < 4 \/ e.col = h.kb + e.row) => e.shift[i] = 0
    BY <1>2, <2>1
  <2> HIDE DEF i
  <2>2. CASE e.col = h.kb /\ q < 4
    BY <1>1, <2>2, <2>5 DEF i
  <2>3. CASE e.col > h.kb
    <3>1. e.shift[i] = 0
      BY <1>1, <1>3, <2>3, <2>5
    <3> QED
      BY <3>1 DEF i
  <2>4. CASE e.col = h.kb /\ ~(q < 4)
    BY <1>2, <1>3, <2>4
  <2> QED
    BY <1>1, <1>2, <2>2, <2>3, <2>4
<1> QED
  BY <1>1, <1>3, <1>4 DEF RowEdges, Live

\* The edges of a row to columns that are empty, or to none of the parity columns, are quiet.
LEMMA OthersQuiet ==
    ASSUME NEW h, GoodGraph(h), EdgesOK(h), NEW X \in SUBSET (K_of(h) .. K_of(h) + M_of(h) - 1),
           NEW q \in 0 .. h.mb - 1, NEW E0 \in SUBSET RowEdges(h, q),
           \A j \in ParityBlocks(h, q) : (\E e \in E0 : e.col = h.kb + j) \/ Empty(h, X, j)
    PROVE  Alone(h, X, q, E0)
<1> SUFFICES ASSUME NEW f \in RowEdges(h, q) \ E0 PROVE Quiet(h, X, f)
  BY DEF Alone
<1>1. f \in Live(h) /\ f \in h.edges /\ f.row = q /\ f.col \in Int /\ h.kb \in Int
  BY DEF RowEdges, Live, EdgesOK, GoodGraph
<1>2. CASE f.col < h.kb
  BY <1>1, <1>2, QuietInfo
<1>3. CASE f.col >= h.kb
  <2> DEFINE j == f.col - h.kb
  <2>1. j \in ParityBlocks(h, q) /\ f.col = h.kb + j
    BY <1>1, <1>3 DEF ParityBlocks
  <2> HIDE DEF j
  <2>2. ASSUME NEW e \in E0, e.col = h.kb + j PROVE FALSE
    <3>1. e \in h.edges /\ e.row = q /\ e.col = f.col
      BY <2>1, <2>2 DEF RowEdges, Live
    <3>2. e = f
      BY <1>1, <3>1 DEF EdgesOK
    <3> QED
      BY <3>2
  <2>3. Empty(h, X, j)
    BY <2>1, <2>2
  <2> QED
    BY <1>1, <2>1, <2>3, EmptyColumn
<1> QED
  BY <1>1, <1>2, <1>3

\* Two edges to one column with one shift have the same copies.
LEMMA SameCopies ==
    ASSUME NEW h, NEW e, NEW f, e.col = f.col, e.shift[h.i_ls + 1] = f.shift[h.i_ls + 1], NEW z
    PROVE  VarOf(h, e, z) = VarOf(h, f, z)
BY DEF VarOf

\* So have two in the core rows, to a parity column after the first.
LEMMA CoreCopies ==
    ASSUME NEW h, NEW X, Shaped(h, X), NEW q \in 0 .. 3, NEW r \in 0 .. 3,
           NEW e \in RowEdges(h, q), NEW f \in RowEdges(h, r), NEW j \in 1 .. 3,
           e.col = h.kb + j, f.col = h.kb + j, NEW z
    PROVE  VarOf(h, e, z) = VarOf(h, f, z)
<1>1. h.kb \in Int /\ h.i_ls + 1 \in 1 .. 8
  BY DEF Shaped, GoodGraph
<1>2. e \in h.edges /\ f \in h.edges /\ e.row < 4 /\ f.row < 4 /\ e.col > h.kb /\ f.col > h.kb
  BY <1>1 DEF RowEdges, Live
<1>3. e.shift[h.i_ls + 1] = 0 /\ f.shift[h.i_ls + 1] = 0
  BY <1>1, <1>2 DEF Shaped, DualDiagonal
<1> QED
  BY <1>3, SameCopies

LEMMA CoreEmpty ==
    ASSUME NEW h, NEW X, Shaped(h, X)
    PROVE  \A j \in 0 .. 3 : Empty(h, X, j)
<1>1. /\ GoodGraph(h) /\ EdgesOK(h) /\ h.i_ls + 1 \in 1 .. 8 /\ h.mb >= 4 /\ h.mb \in Nat /\ h.kb \in Nat
      /\ X \in SUBSET (K_of(h) .. K_of(h) + M_of(h) - 1) /\ Even(h, X)
  BY DEF Shaped, GoodGraph
<1>2. 0 \in 0 .. h.mb - 1 /\ 1 \in 0 .. h.mb - 1 /\ 2 \in 0 .. h.mb - 1 /\ 3 \in 0 .. h.mb - 1
  BY <1>1
<1>3. PICK middle \in 1 .. 2 : \A row \in 0 .. 3 :
        ParityBlocks(h, row) =
            ({row, row + 1} \cap 1 .. 3) \cup (IF row \in {0, middle, 3} THEN {0} ELSE {})
  <2>1. DualDiagonal(h, h.mb)
    BY DEF Shaped
  <2> QED
    BY <2>1, Zenon DEF DualDiagonal
<1> DEFINE Row(row) ==
        ({row, row + 1} \cap 1 .. 3) \cup (IF row \in {0, middle, 3} THEN {0} ELSE {})
<1>3a. /\ ParityBlocks(h, 0) = Row(0) /\ ParityBlocks(h, 1) = Row(1)
       /\ ParityBlocks(h, 2) = Row(2) /\ ParityBlocks(h, 3) = Row(3)
  <2>1. 0 \in 0 .. 3 /\ 1 \in 0 .. 3 /\ 2 \in 0 .. 3 /\ 3 \in 0 .. 3
    OBVIOUS
  <2>2. \A row \in 0 .. 3 : ParityBlocks(h, row) = Row(row)
    BY <1>3
  <2> HIDE DEF Row
  <2> QED
    BY <2>1, <2>2
<1>4. ParityBlocks(h, 0) = {0, 1} /\ ParityBlocks(h, 3) = {0, 3}
  <2>1. Row(0) = {0, 1} /\ Row(3) = {0, 3}
    OBVIOUS
  <2> HIDE DEF Row
  <2> QED
    BY <1>3a, <2>1
<1>5. /\ ParityBlocks(h, 1) = {1, 2} \cup (IF middle = 1 THEN {0} ELSE {})
      /\ ParityBlocks(h, 2) = {2, 3} \cup (IF middle = 2 THEN {0} ELSE {})
  <2>1. /\ Row(1) = {1, 2} \cup (IF middle = 1 THEN {0} ELSE {})
        /\ Row(2) = {2, 3} \cup (IF middle = 2 THEN {0} ELSE {})
    OBVIOUS
  <2> HIDE DEF Row
  <2> QED
    BY <1>3a, <2>1
<1> HIDE DEF Row
<1>6. PICK a0 \in RowEdges(h, 0) : a0.col = h.kb + 0
  BY <1>2, <1>4, ParityEdge
<1>7. PICK a1 \in RowEdges(h, 0) : a1.col = h.kb + 1
  BY <1>2, <1>4, ParityEdge
<1>8. PICK d0 \in RowEdges(h, 3) : d0.col = h.kb + 0
  BY <1>2, <1>4, ParityEdge
<1>9. PICK d3 \in RowEdges(h, 3) : d3.col = h.kb + 3
  BY <1>2, <1>4, ParityEdge
<1>10. PICK b1 \in RowEdges(h, 1) : b1.col = h.kb + 1
  BY <1>2, <1>5, ParityEdge
<1>11. PICK b2 \in RowEdges(h, 1) : b2.col = h.kb + 2
  BY <1>2, <1>5, ParityEdge
<1>12. PICK c2 \in RowEdges(h, 2) : c2.col = h.kb + 2
  BY <1>2, <1>5, ParityEdge
<1>13. PICK c3 \in RowEdges(h, 2) : c3.col = h.kb + 3
  BY <1>2, <1>5, ParityEdge
<1> DEFINE At(e, z) == VarOf(h, e, z) \in X
           Z == 0 .. h.zc - 1
<1>14. \A z \in Z : At(a0, z) <=> At(a1, z)
  <2>1. Alone(h, X, 0, {a0, a1})
    BY <1>1, <1>2, <1>4, <1>6, <1>7, OthersQuiet
  <2> QED
    BY <1>1, <1>2, <2>1, TwoEdges
<1>15. \A z \in Z : At(d0, z) <=> At(d3, z)
  <2>1. Alone(h, X, 3, {d0, d3})
    BY <1>1, <1>2, <1>4, <1>8, <1>9, OthersQuiet
  <2> QED
    BY <1>1, <1>2, <2>1, TwoEdges
<1>16. \A z \in Z : VarOf(h, a0, z) = VarOf(h, d0, z)
  <2>1. a0 \in h.edges /\ d0 \in h.edges /\ a0.row = 0 /\ d0.row = 3 /\ a0.col = h.kb /\ d0.col = h.kb
    BY <1>1, <1>6, <1>8 DEF RowEdges, Live
  <2>2. a0.shift = d0.shift
    BY <2>1 DEF Shaped, DualDiagonal
  <2> QED
    BY <2>1, <2>2, SameCopies
<1>17. \A z \in Z : /\ VarOf(h, a1, z) = VarOf(h, b1, z)
                    /\ VarOf(h, b2, z) = VarOf(h, c2, z)
                    /\ VarOf(h, c3, z) = VarOf(h, d3, z)
  BY <1>7, <1>9, <1>10, <1>11, <1>12, <1>13, CoreCopies
\* The diagonals agree, and no copy of the first parity column is in X.
<1>18. /\ \A z \in Z : At(b1, z) <=> At(c2, z)
       /\ Empty(h, X, 0)
  <2>1. CASE middle = 1
    <3>1. ParityBlocks(h, 1) = {0, 1, 2} /\ ParityBlocks(h, 2) = {2, 3}
      BY <1>5, <2>1
    <3>2. PICK b0 \in RowEdges(h, 1) : b0.col = h.kb + 0
      BY <1>2, <3>1, ParityEdge
    <3>3. Alone(h, X, 2, {c2, c3})
      BY <1>1, <1>2, <1>12, <1>13, <3>1, OthersQuiet
    <3>4. \A z \in Z : At(c2, z) <=> At(c3, z)
      BY <1>1, <1>2, <3>3, TwoEdges
    <3>5. \A z \in Z : At(b1, z) <=> At(c2, z)
      BY <1>14, <1>15, <1>16, <1>17, <3>4
    <3>6. \A z \in Z : At(b1, z) <=> At(b2, z)
      BY <1>17, <3>5
    <3>7. Alone(h, X, 1, {b0, b1, b2})
      BY <1>1, <1>2, <1>10, <1>11, <3>1, <3>2, OthersQuiet
    <3>8. b0 # b1 /\ b0 # b2 /\ b1 # b2
      BY <1>1, <1>10, <1>11, <3>2
    <3>9. Quiet(h, X, b0)
      BY <1>1, <1>2, <3>6, <3>7, <3>8, ThreeEdges
    <3>10. Empty(h, X, 0)
      BY <1>1, <3>2, <3>9, QuietColumn DEF RowEdges
    <3> QED
      BY <3>5, <3>10
  <2>2. CASE middle = 2
    <3>1. ParityBlocks(h, 1) = {1, 2} /\ ParityBlocks(h, 2) = {0, 2, 3}
      BY <1>5, <2>2
    <3>2. PICK c0 \in RowEdges(h, 2) : c0.col = h.kb + 0
      BY <1>2, <3>1, ParityEdge
    <3>3. Alone(h, X, 1, {b1, b2})
      BY <1>1, <1>2, <1>10, <1>11, <3>1, OthersQuiet
    <3>4. \A z \in Z : At(b1, z) <=> At(b2, z)
      BY <1>1, <1>2, <3>3, TwoEdges
    <3>5. \A z \in Z : At(b1, z) <=> At(c2, z)
      BY <1>17, <3>4
    <3>6. \A z \in Z : At(c2, z) <=> At(c3, z)
      BY <1>14, <1>15, <1>16, <1>17, <3>5
    <3>7. Alone(h, X, 2, {c0, c2, c3})
      BY <1>1, <1>2, <1>12, <1>13, <3>1, <3>2, OthersQuiet
    <3>8. c0 # c2 /\ c0 # c3 /\ c2 # c3
      BY <1>1, <1>12, <1>13, <3>2
    <3>9. Quiet(h, X, c0)
      BY <1>1, <1>2, <3>6, <3>7, <3>8, ThreeEdges
    <3>10. Empty(h, X, 0)
      BY <1>1, <3>2, <3>9, QuietColumn DEF RowEdges
    <3> QED
      BY <3>5, <3>10
  <2> QED
    BY <2>1, <2>2
<1>19. Quiet(h, X, a0)
  BY <1>1, <1>6, <1>18, EmptyColumn DEF RowEdges
<1>20. Quiet(h, X, a1) /\ Quiet(h, X, c2) /\ Quiet(h, X, d3)
  BY <1>14, <1>15, <1>16, <1>17, <1>18, <1>19 DEF Quiet
<1>21. Empty(h, X, 1) /\ Empty(h, X, 2) /\ Empty(h, X, 3)
  BY <1>1, <1>7, <1>9, <1>12, <1>20, QuietColumn DEF RowEdges
<1>22. \A j \in 0 .. 3 : j = 0 \/ j = 1 \/ j = 2 \/ j = 3
  OBVIOUS
<1> QED
  BY <1>18, <1>21, <1>22

LEMMA ShapedEmpty ==
    ASSUME NEW h, NEW X, Shaped(h, X)
    PROVE  X = {}
<1>1. /\ GoodGraph(h) /\ EdgesOK(h) /\ h.mb >= 4 /\ h.mb \in Nat /\ h.kb \in Nat
      /\ X \in SUBSET (K_of(h) .. K_of(h) + M_of(h) - 1) /\ Even(h, X)
  BY DEF Shaped, GoodGraph
<1>2. ASSUME NEW q \in 4 .. h.mb - 1 PROVE Empty(h, X, q)
  <2>0. q \in 0 .. h.mb - 1
    BY <1>1
  <2>1. ParityBlocks(h, q) \ (0 .. 3) = {q}
    BY DEF Shaped, DualDiagonal
  <2>2. PICK e \in RowEdges(h, q) : e.col = h.kb + q
    BY <2>0, <2>1, ParityEdge
  <2>3. \A j \in ParityBlocks(h, q) : (\E f \in {e} : f.col = h.kb + j) \/ Empty(h, X, j)
    BY <2>1, <2>2, CoreEmpty
  <2>4. Alone(h, X, q, {e})
    BY <1>1, <2>0, <2>2, <2>3, OthersQuiet
  <2>5. Quiet(h, X, e)
    BY <1>1, <2>0, <2>4, LastEdge
  <2> QED
    BY <1>1, <2>2, <2>5, QuietColumn DEF RowEdges
<1>3. \A j \in 0 .. h.mb - 1 : Empty(h, X, j)
  <2>1. \A j \in 0 .. h.mb - 1 : j \in 0 .. 3 \/ j \in 4 .. h.mb - 1
    BY <1>1
  <2> QED
    BY <1>2, <2>1, CoreEmpty
<1> QED
  BY <1>1, <1>3, AllEmpty

\* Of the educational graphs each row has one parity column.
LEMMA CompactParity ==
    ASSUME NEW q, NEW w, q.bg \in BaseGraph, q.info_cols \in Int, CompactEncodable(q, w),
           NEW row \in 0 .. 3
    PROVE  LET h == compact_make_graph(q) IN
           /\ ParityBlocks(h, row) = {row}
           /\ \E e \in RowEdges(h, row) : e.col = h.kb + row
<1> DEFINE h == compact_make_graph(q)
           kb == IF q.bg = "BG1" THEN 6 ELSE 4
<1>1. h.nb = kb + 4 /\ h.mb = 4 /\ h.nb - h.kb = h.mb /\ h.kb \in Int /\ h.i_ls = 0
  BY DEF CompactEncodable, compact_make_graph
<1>2. h.kb = kb
  BY <1>1
<1>3. /\ \A e \in h.edges : e.row \in Int /\ e.col \in Int /\ (e.col >= kb <=> e.col = kb + e.row)
      /\ \E e \in h.edges : e.row = row /\ e.col = kb + row /\ e.shift[1] = 0
  <2>1. CASE q.bg = "BG1"
    <3>1. h.edges = COMPACT_BG1_EDGES /\ kb = 6
      BY <2>1 DEF compact_make_graph
    <3> HIDE DEF h, kb
    <3>2. \A e \in COMPACT_BG1_EDGES : e.row \in Int /\ e.col \in Int /\ (e.col >= 6 <=> e.col = 6 + e.row)
      BY DEF COMPACT_BG1_EDGES, E
    <3>3. /\ E(0, 6, Same(0)) \in COMPACT_BG1_EDGES /\ E(1, 7, Same(0)) \in COMPACT_BG1_EDGES
          /\ E(2, 8, Same(0)) \in COMPACT_BG1_EDGES /\ E(3, 9, Same(0)) \in COMPACT_BG1_EDGES
      BY DEF COMPACT_BG1_EDGES
    <3>4. E(row, 6 + row, Same(0)) \in COMPACT_BG1_EDGES
      <4>1. row = 0 \/ row = 1 \/ row = 2 \/ row = 3
        OBVIOUS
      <4> QED
        BY <3>3, <4>1
    <3>5. LET e == E(row, 6 + row, Same(0)) IN e.row = row /\ e.col = 6 + row /\ e.shift[1] = 0
      BY DEF E, Same
    <3> QED
      BY <3>1, <3>2, <3>4, <3>5
  <2>2. CASE q.bg # "BG1"
    <3>1. h.edges = COMPACT_BG2_EDGES /\ kb = 4
      BY <2>2 DEF compact_make_graph
    <3> HIDE DEF h, kb
    <3>2. \A e \in COMPACT_BG2_EDGES : e.row \in Int /\ e.col \in Int /\ (e.col >= 4 <=> e.col = 4 + e.row)
      BY DEF COMPACT_BG2_EDGES, E
    <3>3. /\ E(0, 4, Same(0)) \in COMPACT_BG2_EDGES /\ E(1, 5, Same(0)) \in COMPACT_BG2_EDGES
          /\ E(2, 6, Same(0)) \in COMPACT_BG2_EDGES /\ E(3, 7, Same(0)) \in COMPACT_BG2_EDGES
      BY DEF COMPACT_BG2_EDGES
    <3>4. E(row, 4 + row, Same(0)) \in COMPACT_BG2_EDGES
      <4>1. row = 0 \/ row = 1 \/ row = 2 \/ row = 3
        OBVIOUS
      <4> QED
        BY <3>3, <4>1
    <3>5. LET e == E(row, 4 + row, Same(0)) IN e.row = row /\ e.col = 4 + row /\ e.shift[1] = 0
      BY DEF E, Same
    <3> QED
      BY <3>1, <3>2, <3>4, <3>5
  <2> QED
    BY <2>1, <2>2
<1>4. PICK e \in h.edges : e.row = row /\ e.col = kb + row /\ e.shift[1] = 0
  BY <1>3
<1> HIDE DEF h, kb
<1>5. e \in RowEdges(h, row) /\ e.col = h.kb + row
  BY <1>1, <1>2, <1>4 DEF RowEdges, Live
<1>6. ParityBlocks(h, row) \subseteq {row}
  BY <1>1, <1>2, <1>3 DEF ParityBlocks
<1>7. row \in ParityBlocks(h, row)
  BY <1>1, <1>2, <1>4 DEF ParityBlocks
<1> QED
  BY <1>5, <1>6, <1>7 DEF h

LEMMA CompactEmpty ==
    ASSUME NEW q, NEW w, q.bg \in BaseGraph, q.zc \in Int, q.info_cols \in Int, CompactEncodable(q, w),
           NEW X \in SUBSET (K_of(compact_make_graph(q))
                               .. K_of(compact_make_graph(q)) + M_of(compact_make_graph(q)) - 1),
           Even(compact_make_graph(q), X)
    PROVE  X = {}
<1> DEFINE h == compact_make_graph(q)
<1>1. GoodGraph(h) /\ EdgesOK(h)
  BY CompactGraph, CompactEdges
<1>2. h.mb = 4
  BY DEF compact_make_graph
<1>3. \A row \in 0 .. 3 : /\ ParityBlocks(h, row) = {row}
                          /\ \E e \in RowEdges(h, row) : e.col = h.kb + row
  BY CompactParity
<1>4. X \in SUBSET (K_of(h) .. K_of(h) + M_of(h) - 1) /\ Even(h, X)
  OBVIOUS
<1> HIDE DEF h
<1>5. ASSUME NEW j \in 0 .. h.mb - 1 PROVE Empty(h, X, j)
  <2>1. PICK e \in RowEdges(h, j) : e.col = h.kb + j
    BY <1>2, <1>3
  <2>2. \A i \in ParityBlocks(h, j) : \E f \in {e} : f.col = h.kb + i
    BY <1>2, <1>3, <2>1
  <2>3. Alone(h, X, j, {e})
    BY <1>1, <1>4, <2>1, <2>2, OthersQuiet
  <2>4. Quiet(h, X, e)
    BY <1>1, <1>4, <2>3, LastEdge
  <2> QED
    BY <1>1, <2>1, <2>4, QuietColumn DEF RowEdges
<1> QED
  BY <1>1, <1>4, <1>5, AllEmpty

\* The rows make_graph keeps of a table are made like the table.
LEMMA TablesShape ==
    ASSUME NEW q, q.bg \in BaseGraph, q.kb \in Int, q.zc \in Int, q.mb_use \in Int, Accepted(q),
           KbOf(q) = BaseGraphs[q.bg].kb, make_graph(q).mb >= 4,
           DualDiagonal(BaseGraphs[q.bg], make_graph(q).mb)
    PROVE  DualDiagonal(make_graph(q), make_graph(q).mb)
<1> DEFINE h == make_graph(q)
           G == BaseGraphs[q.bg]
<1>1. /\ G.kb \in Nat /\ G.mb \in Nat /\ G.nb \in Nat /\ G.kb + G.mb <= G.nb
      /\ \A e \in G.edges : e.row \in Int /\ e.col \in Int
  BY BaseGraphAssumption
<1>2. /\ h.edges = {e \in G.edges : e.row < h.mb /\ e.col < h.nb}
      /\ h.kb = G.kb /\ h.mb \in Int /\ h.mb >= 4 /\ h.nb \in Int /\ h.kb + h.mb <= h.nb
  BY <1>1 DEF make_graph, KbOf
<1>3. DualDiagonal(G, h.mb)
  OBVIOUS
<1> HIDE DEF h, G
<1>4. ASSUME NEW row \in 0 .. h.mb - 1
      PROVE  ParityBlocks(h, row) = {c \in ParityBlocks(G, row) : c < h.nb - h.kb}
  <2>1. ASSUME NEW c \in ParityBlocks(h, row)
        PROVE  c \in ParityBlocks(G, row) /\ c < h.nb - h.kb
    BY <1>1, <1>2, <2>1 DEF ParityBlocks
  <2>2. ASSUME NEW c \in ParityBlocks(G, row), c < h.nb - h.kb
        PROVE  c \in ParityBlocks(h, row)
    <3>1. PICK e \in G.edges : e.row = row /\ e.col >= G.kb /\ c = e.col - G.kb
      BY DEF ParityBlocks
    <3>2. e \in h.edges
      BY <1>1, <1>2, <2>2, <3>1
    <3> QED
      BY <1>2, <3>1, <3>2 DEF ParityBlocks
  <2> QED
    BY <2>1, <2>2
<1>5. PICK middle \in 1 .. 2 : \A row \in 0 .. 3 :
        ParityBlocks(G, row) =
            ({row, row + 1} \cap 1 .. 3) \cup (IF row \in {0, middle, 3} THEN {0} ELSE {})
  BY <1>3, Zenon DEF DualDiagonal
<1>6. ASSUME NEW row \in 0 .. 3
      PROVE  ParityBlocks(h, row) = ParityBlocks(G, row)
  <2>1. ParityBlocks(G, row) \subseteq 0 .. 3
    BY <1>5
  <2>2. row \in 0 .. h.mb - 1 /\ \A c \in 0 .. 3 : c < h.nb - h.kb
    BY <1>1, <1>2
  <2> QED
    BY <1>4, <2>1, <2>2
<1>7. ASSUME NEW row \in 4 .. h.mb - 1
      PROVE  ParityBlocks(h, row) \ (0 .. 3) = {row}
  <2>1. ParityBlocks(G, row) \ (0 .. 3) = {row}
    BY <1>3 DEF DualDiagonal
  <2>2. row \in 0 .. h.mb - 1 /\ row < h.nb - h.kb
    BY <1>1, <1>2
  <2> QED
    BY <1>4, <2>1, <2>2
<1>8. \E y \in 1 .. 2 : \A row \in 0 .. 3 :
        ParityBlocks(h, row) =
            ({row, row + 1} \cap 1 .. 3) \cup (IF row \in {0, y, 3} THEN {0} ELSE {})
  BY <1>5, <1>6, Zenon
<1>9. /\ \A e \in h.edges, i \in 1 .. 8 :
        /\ e.row < 4 /\ e.col = h.kb => e.shift[i] >= 0
        /\ e.col > h.kb /\ (e.row < 4 \/ e.col = h.kb + e.row) => e.shift[i] = 0
      /\ \A e, f \in h.edges :
        e.row = 0 /\ f.row = 3 /\ e.col = h.kb /\ f.col = h.kb => e.shift = f.shift
  BY <1>2, <1>3 DEF DualDiagonal
<1>10. DualDiagonal(h, h.mb)
  BY <1>7, <1>8, <1>9 DEF DualDiagonal
<1> QED
  BY <1>10 DEF h

\* The system the encoder starts with.
LEMMA SetupRegular ==
    ASSUME NEW h, GoodGraph(h), EdgesOK(h),
           \A X \in SUBSET (K_of(h) .. K_of(h) + M_of(h) - 1) : Even(h, X) => X = {}
    PROVE  Regular(K_of(h), M_of(h),
               [r \in 0 .. M_of(h) - 1 |-> build_H(h)[r] \cap (K_of(h) .. K_of(h) + M_of(h) - 1)])
BY KernelEven DEF Regular, Columns

-----------------------------------------------------------------------------

Whole == code = "compact" \/ (g.kb = BaseGraphs[p.bg].kb /\ g.mb >= 4)

SolveInv ==
    /\ GraphInv
    /\ pc = "eliminate" /\ Whole => Regular(K, M, A)
    /\ pc = "singular" => ~Whole

LEMMA SolveStep ==
    ASSUME SolveInv, [CodesNext]_vars
    PROVE  SolveInv'
<1>0. GraphInv' /\ EncoderInv
  BY GraphStep DEF SolveInv, GraphInv
<1>1. CASE Begin
  <2> DEFINE q == WithSize(p, info)
             h == make_graph(q)
             G == BaseGraphs[p.bg]
  <2>1. p \in Params /\ p \in LdpcParams
    BY <1>0, <1>1, ParamsAssumption DEF Begin, EncoderInv, Call
  <2>2. /\ q.bg = p.bg /\ q.bg \in BaseGraph /\ q.kb \in Int /\ q.zc \in Int /\ q.mb_use \in Int
        /\ q.kb = p.kb /\ q.mb_use = p.mb_use
    BY <2>1 DEF WithSize, LdpcParams
  <2>3. Accepted(q) /\ Setup(h, info) /\ code = "nr"
    BY <1>1 DEF Begin, Encodable
  <2> HIDE DEF q
  <2>4. GoodGraph(h) /\ EdgesOK(h) /\ h.i_ls \in 0 .. 7
    BY <2>2, <2>3, AcceptedGraph, AcceptedEdges DEF Accepted, make_graph
  <2>5. ASSUME h.kb = G.kb, h.mb >= 4
        PROVE  DualDiagonal(h, h.mb)
    <3>1. h.kb = KbOf(q) /\ KbOf(q) = KbOf(p)
      BY <2>2 DEF make_graph, KbOf
    <3>2. h.mb = IF p.mb_use > 0 THEN p.mb_use ELSE G.mb
      BY <2>2 DEF make_graph
    <3>3. G.mb \in Nat /\ p.mb_use \in Int /\ (p.mb_use > 0 => p.mb_use <= G.mb)
      BY <2>2, <2>3, BaseGraphAssumption DEF Accepted
    <3>4. h.mb \in 4 .. G.mb
      BY <2>5, <3>2, <3>3
    <3>5. DualDiagonal(G, h.mb)
      BY <2>1, <2>5, <3>1, <3>2, <3>4, TablesAssumption
    <3> QED
      BY <2>2, <2>3, <2>5, <3>1, <3>5, TablesShape
  <2> HIDE DEF h
  <2>6. /\ g' = h /\ pc' = "eliminate" /\ UNCHANGED <<code, p>>
        /\ A' = [r \in 0 .. M_of(h) - 1 |-> build_H(h)[r] \cap (K_of(h) .. K_of(h) + M_of(h) - 1)]
    BY <2>3 DEF Setup
  <2>7. ASSUME Whole' PROVE Regular(K, M, A)'
    <3>1. h.kb = G.kb /\ h.mb >= 4
      BY <2>3, <2>6, <2>7 DEF Whole
    <3>2. \A X \in SUBSET (K_of(h) .. K_of(h) + M_of(h) - 1) : Even(h, X) => X = {}
      BY <2>4, <2>5, <3>1, ShapedEmpty DEF Shaped
    <3>3. Regular(K_of(h), M_of(h),
               [r \in 0 .. M_of(h) - 1 |-> build_H(h)[r] \cap (K_of(h) .. K_of(h) + M_of(h) - 1)])
      BY <2>4, <3>2, SetupRegular
    <3> QED
      BY <2>6, <3>3 DEF K, M
  <2> QED
    BY <1>0, <2>6, <2>7 DEF SolveInv
<1>2. CASE CompactBegin
  <2> DEFINE h == compact_make_graph(p)
  <2>1. p.bg \in BaseGraph /\ p.zc \in Int /\ p.info_cols \in Int
    BY <1>0, <1>2, CompactAssumption DEF CompactBegin, EncoderInv, Call
  <2>2. CompactEncodable(p, info) /\ Setup(h, info)
    BY <1>2 DEF CompactBegin
  <2>3. GoodGraph(h) /\ EdgesOK(h)
    BY <2>1, <2>2, CompactGraph, CompactEdges
  <2>4. \A X \in SUBSET (K_of(h) .. K_of(h) + M_of(h) - 1) : Even(h, X) => X = {}
    BY <2>1, <2>2, CompactEmpty
  <2> HIDE DEF h
  <2>5. Regular(K_of(h), M_of(h),
             [r \in 0 .. M_of(h) - 1 |-> build_H(h)[r] \cap (K_of(h) .. K_of(h) + M_of(h) - 1)])
    BY <2>3, <2>4, SetupRegular
  <2>6. /\ g' = h /\ pc' = "eliminate"
        /\ A' = [r \in 0 .. M_of(h) - 1 |-> build_H(h)[r] \cap (K_of(h) .. K_of(h) + M_of(h) - 1)]
    BY <2>2 DEF Setup
  <2>7. Regular(K, M, A)'
    BY <2>5, <2>6 DEF K, M
  <2> QED
    BY <1>0, <2>6, <2>7 DEF SolveInv
<1>3. CASE Eliminate
  <2>1. pc = "eliminate" /\ Eliminating(K, M, N, H, A, rhs, col, info.ones) /\ col < M
    BY <1>0, <1>3 DEF Eliminate, EncoderInv
  <2> DEFINE C == Candidate(A, K, M, col)
  <2>2. /\ C \subseteq col .. M - 1 /\ C # {} /\ col \in 0 .. M - 1 /\ K \in Nat /\ M \in Nat
        /\ System(K, M, A, rhs) /\ Identity(K, M, col, A)
    BY <1>3, <2>1 DEF Candidate, Eliminate, Eliminating
  <2>3. Min(C) \in C
    <3>1. C \subseteq Nat
      BY <2>2
    <3> HIDE DEF C
    <3> QED
      BY <2>2, <3>1, LeastNat DEF Min
  <2> DEFINE piv == Min(C)
  <2>4. piv \in col .. M - 1 /\ K + col \in A[piv]
    BY <2>2, <2>3 DEF Candidate
  <2>5. A' = Reduced(Swapped(A, col, piv), K, col) /\ UNCHANGED <<code, p, pc, g>>
    BY <1>3 DEF Eliminate
  <2> HIDE DEF piv
  <2>6. ASSUME Regular(K, M, A) PROVE Regular(K, M, Reduced(Swapped(A, col, piv), K, col))
    BY <2>2, <2>4, <2>6, RegularStep
  <2>7. K' = K /\ M' = M /\ (Whole' <=> Whole)
    BY <2>5 DEF K, M, Whole
  <2> QED
    BY <1>0, <2>1, <2>5, <2>6, <2>7 DEF SolveInv
<1>4. CASE Singular
  <2>1. /\ pc = "eliminate" /\ Eliminating(K, M, N, H, A, rhs, col, info.ones) /\ col < M
        /\ Candidate(A, K, M, col) = {}
    BY <1>0, <1>4 DEF Singular, EncoderInv
  <2>2. col \in 0 .. M - 1 /\ K \in Nat /\ M \in Nat /\ System(K, M, A, rhs) /\ Identity(K, M, col, A)
    BY <2>1 DEF Eliminating
  <2>3. ~Regular(K, M, A)
    BY <2>1, <2>2, NoPivot
  <2>4. ~Whole
    BY <2>1, <2>3 DEF SolveInv
  <2>5. pc' = "singular" /\ UNCHANGED <<code, p, g>>
    BY <1>4 DEF Singular
  <2> QED
    BY <1>0, <2>4, <2>5 DEF SolveInv, Whole
<1>5. CASE Finish
  <2>1. pc' = "encoded"
    BY <1>5 DEF Finish
  <2> QED
    BY <1>0, <2>1 DEF SolveInv
<1>6. CASE \/ Refuse \/ CompactRefuse \/ Decode \/ CompactTransmit \/ decode_minsum
           \/ UNCHANGED vars
  <2>1. /\ UNCHANGED <<code, p, info, g, H, A, rhs, col, cw>>
        /\ \/ pc' = pc
           \/ pc = "start" /\ pc' = "refused"
           \/ pc \in Coded /\ pc' \in Coded
    BY <1>6, QuietSteps DEF vars, encoder
  <2>2. (Regular(K, M, A)' <=> Regular(K, M, A)) /\ (Whole' <=> Whole)
    BY <2>1 DEF K, M, Whole
  <2>3. pc' \in {"eliminate", "singular"} => pc' = pc
    BY <2>1 DEF Coded
  <2> QED
    BY <1>0, <2>2, <2>3 DEF SolveInv
<1> QED
  BY <1>1, <1>2, <1>3, <1>4, <1>5, <1>6, StepCases DEF encode_ge

\* The encoder throws "parity submatrix singular" (ldpc.cpp:131) for no lifting of a table
\* with its own information columns and its four core rows, nor for the educational graphs.
THEOREM SolvesTheorem == CodesSpec => []SolvesUnlessCut
<1>1. CodesInit => SolveInv
  BY EncoderInvInit DEF CodesInit, Init, EncInit, CompactInit, Blank, GraphInv, SolveInv
<1>2. SolveInv => SolvesUnlessCut
  <2> SUFFICES ASSUME SolveInv, pc = "singular"
               PROVE  code = "nr" /\ (g.kb # BaseGraphs[p.bg].kb \/ g.mb < 4)
    BY DEF SolvesUnlessCut
  <2>1. GoodGraph(g) /\ Call
    BY DEF SolveInv, GraphInv, EncoderInv
  <2>2. ~Whole /\ g.mb \in Nat /\ code \in {"nr", "compact"}
    BY <2>1 DEF SolveInv, GoodGraph, Call
  <2> QED
    BY <2>2 DEF Whole
<1> QED
  BY <1>1, <1>2, SolveStep, PTL DEF CodesSpec

-----------------------------------------------------------------------------
(* The decoder on a link that erases and inverts nothing.                  *)

LEMMA SignValues ==
    ASSUME NEW w, NEW v
    PROVE  Sign(w, v) \in {1, -1} /\ (Sign(w, v) = -1 <=> v \in w)
BY DEF Sign

\* What the variables of the edges S tell the checks does not argue against the word.
Faithful(S, app, word) ==
    \A f \in S : v2c(app, f) \in Int /\ v2c(app, f) * Sign(word, f[2]) >= 0

\* A message is three quarters of the least magnitude there is at the other edges, with
\* one sign or the other.
LEMMA MessageSize ==
    ASSUME NEW edges, NEW app, NEW e, Others(edges, e) # {},
           \A f \in Others(edges, e) : v2c(app, f) \in Int
    PROVE  \E m \in Nat :
              /\ CheckMessage(edges, app, e) =
                    (IF Parity(Negative(edges, app, e)) = 1 THEN -1 ELSE 1) * ((3 * m) \div 4)
              /\ \E f \in Others(edges, e) : m = Abs(v2c(app, f))
              /\ \A f \in Others(edges, e) : m <= Abs(v2c(app, f))
<1> DEFINE S == {Abs(v2c(app, f)) : f \in Others(edges, e)}
<1>1. S \subseteq Nat /\ S # {}
  BY DEF Abs
<1>2. Min(S) \in S /\ \A y \in S : Min(S) <= y
  <2> HIDE DEF S
  <2> QED
    BY <1>1, MinOfNat
<1>3. CheckMessage(edges, app, e) =
        (IF Parity(Negative(edges, app, e)) = 1 THEN -1 ELSE 1) * ((3 * Min(S)) \div 4)
  BY DEF CheckMessage
<1>4. /\ Min(S) \in Nat
      /\ \E f \in Others(edges, e) : Min(S) = Abs(v2c(app, f))
      /\ \A f \in Others(edges, e) : Min(S) <= Abs(v2c(app, f))
  BY <1>1, <1>2
<1> HIDE DEF S
<1> QED
  BY <1>3, <1>4

\* If none of the other messages argues against the word, a check that is even on the
\* word answers with the bit's sign: unless another message is zero, the signs are the
\* bits of the word, and their product is the bit that is asked for.
LEMMA MessageSign ==
    ASSUME NEW edges, IsFiniteSet(edges), NEW app, NEW word, NEW e \in edges,
           Others(edges, e) # {}, Faithful(Others(edges, e), app, word),
           Parity(OnesOver(edges, e[1], word)) = 0
    PROVE  /\ CheckMessage(edges, app, e) \in Int
           /\ \E m \in Nat : /\ CheckMessage(edges, app, e) * Sign(word, e[2]) = (3 * m) \div 4
                             /\ \E f \in Others(edges, e) : m = Abs(v2c(app, f))
<1> DEFINE O == OnesOver(edges, e[1], word)
           neg == Negative(edges, app, e)
<1>1. \A f \in Others(edges, e) : f \in edges /\ f[1] = e[1] /\ f # e /\ v2c(app, f) \in Int
  BY DEF Others, Faithful
<1>2. PICK m \in Nat :
        /\ CheckMessage(edges, app, e) = (IF Parity(neg) = 1 THEN -1 ELSE 1) * ((3 * m) \div 4)
        /\ \E f \in Others(edges, e) : m = Abs(v2c(app, f))
        /\ \A f \in Others(edges, e) : m <= Abs(v2c(app, f))
  BY <1>1, MessageSize
<1>3. PICK t \in Nat : t = (3 * m) \div 4 /\ (m = 0 => t = 0)
  OBVIOUS
<1>4. CheckMessage(edges, app, e) = (IF Parity(neg) = 1 THEN -1 ELSE 1) * t
  BY <1>2, <1>3
<1> HIDE DEF neg, O
<1>5. CheckMessage(edges, app, e) \in Int
  BY <1>4
<1>6. CASE m = 0
  <2>1. CheckMessage(edges, app, e) = 0 /\ t = 0
    BY <1>3, <1>4, <1>6
  <2>2. CheckMessage(edges, app, e) * Sign(word, e[2]) = t
    BY <2>1, SignValues
  <2> QED
    BY <1>2, <1>3, <1>5, <2>2
<1>7. CASE m # 0
  <2>1. \A f \in Others(edges, e) : v2c(app, f) < 0 <=> f[2] \in word
    <3> SUFFICES ASSUME NEW f \in Others(edges, e)
                 PROVE  v2c(app, f) < 0 <=> f[2] \in word
      OBVIOUS
    <3>1. PICK x \in Int : x = v2c(app, f)
      BY <1>1
    <3>2. x # 0
      BY <1>2, <1>7, <3>1 DEF Abs
    <3>3. PICK s \in {1, -1} : s = Sign(word, f[2]) /\ (s = -1 <=> f[2] \in word)
      BY SignValues
    <3>4. x * s >= 0
      BY <1>1, <3>1, <3>3 DEF Faithful
    <3>5. x < 0 <=> s = -1
      BY <3>2, <3>4
    <3> QED
      BY <3>1, <3>3, <3>5
  <2>2. neg = O \ {e}
    BY <2>1 DEF neg, O, Negative, OnesOver, Others
  <2>3. IsFiniteSet(O) /\ Cardinality(O) \in Nat /\ Cardinality(O) % 2 = 0
    <3>1. O \subseteq edges
      BY DEF O, OnesOver
    <3>2. IsFiniteSet(O)
      BY <3>1, FS_Subset
    <3> QED
      BY <3>2, FS_CardinalityType DEF Parity, O
  <2>4. CASE e[2] \in word
    <3>1. e \in O
      BY <2>4 DEF O, OnesOver
    <3>2. Cardinality(neg) = Cardinality(O) - 1
      BY <2>2, <2>3, <3>1, FS_RemoveElement
    <3>3. Parity(neg) = 1
      BY <2>3, <3>2 DEF Parity
    <3>4. CheckMessage(edges, app, e) = -t
      BY <1>4, <3>3
    <3>5. Sign(word, e[2]) = -1
      BY <2>4 DEF Sign
    <3>6. CheckMessage(edges, app, e) * Sign(word, e[2]) = t
      BY <3>4, <3>5
    <3> QED
      BY <1>2, <1>3, <1>5, <3>6
  <2>5. CASE e[2] \notin word
    <3>1. neg = O
      BY <2>2, <2>5 DEF O, OnesOver
    <3>2. Parity(neg) = 0
      BY <2>3, <3>1 DEF Parity
    <3>3. CheckMessage(edges, app, e) = t
      BY <1>4, <3>2
    <3>4. Sign(word, e[2]) = 1
      BY <2>5 DEF Sign
    <3>5. CheckMessage(edges, app, e) * Sign(word, e[2]) = t
      BY <3>3, <3>4
    <3> QED
      BY <1>2, <1>3, <1>5, <3>5
  <2> QED
    BY <2>4, <2>5
<1> QED
  BY <1>6, <1>7

\* A lifted graph has finitely many edges, between its checks and its variables.
LEMMA EdgesFinite ==
    ASSUME NEW h, GoodGraph(h), EdgesOK(h)
    PROVE  /\ IsFiniteSet(expand_edges(h))
           /\ \A e \in expand_edges(h) : e[1] \in 0 .. M_of(h) - 1 /\ e[2] \in 0 .. N_of(h) - 1
<1> DEFINE C == 0 .. M_of(h) - 1
           V == 0 .. N_of(h) - 1
<1>1. ASSUME NEW x \in Live(h), NEW z \in 0 .. h.zc - 1
      PROVE  CheckOf(h, x, z) \in C /\ VarOf(h, x, z) \in V
  <2>1. x.row \in Nat /\ x.row <= h.mb - 1 /\ h.zc \in Nat \ {0} /\ h.mb \in Nat
    BY DEF Live, EdgesOK, GoodGraph
  <2>2. x.row * h.zc + z \in 0 .. h.mb * h.zc - 1
    BY <2>1, InColumn
  <2> QED
    BY <2>2, CopyRange DEF M_of
<1>2. expand_edges(h) \subseteq C \X V
  BY <1>1 DEF expand_edges
<1>3. IsFiniteSet(C \X V)
  <2>1. M_of(h) - 1 \in Int /\ N_of(h) - 1 \in Int
    BY GoodSizes
  <2>2. IsFiniteSet(C) /\ IsFiniteSet(V)
    BY <2>1, FS_Interval
  <2> QED
    BY <2>2, FS_Product
<1> HIDE DEF C, V
<1>4. IsFiniteSet(expand_edges(h))
  BY <1>2, <1>3, FS_Subset
<1> QED
  BY <1>2, <1>4 DEF C, V

\* Where the checks of the base graph have two edges or more, so have their copies.
LEMMA OthersThere ==
    ASSUME NEW h, GoodGraph(h), EdgesOK(h), Joined(h), NEW e \in expand_edges(h)
    PROVE  Others(expand_edges(h), e) # {}
<1>1. PICK x \in Live(h), z \in 0 .. h.zc - 1 : e = <<CheckOf(h, x, z), VarOf(h, x, z)>>
  BY DEF expand_edges
<1>2. PICK y \in Live(h) : y.row = x.row /\ y # x
  BY DEF Joined
<1> DEFINE f == <<CheckOf(h, y, z), VarOf(h, y, z)>>
<1>3. f \in expand_edges(h) /\ f[1] = e[1]
  BY <1>1, <1>2 DEF expand_edges, CheckOf
<1>4. VarOf(h, y, z) # VarOf(h, x, z)
  <2>1. x.col # y.col /\ x.col \in Nat /\ y.col \in Nat /\ h.zc \in Nat \ {0}
    BY <1>2 DEF Live, EdgesOK, GoodGraph
  <2>2. PICK a \in 0 .. h.zc - 1 : VarOf(h, x, z) = x.col * h.zc + a
    BY CopyRange
  <2>3. PICK b \in 0 .. h.zc - 1 : VarOf(h, y, z) = y.col * h.zc + b
    BY CopyRange
  <2>4. y.col * h.zc + b # x.col * h.zc + a
    BY <2>1, QuotientUnique
  <2> QED
    BY <2>2, <2>3, <2>4
<1> QED
  BY <1>1, <1>3, <1>4 DEF Others

Erasing == damage.wrong = {} /\ Joined(g)

\* What the checks tell the variables does not argue against the word sent.
MessagesTrue == \A e \in DOMAIN c2v : c2v[e] \in Int /\ c2v[e] * Sign(cw, e[2]) >= 0

DecoderInv ==
    /\ GraphInv
    /\ NeverMisled
    /\ pc \notin {"start", "refused"} => g.kb <= g.nb
    /\ pc \in {"decode", "decoded"} =>
          /\ DOMAIN c2v = expand_edges(g)
          /\ llr = [v \in Variables |-> Received(p, cw, damage, v)]
          /\ Erasing => MessagesTrue

\* The first n powers of four.
Powers(f, n) == f[0] = 1 /\ \A i \in 0 .. n - 1 : f[i + 1] = 4 * f[i]

LEMMA PowersExist ==
    ASSUME NEW n \in Nat
    PROVE  \E f \in [Nat -> Nat] : Powers(f, n)
<1> DEFINE S == {k \in Nat : \E f \in [Nat -> Nat] : Powers(f, k)}
<1>1. 0 \in S
  <2> DEFINE f == [i \in Nat |-> 1]
  <2>1. f \in [Nat -> Nat] /\ Powers(f, 0)
    BY DEF Powers
  <2> HIDE DEF f
  <2> QED
    BY <2>1
<1>2. ASSUME NEW k \in Nat, k \in S PROVE k + 1 \in S
  <2>1. PICK f \in [Nat -> Nat] : Powers(f, k)
    BY <1>2
  <2> DEFINE h == [i \in Nat |-> IF i = k + 1 THEN 4 * f[k] ELSE f[i]]
  <2>2. h \in [Nat -> Nat]
    OBVIOUS
  <2>3. Powers(h, k + 1)
    BY <2>1 DEF Powers
  <2> HIDE DEF h
  <2> QED
    BY <2>2, <2>3
<1> HIDE DEF S
<1>3. n \in S
  BY <1>1, <1>2, NatFrom
<1> QED
  BY <1>3 DEF S

LEMMA PowersUnique ==
    ASSUME NEW f, NEW h, NEW n \in Nat, NEW m \in Nat, Powers(f, n), Powers(h, m),
           NEW i \in Nat, i <= n, i <= m
    PROVE  f[i] = h[i]
<1> DEFINE S == {k \in Nat : k <= n /\ k <= m => f[k] = h[k]}
<1>1. 0 \in S
  BY DEF Powers
<1>2. \A k \in Nat : k \in S => k + 1 \in S
  BY DEF Powers
<1> HIDE DEF S
<1>3. i \in S
  BY <1>1, <1>2, NatFrom
<1> QED
  BY <1>3 DEF S

LEMMA Power4Values ==
    /\ Power4[0] = 1
    /\ \A n \in Nat : Power4[n] \in Nat \ {0} /\ Power4[n + 1] = 4 * Power4[n]
<1> DEFINE F(n) == CHOOSE f \in [Nat -> Nat] : Powers(f, n)
           G == [n \in Nat |-> F(n)[n]]
<1>1. \A n \in Nat : F(n) \in [Nat -> Nat] /\ Powers(F(n), n)
  BY PowersExist
<1> HIDE DEF F
<1>2. G[0] = 1 /\ \A n \in Nat : G[n] \in Nat
  BY <1>1 DEF Powers
<1>3. ASSUME NEW n \in Nat PROVE G[n + 1] = 4 * G[n]
  <2>1. F(n + 1)[n + 1] = 4 * F(n + 1)[n]
    <3>1. Powers(F(n + 1), n + 1)
      BY <1>1
    <3> QED
      BY <3>1 DEF Powers
  <2>2. F(n + 1)[n] = F(n)[n]
    BY <1>1, PowersUnique
  <2> QED
    BY <2>1, <2>2
<1> HIDE DEF G
<1>4. \A n \in Nat : G[n] = IF n = 0 THEN 1 ELSE 4 * G[n - 1]
  <2> SUFFICES ASSUME NEW n \in Nat PROVE G[n] = IF n = 0 THEN 1 ELSE 4 * G[n - 1]
    OBVIOUS
  <2>1. CASE n # 0
    <3>1. n - 1 \in Nat /\ (n - 1) + 1 = n
      BY <2>1
    <3> QED
      BY <1>3, <2>1, <3>1
  <2> QED
    BY <1>2, <2>1
<1>5. G = [n \in Nat |-> IF n = 0 THEN 1 ELSE 4 * G[n - 1]]
  BY <1>4 DEF G
<1>6. Power4 = [n \in Nat |-> IF n = 0 THEN 1 ELSE 4 * Power4[n - 1]]
  BY <1>5 DEF Power4
<1>7. Power4[0] = 1 /\ \A n \in Nat : Power4[n + 1] = 4 * Power4[n]
  BY <1>6
<1> DEFINE S == {n \in Nat : Power4[n] \in Nat \ {0}}
<1>8. 0 \in S /\ \A n \in Nat : n \in S => n + 1 \in S
  BY <1>7
<1>9. Nat \subseteq S
  <2> HIDE DEF S
  <2> QED
    BY <1>8, NatFrom
<1> QED
  BY <1>7, <1>9

LEMMA UnitPositive ==
    ASSUME EncoderInv
    PROVE  p.max_iter \in Nat /\ Unit(p) \in Nat \ {0}
<1>1. p.max_iter \in Nat
  BY ParamsAssumption, CompactAssumption DEF EncoderInv, Call, LdpcParams
<1> QED
  BY <1>1, Power4Values DEF Unit

\* What the link leaves of a bit does not argue against it, and argues for it unless it
\* is erased.
LEMMA ReceivedSign ==
    ASSUME EncoderInv, damage.wrong = {}, NEW v
    PROVE  /\ Received(p, cw, damage, v) \in Int
           /\ Received(p, cw, damage, v) * Sign(cw, v) >= 0
           /\ v \notin damage.erased => Received(p, cw, damage, v) * Sign(cw, v) > 0
<1>1. PICK u \in Nat \ {0} : u = Unit(p)
  BY UnitPositive
<1>2. PICK s \in {1, -1} : s = Sign(cw, v)
  BY SignValues
<1>3. Received(p, cw, damage, v) = IF v \in damage.erased THEN 0 ELSE 4 * u * s
  BY <1>1, <1>2 DEF Received
<1>4. 4 * u * s \in Int /\ (4 * u * s) * s > 0
  OBVIOUS
<1> QED
  BY <1>2, <1>3, <1>4

\* Sums of what does not argue against a bit do not either, nor with a message taken out.
LEMMA PosteriorSign ==
    ASSUME DecoderInv, pc = "decode", Erasing, NEW v \in Variables
    PROVE  /\ Posterior[v] \in Int
           /\ Posterior[v] * Sign(cw, v) >= 0
           /\ v \notin damage.erased => Posterior[v] * Sign(cw, v) > 0
           /\ \A e \in DOMAIN c2v : e[2] = v => (Posterior[v] - c2v[e]) * Sign(cw, v) >= 0
<1>0. /\ EncoderInv /\ MessagesTrue /\ llr[v] = Received(p, cw, damage, v)
      /\ IsFiniteSet(DOMAIN c2v)
  BY EdgesFinite DEF DecoderInv, GraphInv
<1> DEFINE D == {e \in DOMAIN c2v : e[2] = v}
           sum == SumOver(c2v, D)
<1>1. PICK s \in {1, -1} : s = Sign(cw, v)
  BY SignValues
<1>2. NoneAgainst(c2v, D, s)
  BY <1>0, <1>1 DEF NoneAgainst, MessagesTrue
<1>3. IsFiniteSet(D)
  BY <1>0, FS_Subset
<1>4. Posterior[v] = llr[v] + sum /\ DOMAIN Posterior = Variables
  BY DEF Posterior, SumOver
<1>5. sum \in Int /\ sum * s >= 0 /\ \A e \in D : (sum - c2v[e]) * s >= 0
  <2> HIDE DEF D
  <2> QED
    BY <1>2, <1>3, SetSumSign
<1> HIDE DEF sum
<1>6. PICK x \in Int : x = sum /\ x * s >= 0 /\ \A e \in D : (x - c2v[e]) * s >= 0
  BY <1>5
<1>7. PICK l \in Int : l = llr[v] /\ l * s >= 0 /\ (v \notin damage.erased => l * s > 0)
  BY <1>0, <1>1, ReceivedSign DEF Erasing
<1>8. Posterior[v] = l + x
  BY <1>4, <1>6, <1>7
<1>9. (l + x) * s >= 0 /\ (l * s > 0 => (l + x) * s > 0)
  BY <1>6, <1>7
<1>10. ASSUME NEW e \in DOMAIN c2v, e[2] = v PROVE (Posterior[v] - c2v[e]) * s >= 0
  <2>1. PICK m \in Int : m = c2v[e]
    BY <1>0 DEF MessagesTrue
  <2>2. (x - m) * s >= 0
    BY <1>6, <1>10, <2>1
  <2>3. ((l + x) - m) * s >= 0
    BY <1>7, <2>2
  <2> QED
    BY <1>8, <2>1, <2>3
<1> QED
  BY <1>1, <1>7, <1>8, <1>9, <1>10

\* All checks are even on the word sent, in the decoder's list too.
LEMMA EvenOnSent ==
    ASSUME DecoderInv, pc = "decode", NEW e \in DOMAIN c2v
    PROVE  /\ IsFiniteSet(DOMAIN c2v) /\ e[1] \in Rows /\ e[2] \in Variables
           /\ Parity(OnesOver(DOMAIN c2v, e[1], cw)) = 0
           /\ Joined(g) => Others(DOMAIN c2v, e) # {}
<1>1. /\ GoodGraph(g) /\ EdgesOK(g) /\ H = build_H(g) /\ syndrome_ok(H, cw)
      /\ DOMAIN c2v = expand_edges(g)
  BY DEF DecoderInv, GraphInv, EncoderInv, Coded
<1>2. IsFiniteSet(DOMAIN c2v) /\ e[1] \in 0 .. M_of(g) - 1 /\ e[2] \in 0 .. N_of(g) - 1
  BY <1>1, EdgesFinite
<1>3. e[1] \in DOMAIN H
  BY <1>1, <1>2, BuiltMatrix
<1>4. Parity(H[e[1]] \cap cw) = 0
  BY <1>1, <1>3 DEF syndrome_ok
<1>5. Parity(OnesOver(DOMAIN c2v, e[1], cw)) = 0
  BY <1>1, <1>2, <1>4, SameParity
<1>6. Joined(g) => Others(DOMAIN c2v, e) # {}
  BY <1>1, OthersThere
<1> QED
  BY <1>2, <1>5, <1>6 DEF Rows, Variables, M, N

LEMMA SignShift ==
    ASSUME NEW l \in Int, NEW x \in Int, NEW m \in Int, NEW s \in {1, -1}
    PROVE  /\ (x - m) * s >= 0 => ((l + x) - m) * s >= l * s
           /\ \A c \in Int : l * s >= 0 /\ ((x - m) - c) * s >= 0 => ((l + x) - m) * s >= c * s
<1>1. CASE s = 1
  BY <1>1
<1>2. CASE s = -1
  BY <1>2
<1> QED
  BY <1>1, <1>2

\* What a variable tells a check is no less than what any other check told it, and than
\* what came through of it.
LEMMA TellsOn ==
    ASSUME DecoderInv, pc = "decode", Erasing, NEW f \in DOMAIN c2v
    PROVE  /\ v2c(Posterior, f) \in Int /\ v2c(Posterior, f) * Sign(cw, f[2]) >= 0
           /\ f[2] \notin damage.erased => v2c(Posterior, f) * Sign(cw, f[2]) >= 4 * Unit(p)
           /\ \A h \in DOMAIN c2v : h # f /\ h[2] = f[2] =>
                  v2c(Posterior, f) * Sign(cw, f[2]) >= c2v[h] * Sign(cw, h[2])
<1> DEFINE v == f[2]
           D == {e \in DOMAIN c2v : e[2] = v}
<1>0. /\ EncoderInv /\ MessagesTrue /\ v \in Variables /\ llr[v] = Received(p, cw, damage, v)
      /\ IsFiniteSet(DOMAIN c2v)
  BY EvenOnSent DEF DecoderInv, GraphInv
<1>1. PICK s \in {1, -1} : s = Sign(cw, v)
  BY SignValues
<1>2. NoneAgainst(c2v, D, s) /\ IsFiniteSet(D) /\ f \in D
  <2>1. IsFiniteSet(D) /\ f \in D
    BY <1>0, FS_Subset
  <2> QED
    BY <1>0, <1>1, <2>1 DEF NoneAgainst, MessagesTrue
<1>3. v2c(Posterior, f) = (llr[v] + SumOver(c2v, D)) - c2v[f]
  BY <1>0 DEF v2c, Posterior, SumOver
<1>4. /\ SumOver(c2v, D) \in Int
      /\ \A y \in D : (SumOver(c2v, D) - c2v[y]) * s >= 0
      /\ \A y, z \in D : y # z => ((SumOver(c2v, D) - c2v[y]) - c2v[z]) * s >= 0
  <2> HIDE DEF D
  <2> QED
    BY <1>2, SetSumSign
<1>5. PICK l \in Int : l = llr[v] /\ l * s >= 0
  BY <1>0, <1>1, ReceivedSign DEF Erasing
<1>6. ASSUME v \notin damage.erased PROVE l * s >= 4 * Unit(p)
  <2>1. PICK u \in Nat : u = Unit(p)
    BY <1>0, UnitPositive
  <2>2. l = 4 * u * s
    BY <1>0, <1>1, <1>5, <1>6, <2>1 DEF Erasing, Received
  <2>3. (4 * u * s) * s = 4 * u
    OBVIOUS
  <2> QED
    BY <2>1, <2>2, <2>3
<1>7. PICK x \in Int, m \in Int : x = SumOver(c2v, D) /\ m = c2v[f]
  BY <1>0, <1>4 DEF MessagesTrue
<1>8. v2c(Posterior, f) = (l + x) - m
  <2> HIDE DEF D
  <2> QED
    BY <1>3, <1>5, <1>7
<1>9. (x - m) * s >= 0
  <2> HIDE DEF D
  <2> QED
    BY <1>2, <1>4, <1>7
<1>10. ASSUME NEW h \in DOMAIN c2v, h # f, h[2] = f[2]
       PROVE  v2c(Posterior, f) * s >= c2v[h] * s
  <2>1. PICK c \in Int : c = c2v[h]
    BY <1>0 DEF MessagesTrue
  <2>2. h \in D
    BY <1>10
  <2>3. ((x - m) - c) * s >= 0
    <3> HIDE DEF D
    <3> QED
      BY <1>2, <1>4, <1>7, <1>10, <2>1, <2>2
  <2>4. ((l + x) - m) * s >= c * s
    BY <1>5, <2>3, SignShift
  <2> QED
    BY <1>8, <2>1, <2>4
<1>11. v2c(Posterior, f) \in Int /\ v2c(Posterior, f) * s >= l * s
  <2>1. ((l + x) - m) * s >= l * s
    BY <1>9, SignShift
  <2> QED
    BY <1>8, <2>1
<1>12. v2c(Posterior, f) * s >= 0
  <2>1. PICK y \in Int : y = v2c(Posterior, f) * s /\ y >= l * s
    BY <1>11
  <2> QED
    BY <1>5, <2>1
<1>13. ASSUME v \notin damage.erased PROVE v2c(Posterior, f) * s >= 4 * Unit(p)
  <2>1. PICK y \in Int, k \in Int, u \in Nat : y = v2c(Posterior, f) * s /\ k = l * s /\ u = Unit(p)
    BY <1>0, <1>11, UnitPositive
  <2>2. y >= k /\ k >= 4 * u
    BY <1>6, <1>11, <1>13, <2>1
  <2> QED
    BY <2>1, <2>2
<1> QED
  BY <1>1, <1>10, <1>11, <1>12, <1>13

\* The messages of a turn, from those of the turn before.
LEMMA IterateTrue ==
    ASSUME DecoderInv, Erasing, Iterate
    PROVE  MessagesTrue'
<1> DEFINE edges == DOMAIN c2v
           app == Posterior
<1>0. pc = "decode"
  BY DEF Iterate
<1>1. ASSUME NEW e \in edges
      PROVE  /\ CheckMessage(edges, app, e) \in Int
             /\ CheckMessage(edges, app, e) * Sign(cw, e[2]) >= 0
  <2>1. IsFiniteSet(edges) /\ Others(edges, e) # {} /\ Parity(OnesOver(edges, e[1], cw)) = 0
    BY <1>0, EvenOnSent DEF Erasing
  <2>2. Faithful(Others(edges, e), app, cw)
    BY <1>0, TellsOn DEF Faithful, Others
  <2> HIDE DEF edges, app
  <2>3. /\ CheckMessage(edges, app, e) \in Int
        /\ \E m \in Nat : CheckMessage(edges, app, e) * Sign(cw, e[2]) = (3 * m) \div 4
    BY <2>1, <2>2, MessageSign
  <2> QED
    BY <2>3
<1>2. c2v' = [e \in edges |-> CheckMessage(edges, app, e)] /\ cw' = cw
  BY DEF Iterate, encoder
<1> HIDE DEF edges, app
<1> QED
  BY <1>1, <1>2 DEF MessagesTrue

\* The columns of the information are variables.
LEMMA InfoColumns ==
    ASSUME DecoderInv, pc \notin {"start", "refused"}
    PROVE  0 .. K - 1 \subseteq Variables
<1>1. g.zc \in Nat /\ g.kb \in Nat /\ g.nb \in Nat /\ g.kb <= g.nb
  BY DEF DecoderInv, GraphInv, GoodGraph
<1>2. PICK z \in Nat, k \in Nat, d \in Nat : z = g.zc /\ k = g.kb /\ g.nb = k + d
  <2>1. g.nb - g.kb \in Nat /\ g.nb = g.kb + (g.nb - g.kb)
    BY <1>1
  <2> QED
    BY <1>1, <2>1
<1>3. K = k * z /\ N = (k + d) * z
  BY <1>2 DEF K, N, K_of, N_of
<1>4. k * z \in Nat /\ d * z \in Nat /\ (k + d) * z = k * z + d * z
  OBVIOUS
<1> QED
  BY <1>3, <1>4 DEF Variables

\* What is returned from true messages.
LEMMA ReturnTrue ==
    ASSUME DecoderInv, pc = "decode", Return(hard_of(Posterior))
    PROVE  NeverMisled'
<1> SUFFICES ASSUME Erasing
             PROVE  result' \subseteq info.ones /\ info.ones \ result' \subseteq damage.erased
  BY DEF NeverMisled, Erasing, Return
<1> DEFINE hard == hard_of(Posterior)
<1>1. cw \cap (0 .. K - 1) = info.ones /\ result' = hard \cap (0 .. K - 1)
  BY DEF Return, DecoderInv, GraphInv, EncoderInv, Coded
<1>2. cw \cap Variables \subseteq Variables /\ DOMAIN Posterior = Variables
  BY DEF Posterior
<1>3. ASSUME NEW v \in Variables
      PROVE  /\ v \in hard => v \in cw
             /\ v \in cw /\ v \notin damage.erased => v \in hard
  <2>1. PICK s \in {1, -1} : s = Sign(cw, v) /\ (s = -1 <=> v \in cw)
    BY SignValues
  <2>2. PICK x \in Int : /\ x = Posterior[v] /\ x * s >= 0
                         /\ v \notin damage.erased => x * s > 0
    BY <2>1, PosteriorSign
  <2>3. v \in hard <=> x < 0
    BY <1>2, <2>2 DEF hard_of
  <2>4. (x < 0 => s = -1) /\ (s = -1 /\ x * s > 0 => x < 0)
    BY <2>2
  <2> QED
    BY <2>1, <2>2, <2>3, <2>4
<1>4. hard \subseteq Variables
  BY <1>2 DEF hard_of
<1>5. 0 .. K - 1 \subseteq Variables
  BY InfoColumns
<1> HIDE DEF hard
<1> QED
  BY <1>1, <1>3, <1>4, <1>5

LEMMA DecoderInvInit == CodesInit => DecoderInv
<1>1. CodesInit => GraphInv /\ pc = "start"
  BY EncoderInvInit DEF CodesInit, Init, EncInit, CompactInit, Blank, GraphInv
<1> QED
  BY <1>1 DEF DecoderInv, NeverMisled

\* Every graph that is accepted has the information among its columns.
LEMMA InfoFits ==
    ASSUME GraphInv, Begin \/ CompactBegin
    PROVE  g'.kb <= g'.nb /\ pc' = "eliminate"
<1>1. CASE Begin
  <2> DEFINE q == WithSize(p, info)
  <2>1. p \in LdpcParams
    BY <1>1, ParamsAssumption DEF Begin, GraphInv, EncoderInv, Call
  <2>2. q.bg \in BaseGraph /\ q.kb \in Int /\ q.zc \in Int /\ q.mb_use \in Int
    BY <2>1 DEF WithSize, LdpcParams
  <2>3. Accepted(q) /\ g' = make_graph(q) /\ pc' = "eliminate"
    BY <1>1 DEF Begin, Encodable, Setup
  <2> HIDE DEF q
  <2>4. KbOf(q) \in Int /\ KbOf(q) < BaseGraphs[q.bg].nb
    BY <2>2, <2>3, BaseGraphAssumption DEF KbOf, Accepted
  <2>5. make_graph(q).kb = KbOf(q)
        /\ make_graph(q).nb = IF q.mb_use > 0 THEN KbOf(q) + q.mb_use ELSE BaseGraphs[q.bg].nb
    BY DEF make_graph
  <2>6. BaseGraphs[q.bg].nb \in Nat
    BY <2>2, BaseGraphAssumption
  <2>7. make_graph(q).kb <= make_graph(q).nb
    BY <2>2, <2>4, <2>5, <2>6
  <2> QED
    BY <2>3, <2>7
<1>2. CASE CompactBegin
  <2>1. CompactEncodable(p, info) /\ g' = compact_make_graph(p) /\ pc' = "eliminate"
    BY <1>2 DEF CompactBegin, Setup
  <2>2. p.info_cols \in Int
    BY <1>2, CompactAssumption DEF CompactBegin, GraphInv, EncoderInv, Call
  <2> DEFINE h == compact_make_graph(p)
  <2>3. h.nb - h.kb = h.mb /\ h.mb = 4
    BY <2>1 DEF CompactEncodable, compact_make_graph
  <2>4. h.kb \in Int /\ h.nb \in Int
    BY <2>2 DEF compact_make_graph
  <2> HIDE DEF h
  <2>5. h.kb <= h.nb
    BY <2>3, <2>4
  <2> QED
    BY <2>1, <2>5 DEF h
<1> QED
  BY <1>1, <1>2

LEMMA DecoderInvStep ==
    ASSUME DecoderInv, [CodesNext]_vars
    PROVE  DecoderInv'
<1>0. GraphInv'
  BY GraphStep DEF DecoderInv
<1>1. CASE Begin \/ CompactBegin
  <2>1. g'.kb <= g'.nb /\ pc' = "eliminate"
    BY <1>1, InfoFits DEF DecoderInv
  <2> QED
    BY <1>0, <2>1 DEF DecoderInv, NeverMisled
<1>2. CASE encode_ge
  <2>1. pc = "eliminate" /\ g' = g /\ pc' \in {"eliminate", "singular", "encoded"}
    BY <1>2 DEF encode_ge, Eliminate, Singular, Finish
  <2> QED
    BY <1>0, <2>1 DEF DecoderInv, NeverMisled
<1>3. CASE Refuse \/ CompactRefuse \/ RefuseDecode
  <2>1. pc' \in {"refused", "undecodable"} /\ g' = g /\ (pc' = "undecodable" => pc = "encoded")
    BY <1>3 DEF Refuse, CompactRefuse, RefuseDecode
  <2> QED
    BY <1>0, <2>1 DEF DecoderInv, NeverMisled
<1>4. CASE Transmit
  <2>1. pc = "encoded" /\ pc' = "decode" /\ UNCHANGED <<p, g, cw>>
    BY <1>4 DEF Transmit
  <2>2. c2v' = [e \in expand_edges(g) |-> 0] /\ llr' = [v \in Variables |-> Received(p, cw, damage', v)]
    BY <1>4 DEF Transmit
  <2>3. Variables' = Variables
    BY <2>1 DEF Variables, N
  <2>4. DOMAIN c2v' = expand_edges(g')
    BY <2>1, <2>2
  <2>5. llr' = [v \in Variables' |-> Received(p', cw', damage', v)]
    BY <2>1, <2>2, <2>3
  <2>6. MessagesTrue'
    <3>1. \A e \in DOMAIN c2v' : c2v'[e] = 0
      BY <2>2
    <3> QED
      BY <3>1, SignValues DEF MessagesTrue
  <2> QED
    BY <1>0, <2>1, <2>4, <2>5, <2>6 DEF DecoderInv, NeverMisled
<1>5. CASE Iterate
  <2>1. pc = "decode" /\ pc' = "decode" /\ UNCHANGED <<p, g, cw, damage, llr>> /\ DOMAIN c2v' = DOMAIN c2v
    BY <1>5 DEF Iterate, encoder
  <2>2. Erasing' => MessagesTrue'
    BY <1>5, <2>1, IterateTrue DEF Erasing
  <2>3. Variables' = Variables
    BY <2>1 DEF Variables, N
  <2>4. llr' = [v \in Variables' |-> Received(p', cw', damage', v)]
    BY <2>1, <2>3 DEF DecoderInv
  <2>5. g'.kb <= g'.nb /\ DOMAIN c2v' = expand_edges(g')
    BY <2>1 DEF DecoderInv
  <2> QED
    BY <1>0, <2>1, <2>2, <2>4, <2>5 DEF DecoderInv, NeverMisled
<1>6. CASE Stop \/ GiveUp
  <2>1. pc = "decode" /\ Return(hard_of(Posterior))
    BY <1>6 DEF Stop, GiveUp
  <2>2. NeverMisled'
    BY <2>1, ReturnTrue
  <2>3. pc' = "decoded" /\ UNCHANGED <<p, g, cw, damage, llr, c2v>>
    BY <2>1 DEF Return
  <2>4. Variables' = Variables
    BY <2>3 DEF Variables, N
  <2>5. llr' = [v \in Variables' |-> Received(p', cw', damage', v)]
    BY <2>1, <2>3, <2>4 DEF DecoderInv
  <2>6. Erasing' => MessagesTrue'
    BY <2>1, <2>3 DEF DecoderInv, Erasing, MessagesTrue
  <2>7. g'.kb <= g'.nb /\ DOMAIN c2v' = expand_edges(g')
    BY <2>1, <2>3 DEF DecoderInv
  <2> QED
    BY <1>0, <2>2, <2>5, <2>6, <2>7 DEF DecoderInv
<1>7. CASE UNCHANGED vars
  <2>1. UNCHANGED <<pc, p, g, cw, info, damage, llr, c2v, result>>
    BY <1>7 DEF vars, encoder, decoder
  <2>2. Variables' = Variables
    BY <2>1 DEF Variables, N
  <2>3. NeverMisled' /\ (Erasing' => Erasing) /\ (MessagesTrue => MessagesTrue')
    BY <2>1 DEF NeverMisled, Erasing, MessagesTrue, DecoderInv
  <2> QED
    BY <1>0, <2>1, <2>2, <2>3 DEF DecoderInv
<1> QED
  BY <1>1, <1>2, <1>3, <1>4, <1>5, <1>6, <1>7, StepCases DEF Decode, decode_minsum, CompactTransmit

\* On a link that erases bits, as rate matching does, and inverts none, the decoder
\* returns no one that was not sent and loses none that got through, for every base
\* graph whose checks have two edges, every lifting, information and number of turns; so
\* what comes through whole is returned whole (ldpc.cpp:168-228).
THEOREM NeverMisledTheorem == CodesSpec => []NeverMisled
<1>1. DecoderInv => NeverMisled
  BY DEF DecoderInv
<1> QED
  BY <1>1, DecoderInvInit, DecoderInvStep, PTL DEF CodesSpec

-----------------------------------------------------------------------------
(* What the decoder makes good.                                            *)

\* A check that is even on two words cannot see them differ at one of its edges only.
LEMMA OddOneOut ==
    ASSUME NEW edges, IsFiniteSet(edges), NEW e \in edges, NEW X, NEW Y,
           \A f \in Others(edges, e) : f[2] \in X <=> f[2] \in Y,
           Parity(OnesOver(edges, e[1], X)) = 0, Parity(OnesOver(edges, e[1], Y)) = 0
    PROVE  e[2] \in X <=> e[2] \in Y
<1> DEFINE O(Z) == OnesOver(edges, e[1], Z)
<1>1. ASSUME NEW Z PROVE IsFiniteSet(O(Z))
  <2>1. O(Z) \subseteq edges
    BY DEF OnesOver
  <2> QED
    BY <2>1, FS_Subset
<1>2. ASSUME NEW Z, NEW W, e[2] \in Z, e[2] \notin W, O(W) = O(Z) \ {e},
             Parity(O(Z)) = 0, Parity(O(W)) = 0
      PROVE  FALSE
  <2>1. e \in O(Z)
    BY <1>2 DEF OnesOver
  <2>2. IsFiniteSet(O(Z))
    BY <1>1
  <2>3. Cardinality(O(W)) = Cardinality(O(Z)) - 1 /\ Cardinality(O(Z)) \in Nat
    <3> HIDE DEF O
    <3> QED
      BY <1>2, <2>1, <2>2, FS_RemoveElement, FS_CardinalityType
  <2>4. PICK n \in Nat : n = Cardinality(O(Z)) /\ n - 1 = Cardinality(O(W))
    BY <2>3
  <2>5. n % 2 = 0 /\ (n - 1) % 2 = 0
    BY <1>2, <2>4 DEF Parity
  <2> QED
    BY <2>5
<1>3. O(X) \ {e} = O(Y) \ {e}
  BY DEF OnesOver, Others
<1>4. CASE e[2] \in X /\ e[2] \notin Y
  <2>1. O(Y) = O(X) \ {e}
    BY <1>3, <1>4 DEF OnesOver
  <2> QED
    BY <1>2, <1>4, <2>1
<1>5. CASE e[2] \in Y /\ e[2] \notin X
  <2>1. O(X) = O(Y) \ {e}
    BY <1>3, <1>5 DEF OnesOver
  <2> QED
    BY <1>2, <1>5, <2>1
<1> QED
  BY <1>4, <1>5

\* The a posteriori LLRs say what was sent.
LEMMA HardBit ==
    ASSUME NEW v \in Variables, Posterior[v] \in Int
    PROVE  /\ Posterior[v] * Sign(cw, v) > 0 => (v \in hard_of(Posterior) <=> v \in cw)
           /\ Posterior[v] * Sign(cw, v) < 0 => (v \in hard_of(Posterior) <=> v \notin cw)
           /\ Posterior[v] * Sign(cw, v) >= 0 /\ v \in hard_of(Posterior) => v \in cw
<1>1. PICK s \in {1, -1} : s = Sign(cw, v) /\ (s = -1 <=> v \in cw)
  BY SignValues
<1>2. PICK x \in Int : x = Posterior[v]
  OBVIOUS
<1>3. v \in hard_of(Posterior) <=> x < 0
  BY <1>2 DEF hard_of, Posterior
<1>4. /\ x * s > 0 => (x < 0 <=> s = -1)
      /\ x * s < 0 => (x < 0 <=> s # -1)
      /\ x * s >= 0 /\ x < 0 => s = -1
  OBVIOUS
<1> QED
  BY <1>1, <1>2, <1>3, <1>4

\* What a decoding returns when the a posteriori LLRs of all variables say what was sent.
LEMMA ReturnsInfo ==
    ASSUME DecoderInv, pc = "decode", Return(hard_of(Posterior)),
           \A v \in Variables : v \in hard_of(Posterior) <=> v \in cw
    PROVE  result' = info.ones
<1>1. cw \cap (0 .. K - 1) = info.ones /\ result' = hard_of(Posterior) \cap (0 .. K - 1)
  BY DEF Return, DecoderInv, GraphInv, EncoderInv, Coded
<1>2. 0 .. K - 1 \subseteq Variables
  BY InfoColumns
<1> QED
  BY <1>1, <1>2

-----------------------------------------------------------------------------
(* Erasures that peel.                                                     *)

Layered(edges, erased, layer) ==
    \A v \in erased : layer[v] \in Nat \ {0} /\ \E e \in edges : e[2] = v /\ Tells(edges, erased, layer, e)

\* After so many turns, the edges that tell the variables of so many layers carry
\* messages no smaller than what three quarters a turn leave of the unit.
LayersTold ==
    \A layer : Layered(DOMAIN c2v, damage.erased, layer) =>
        \A e \in DOMAIN c2v :
            /\ e[2] \in damage.erased /\ layer[e[2]] <= it
            /\ Tells(DOMAIN c2v, damage.erased, layer, e)
            => c2v[e] * Sign(cw, e[2]) >= Power4[p.max_iter - it]

\* Powers grow.
LEMMA PowerGrows ==
    ASSUME NEW n \in Nat, NEW i \in 0 .. n
    PROVE  Power4[n - i] <= Power4[n]
<1> DEFINE S == {k \in Nat : k <= n => Power4[n - k] <= Power4[n]}
<1>1. 0 \in S
  BY Power4Values
<1>2. ASSUME NEW k \in Nat, k \in S PROVE k + 1 \in S
  <2> SUFFICES ASSUME k + 1 <= n PROVE Power4[n - (k + 1)] <= Power4[n]
    OBVIOUS
  <2>1. n - (k + 1) \in Nat /\ (n - (k + 1)) + 1 = n - k /\ n - k \in Nat
    OBVIOUS
  <2>2. PICK j \in Nat : j = n - (k + 1) /\ j + 1 = n - k
    BY <2>1
  <2>3. Power4[j + 1] = 4 * Power4[j] /\ Power4[j] \in Nat \ {0} /\ Power4[n] \in Nat
    BY Power4Values
  <2>4. Power4[n - k] <= Power4[n]
    BY <1>2
  <2> QED
    BY <2>2, <2>3, <2>4
<1> HIDE DEF S
<1>3. i \in S
  BY <1>1, <1>2, NatFrom
<1> QED
  BY <1>3 DEF S

\* At a check that tells a variable, all other variables speak up.
LEMMA OthersKnown ==
    ASSUME DecoderInv, pc = "decode", Erasing, it \in 0 .. p.max_iter, LayersTold,
           NEW layer, Layered(DOMAIN c2v, damage.erased, layer),
           NEW e \in DOMAIN c2v, e[2] \in damage.erased, layer[e[2]] <= it + 1,
           Tells(DOMAIN c2v, damage.erased, layer, e), NEW f \in Others(DOMAIN c2v, e)
    PROVE  v2c(Posterior, f) * Sign(cw, f[2]) >= Power4[p.max_iter - it]
<1>1. f \in DOMAIN c2v /\ e \in Others(DOMAIN c2v, f)
  BY DEF Others
<1>2. PICK s \in {1, -1} : s = Sign(cw, f[2])
  BY SignValues
<1>3. PICK y \in Int : y = v2c(Posterior, f) * s
  BY <1>1, <1>2, TellsOn
<1>4. PICK n \in Nat, b \in Nat, u \in Nat : n = p.max_iter /\ b = Power4[p.max_iter - it] /\ u = Unit(p) /\ b <= u
  <2>1. EncoderInv
    BY DEF DecoderInv, GraphInv
  <2>2. p.max_iter \in Nat /\ p.max_iter - it \in Nat /\ Unit(p) = Power4[p.max_iter]
    BY <2>1, UnitPositive DEF Unit
  <2> QED
    BY <2>2, PowerGrows, Power4Values
<1>5. CASE f[2] \notin damage.erased
  <2>1. y >= 4 * u
    BY <1>1, <1>2, <1>3, <1>4, <1>5, TellsOn
  <2>2. y >= b
    BY <1>4, <2>1
  <2> QED
    BY <1>2, <1>3, <1>4, <2>2
<1>6. CASE f[2] \in damage.erased
  <2>1. layer[f[2]] < layer[e[2]] /\ layer[f[2]] \in Nat /\ layer[e[2]] \in Nat
    BY <1>6 DEF Tells, Layered
  <2>2. layer[f[2]] <= it
    BY <2>1
  <2>3. PICK h \in DOMAIN c2v : h[2] = f[2] /\ Tells(DOMAIN c2v, damage.erased, layer, h)
    BY <1>6 DEF Layered
  <2>4. h # f
    <3>1. CASE h = f
      <4>1. layer[e[2]] < layer[f[2]]
        BY <1>1, <2>3, <3>1 DEF Tells
      <4> QED
        BY <2>1, <4>1
    <3> QED
      BY <3>1
  <2>5. c2v[h] * Sign(cw, h[2]) >= Power4[p.max_iter - it]
    BY <1>6, <2>2, <2>3 DEF LayersTold
  <2>6. PICK c \in Int : c = c2v[h] * s
    <3>1. c2v[h] \in Int
      BY DEF DecoderInv, MessagesTrue
    <3> QED
      BY <3>1
  <2>7. y >= c /\ c >= b
    BY <1>1, <1>2, <1>3, <1>4, <2>3, <2>4, <2>5, <2>6, TellsOn
  <2>8. y >= b
    BY <2>7
  <2> QED
    BY <1>2, <1>3, <1>4, <2>8
<1> QED
  BY <1>5, <1>6

\* So the turn tells one more layer.
LEMMA LayersStep ==
    ASSUME DecoderInv, Erasing, Iterate, it \in 0 .. p.max_iter, LayersTold
    PROVE  LayersTold'
<1> DEFINE edges == DOMAIN c2v
<1>0. /\ pc = "decode" /\ it < p.max_iter /\ it' = it + 1 /\ UNCHANGED <<p, g, cw, damage>>
      /\ c2v' = [e \in edges |-> CheckMessage(edges, Posterior, e)]
  BY DEF Iterate, encoder
<1> SUFFICES ASSUME NEW layer, Layered(edges, damage.erased, layer), NEW e \in edges,
                    e[2] \in damage.erased, layer[e[2]] <= it + 1,
                    Tells(edges, damage.erased, layer, e)
             PROVE  CheckMessage(edges, Posterior, e) * Sign(cw, e[2]) >= Power4[p.max_iter - (it + 1)]
  <2>1. DOMAIN c2v' = edges /\ \A e \in edges : c2v'[e] = CheckMessage(edges, Posterior, e)
    BY <1>0
  <2> QED
    BY <1>0, <2>1 DEF LayersTold
<1>1. /\ IsFiniteSet(edges) /\ Parity(OnesOver(edges, e[1], cw)) = 0
      /\ Others(edges, e) # {} /\ Joined(g)
  BY <1>0, EvenOnSent DEF Erasing
<1>2. Faithful(Others(edges, e), Posterior, cw)
  BY <1>0, TellsOn DEF Faithful, Others
<1>3. PICK m \in Nat, f \in Others(edges, e) :
        CheckMessage(edges, Posterior, e) * Sign(cw, e[2]) = (3 * m) \div 4 /\ m = Abs(v2c(Posterior, f))
  BY <1>1, <1>2, MessageSign
<1>4. PICK b \in Nat : b = Power4[p.max_iter - (it + 1)] /\ Power4[p.max_iter - it] = 4 * b
  <2>1. p.max_iter \in Nat
    BY UnitPositive DEF DecoderInv, GraphInv
  <2>2. p.max_iter - (it + 1) \in Nat /\ (p.max_iter - (it + 1)) + 1 = p.max_iter - it
    BY <1>0, <2>1
  <2> QED
    BY <2>2, Power4Values
<1>5. v2c(Posterior, f) * Sign(cw, f[2]) >= 4 * b
  BY <1>0, <1>4, OthersKnown
<1>6. m >= 4 * b
  <2>1. PICK s \in {1, -1} : s = Sign(cw, f[2])
    BY SignValues
  <2>2. PICK y \in Int : y = v2c(Posterior, f)
    BY <1>2 DEF Faithful
  <2>3. y * s >= 4 * b /\ m = Abs(y)
    BY <1>3, <1>5, <2>1, <2>2
  <2> QED
    BY <2>3 DEF Abs
<1>7. (3 * m) \div 4 >= b
  BY <1>6
<1> QED
  BY <1>3, <1>4, <1>7

\* What came through is what was sent, and an erased bit that is a one was sent as one.
LEMMA HardSign ==
    ASSUME DecoderInv, pc = "decode", Erasing, NEW v \in Variables
    PROVE  /\ v \in hard_of(Posterior) => v \in cw
           /\ v \notin damage.erased => (v \in hard_of(Posterior) <=> v \in cw)
BY PosteriorSign, HardBit

\* A word all of whose checks are even is the word sent: of the bits they differ in, one
\* of the first layer is all that its check sees.
LEMMA EvenIsSent ==
    ASSUME DecoderInv, pc = "decode", Erasing, NEW layer, Layered(DOMAIN c2v, damage.erased, layer),
           syndrome(DOMAIN c2v, hard_of(Posterior)), NEW v \in Variables
    PROVE  v \in hard_of(Posterior) <=> v \in cw
<1> DEFINE hard == hard_of(Posterior)
           Differ == {x \in Variables : ~(x \in hard <=> x \in cw)}
           S == {layer[x] : x \in Differ}
<1>1. Differ \subseteq damage.erased
  BY HardSign
<1>2. S \subseteq Nat
  BY <1>1 DEF Layered
<1>3. CASE Differ # {}
  <2>1. PICK x \in Differ : \A y \in Differ : layer[x] <= layer[y]
    <3>1. PICK n \in S : \A k \in S : n <= k
      BY <1>2, <1>3, LeastNat
    <3> QED
      BY <3>1
  <2>2. PICK e \in DOMAIN c2v : e[2] = x /\ Tells(DOMAIN c2v, damage.erased, layer, e)
    BY <1>1, <2>1 DEF Layered
  <2>3. IsFiniteSet(DOMAIN c2v) /\ e[1] \in Rows /\ Parity(OnesOver(DOMAIN c2v, e[1], cw)) = 0
    BY EvenOnSent
  <2>4. Parity(OnesOver(DOMAIN c2v, e[1], hard)) = 0
    BY <2>3 DEF syndrome, OnesOver
  <2>5. ASSUME NEW f \in Others(DOMAIN c2v, e) PROVE f[2] \in hard <=> f[2] \in cw
    <3>1. f[2] \in Variables
      BY EvenOnSent DEF Others
    <3>2. CASE f[2] \in damage.erased
      <4>1. layer[f[2]] < layer[x] /\ layer[f[2]] \in Nat /\ layer[x] \in Nat
        BY <1>1, <2>1, <2>2, <3>2 DEF Tells, Layered
      <4>2. f[2] \notin Differ
        BY <2>1, <4>1
      <4> QED
        BY <3>1, <4>2
    <3>3. CASE f[2] \notin damage.erased
      BY <1>1, <3>1, <3>3
    <3> QED
      BY <3>2, <3>3
  <2>6. e[2] \in hard <=> e[2] \in cw
    <3> HIDE DEF hard
    <3> QED
      BY <2>3, <2>4, <2>5, OddOneOut
  <2> QED
    BY <2>1, <2>2, <2>6
<1> QED
  BY <1>3

\* Variables that a layer's turn has told say what was sent.
LEMMA ToldIsSent ==
    ASSUME DecoderInv, pc = "decode", Erasing, it \in 0 .. p.max_iter, LayersTold,
           NEW layer, Layered(DOMAIN c2v, damage.erased, layer),
           NEW v \in Variables, v \in damage.erased => layer[v] <= it
    PROVE  v \in hard_of(Posterior) <=> v \in cw
<1>1. CASE v \notin damage.erased
  BY <1>1, HardSign
<1>2. CASE v \in damage.erased
  <2>1. PICK e \in DOMAIN c2v : e[2] = v /\ Tells(DOMAIN c2v, damage.erased, layer, e)
    BY <1>2 DEF Layered
  <2>2. c2v[e] * Sign(cw, v) >= Power4[p.max_iter - it]
    BY <1>2, <2>1 DEF LayersTold
  <2>3. PICK b \in Nat \ {0} : b = Power4[p.max_iter - it]
    <3>1. p.max_iter \in Nat
      BY UnitPositive DEF DecoderInv, GraphInv
    <3> QED
      BY <3>1, Power4Values
  <2>4. PICK s \in {1, -1} : s = Sign(cw, v)
    BY SignValues
  <2>5. PICK x \in Int, c \in Int : /\ x = Posterior[v] /\ c = c2v[e] /\ (x - c) * s >= 0
    BY <2>1, <2>4, PosteriorSign DEF DecoderInv, MessagesTrue
  <2>6. c * s >= b
    BY <2>2, <2>3, <2>4, <2>5
  <2>7. x * s > 0
    <3>1. CASE s = 1
      BY <2>5, <2>6, <3>1
    <3>2. CASE s = -1
      BY <2>5, <2>6, <3>2
    <3> QED
      BY <3>1, <3>2
  <2> QED
    BY <2>4, <2>5, <2>7, HardBit
<1> QED
  BY <1>1, <1>2

-----------------------------------------------------------------------------
(* Weak wrong bits apart from each other.                                  *)

Apart == damage.erased = {} /\ Joined(g) /\ Scattered(DOMAIN c2v, damage.wrong)

\* The checks have said nothing yet.
Unasked == it = 0 /\ \A e \in DOMAIN c2v : c2v[e] = 0

\* The checks have answered once: three quarters of what came through, or of a wrong bit.
Answered ==
    /\ it = 1
    /\ \A e \in DOMAIN c2v :
        /\ c2v[e] \in Int
        /\ c2v[e] * Sign(cw, e[2]) >=
              IF e \in Against(DOMAIN c2v, damage.wrong) THEN -((3 * Unit(p)) \div 4) ELSE 3 * Unit(p)

LEMMA ReceivedApart ==
    ASSUME DecoderInv, pc = "decode", damage.erased = {}, NEW v \in Variables
    PROVE  /\ llr[v] \in Int
           /\ llr[v] * Sign(cw, v) = IF v \in damage.wrong THEN -Unit(p) ELSE 4 * Unit(p)
<1>1. PICK u \in Nat : u = Unit(p)
  BY UnitPositive DEF DecoderInv, GraphInv
<1>2. PICK s \in {1, -1} : s = Sign(cw, v)
  BY SignValues
<1>3. llr[v] = IF v \in damage.wrong THEN (-u) * s ELSE 4 * u * s
  BY <1>1, <1>2 DEF DecoderInv, Received
<1>4. ((-u) * s) * s = -u /\ (4 * u * s) * s = 4 * u /\ (-u) * s \in Int /\ 4 * u * s \in Int
  OBVIOUS
<1> QED
  BY <1>1, <1>2, <1>3, <1>4

LEMMA UnaskedPosterior ==
    ASSUME DecoderInv, pc = "decode", damage.erased = {}, Unasked, NEW v \in Variables
    PROVE  Posterior[v] = llr[v]
<1> DEFINE D == {e \in DOMAIN c2v : e[2] = v}
<1>1. IsFiniteSet(D)
  <2>1. IsFiniteSet(DOMAIN c2v)
    BY EdgesFinite DEF DecoderInv, GraphInv
  <2> QED
    BY <2>1, FS_Subset
<1>2. NoneAgainst(c2v, D, 1) /\ NoneAgainst(c2v, D, -1)
  BY DEF NoneAgainst, Unasked
<1>3. Posterior[v] = llr[v] + SumOver(c2v, D)
  BY DEF Posterior, SumOver
<1> HIDE DEF D
<1>4. SumOver(c2v, D) \in Int /\ SumOver(c2v, D) * 1 >= 0 /\ SumOver(c2v, D) * (-1) >= 0
  BY <1>1, <1>2, SetSumSign
<1>5. SumOver(c2v, D) = 0
  BY <1>4
<1> QED
  BY <1>3, <1>5, ReceivedApart

\* The answers of the first turn.
LEMMA ApartStep ==
    ASSUME DecoderInv, Apart, Unasked, Iterate
    PROVE  Answered'
<1> DEFINE edges == DOMAIN c2v
<1>0. /\ pc = "decode" /\ it' = 1 /\ UNCHANGED <<p, g, cw, damage>>
      /\ c2v' = [e \in edges |-> CheckMessage(edges, Posterior, e)]
  BY DEF Iterate, encoder, Unasked
<1>1. PICK u \in Nat : u = Unit(p)
  BY UnitPositive DEF DecoderInv, GraphInv
<1>2. ASSUME NEW f \in edges
      PROVE  /\ v2c(Posterior, f) \in Int
             /\ v2c(Posterior, f) * Sign(cw, f[2]) = IF f[2] \in damage.wrong THEN -u ELSE 4 * u
  <2>1. f[2] \in Variables
    BY <1>0, EvenOnSent
  <2>2. Posterior[f[2]] = llr[f[2]] /\ llr[f[2]] \in Int
    BY <1>0, <2>1, UnaskedPosterior, ReceivedApart DEF Apart
  <2>3. v2c(Posterior, f) = llr[f[2]]
    BY <2>2 DEF v2c, Unasked
  <2> QED
    BY <1>0, <1>1, <2>1, <2>2, <2>3, ReceivedApart DEF Apart
<1>3. ASSUME NEW e \in edges
      PROVE  /\ CheckMessage(edges, Posterior, e) \in Int
             /\ CheckMessage(edges, Posterior, e) * Sign(cw, e[2]) >=
                  IF e \in Against(edges, damage.wrong) THEN -((3 * u) \div 4) ELSE 3 * u
  <2>1. /\ IsFiniteSet(edges) /\ Parity(OnesOver(edges, e[1], cw)) = 0 /\ Others(edges, e) # {}
        /\ \A f \in Others(edges, e) : f \in edges
    BY <1>0, EvenOnSent DEF Apart, Others
  <2>2. CASE e \in Against(edges, damage.wrong)
    <3>1. PICK f \in Others(edges, e) : f[2] \in damage.wrong
      BY <2>2 DEF Against
    <3>2. \A h \in Others(edges, e) : v2c(Posterior, h) \in Int
      BY <1>2, <2>1
    <3>3. PICK m \in Nat : /\ CheckMessage(edges, Posterior, e) =
                              (IF Parity(Negative(edges, Posterior, e)) = 1 THEN -1 ELSE 1) * ((3 * m) \div 4)
                           /\ m <= Abs(v2c(Posterior, f))
      <4> HIDE DEF edges
      <4> QED
        BY <2>1, <3>2, MessageSize
    <3>4. PICK y \in Int, r \in {1, -1} : y = v2c(Posterior, f) /\ r = Sign(cw, f[2]) /\ y * r = -u
      BY <1>2, <2>1, <3>1, SignValues
    <3>5. m <= u
      BY <3>3, <3>4 DEF Abs
    <3>6. PICK t \in Nat : t = (3 * m) \div 4 /\ t <= (3 * u) \div 4
      BY <3>5
    <3>7. CheckMessage(edges, Posterior, e) = t \/ CheckMessage(edges, Posterior, e) = -t
      BY <3>3, <3>6
    <3>8. PICK s \in {1, -1} : s = Sign(cw, e[2])
      BY SignValues
    <3>9. PICK c \in Int : c = CheckMessage(edges, Posterior, e) /\ (c = t \/ c = -t)
      BY <3>7
    <3>10. c * s >= -((3 * u) \div 4)
      <4>1. c * s >= -t
        BY <3>9
      <4> QED
        BY <3>6, <4>1
    <3> QED
      BY <2>2, <3>8, <3>9, <3>10
  <2>3. CASE e \notin Against(edges, damage.wrong)
    <3>1. \A f \in Others(edges, e) : v2c(Posterior, f) \in Int /\ v2c(Posterior, f) * Sign(cw, f[2]) = 4 * u
      BY <1>2, <2>1, <2>3 DEF Against
    <3>2. Faithful(Others(edges, e), Posterior, cw)
      BY <3>1 DEF Faithful
    <3>3. /\ CheckMessage(edges, Posterior, e) \in Int
          /\ \E m \in Nat : /\ CheckMessage(edges, Posterior, e) * Sign(cw, e[2]) = (3 * m) \div 4
                            /\ \E f \in Others(edges, e) : m = Abs(v2c(Posterior, f))
      <4> HIDE DEF edges
      <4> QED
        BY <2>1, <3>2, MessageSign
    <3>4. PICK m \in Nat, f \in Others(edges, e) :
            CheckMessage(edges, Posterior, e) * Sign(cw, e[2]) = (3 * m) \div 4 /\ m = Abs(v2c(Posterior, f))
      BY <3>3
    <3>5. PICK y \in Int, r \in {1, -1} : y = v2c(Posterior, f) /\ r = Sign(cw, f[2]) /\ y * r = 4 * u
      BY <3>1, SignValues
    <3>6. m = 4 * u
      BY <3>4, <3>5 DEF Abs
    <3>7. (3 * m) \div 4 = 3 * u
      BY <3>6
    <3> QED
      BY <2>3, <3>3, <3>4, <3>7
  <2> QED
    BY <2>2, <2>3
<1>4. DOMAIN c2v' = edges /\ \A e \in edges : c2v'[e] = CheckMessage(edges, Posterior, e)
  BY <1>0
<1>5. Unit(p)' = u
  BY <1>0, <1>1 DEF Unit
<1>6. (it' = 1 /\ damage' = damage /\ cw' = cw)
  BY <1>0
<1> HIDE DEF edges
<1> QED
  BY <1>3, <1>4, <1>5, <1>6 DEF Answered

\* Five quarters of a small answer do not outweigh what came through.
LEMMA FiveWeak ==
    ASSUME NEW u \in Nat \ {0}, NEW n \in 0 .. 5, NEW b \in Nat, b = (3 * u) \div 4
    PROVE  4 * u - b * n > 0
<1>1. 4 * b <= 3 * u
  OBVIOUS
<1>2. b * n <= 5 * b
  BY SMTT(30)
<1> QED
  BY <1>1, <1>2

LEMMA AnsweredIsSent ==
    ASSUME DecoderInv, pc = "decode", Apart, Answered, NEW v \in Variables
    PROVE  v \in hard_of(Posterior) <=> v \in cw
<1> DEFINE edges == DOMAIN c2v
           D == {e \in edges : e[2] = v}
           X == Against(edges, damage.wrong)
<1>1. PICK u \in Nat \ {0} : u = Unit(p)
  BY UnitPositive DEF DecoderInv, GraphInv
<1>2. PICK s \in {1, -1} : s = Sign(cw, v)
  BY SignValues
<1>3. PICK b \in Nat : b = (3 * u) \div 4
  OBVIOUS
<1>4. IsFiniteSet(D)
  <2>1. IsFiniteSet(edges)
    BY EdgesFinite DEF DecoderInv, GraphInv
  <2> QED
    BY <2>1, FS_Subset
<1>5. \A e \in D : c2v[e] \in Int /\ c2v[e] * s >= IF e \in X THEN -b ELSE 3 * u
  BY <1>1, <1>2, <1>3 DEF Answered
<1>6. Posterior[v] = llr[v] + SumOver(c2v, D)
  BY DEF Posterior, SumOver
<1>7. PICK l \in Int : l = llr[v] /\ l * s = IF v \in damage.wrong THEN -u ELSE 4 * u
  BY <1>1, <1>2, ReceivedApart DEF Apart
<1>8. Scattered(edges, damage.wrong)
  BY DEF Apart
<1> HIDE DEF D, X
<1>9. CASE v \in damage.wrong
  <2>1. PICK e \in D : TRUE
    BY <1>8, <1>9 DEF Scattered, D
  <2>2. \A f \in D : f \notin X
    BY <1>8, <1>9 DEF Scattered, D, X
  <2>3. NoneAgainst(c2v, D, s)
    <3>1. 3 * u >= 0
      OBVIOUS
    <3>2. ASSUME NEW f \in D PROVE c2v[f] \in Int /\ c2v[f] * s >= 0
      <4>1. PICK c \in Int : c = c2v[f] /\ c * s >= 3 * u
        BY <1>5, <2>2
      <4> QED
        BY <3>1, <4>1
    <3> QED
      BY <3>2 DEF NoneAgainst
  <2>4. PICK x \in Int, c \in Int : /\ x = SumOver(c2v, D) /\ c = c2v[e] /\ (x - c) * s >= 0
    BY <1>4, <1>5, <2>1, <2>3, SetSumSign
  <2>5. c * s >= 3 * u
    BY <1>5, <2>1, <2>2, <2>4
  <2>6. l * s = -u
    BY <1>7, <1>9
  <2>7. (l + x) * s > 0
    <3>1. CASE s = 1
      BY <2>4, <2>5, <2>6, <3>1
    <3>2. CASE s = -1
      BY <2>4, <2>5, <2>6, <3>2
    <3> QED
      BY <3>1, <3>2
  <2>8. Posterior[v] = l + x
    BY <1>6, <1>7, <2>4
  <2> QED
    BY <1>2, <2>7, <2>8, HardBit
<1>10. CASE v \notin damage.wrong
  <2>1. Bounded(c2v, D, s, X, b)
    <3>1. ASSUME NEW f \in D PROVE c2v[f] \in Int /\ c2v[f] * s >= IF f \in X THEN -b ELSE 0
      <4>1. PICK c \in Int : c = c2v[f] /\ c * s >= IF f \in X THEN -b ELSE 3 * u
        BY <1>5
      <4>2. f \notin X => c * s >= 0
        BY <4>1
      <4> QED
        BY <4>1, <4>2
    <3> QED
      BY <1>4, <3>1 DEF Bounded
  <2>2. PICK x \in Int, n \in Nat : /\ x = SumOver(c2v, D) /\ n = Cardinality(D \cap X)
                                    /\ x * s + b * n >= 0
    BY <2>1, SetSumBound
  <2>3. n <= 5
    <3>1. CASE D \cap X = {}
      <4>1. n = Cardinality({})
        BY <2>2, <3>1
      <4>2. Cardinality({}) = 0
        BY FS_EmptySet
      <4> QED
        BY <4>1, <4>2
    <3>2. CASE D \cap X # {}
      <4>1. PICK e \in D \cap X : TRUE
        BY <3>2
      <4>2. {f \in X : f[2] = e[2]} = D \cap X
        BY <4>1 DEF D, X, Against
      <4>3. Cardinality({f \in X : f[2] = e[2]}) <= 5
        BY <1>8, <4>1 DEF Scattered, X
      <4> QED
        BY <2>2, <4>2, <4>3
    <3> QED
      BY <3>1, <3>2
  <2>4. l * s = 4 * u
    BY <1>7, <1>10
  <2>5. (l + x) * s > 0
    <3>1. PICK w \in Int : w = b * n /\ 4 * u - w > 0
      BY <1>3, <2>3, FiveWeak
    <3>2. x * s + w >= 0
      BY <2>2, <3>1
    <3>3. CASE s = 1
      BY <2>4, <3>1, <3>2, <3>3
    <3>4. CASE s = -1
      BY <2>4, <3>1, <3>2, <3>4
    <3> QED
      BY <3>3, <3>4
  <2>6. Posterior[v] = l + x
    BY <1>6, <1>7, <2>2
  <2> QED
    BY <1>2, <2>5, <2>6, HardBit
<1> QED
  BY <1>9, <1>10

\* A word that agrees with the one sent has all its checks even, as that one has.
LEMMA SentEven ==
    ASSUME DecoderInv, pc = "decode", NEW hard, \A v \in Variables : v \in hard <=> v \in cw
    PROVE  syndrome(DOMAIN c2v, hard)
<1> SUFFICES ASSUME NEW c \in Rows PROVE Parity(OnesOver(DOMAIN c2v, c, hard)) = 0
  BY DEF syndrome, OnesOver
<1>1. OnesOver(DOMAIN c2v, c, hard) = OnesOver(DOMAIN c2v, c, cw)
  BY EvenOnSent DEF OnesOver
<1>2. CASE OnesOver(DOMAIN c2v, c, cw) = {}
  <2>1. Cardinality({}) = 0
    BY FS_EmptySet
  <2>2. Parity({}) = 0
    BY <2>1 DEF Parity
  <2> QED
    BY <1>1, <1>2, <2>2
<1>3. CASE OnesOver(DOMAIN c2v, c, cw) # {}
  <2>1. PICK e \in DOMAIN c2v : e[1] = c
    BY <1>3 DEF OnesOver
  <2>2. Parity(OnesOver(DOMAIN c2v, e[1], cw)) = 0
    BY EvenOnSent
  <2> QED
    BY <1>1, <2>1, <2>2
<1> QED
  BY <1>2, <1>3

\* A wrong bit is the only one of its check: the first turn does not return it.
LEMMA UnaskedIsSent ==
    ASSUME DecoderInv, pc = "decode", Apart, Unasked,
           syndrome(DOMAIN c2v, hard_of(Posterior)), NEW v \in Variables
    PROVE  v \in hard_of(Posterior) <=> v \in cw
<1> DEFINE edges == DOMAIN c2v
           hard == hard_of(Posterior)
<1>1. PICK u \in Nat \ {0} : u = Unit(p)
  BY UnitPositive DEF DecoderInv, GraphInv
<1>2. ASSUME NEW x \in Variables
      PROVE  /\ x \in damage.wrong => (x \in hard <=> x \notin cw)
             /\ x \notin damage.wrong => (x \in hard <=> x \in cw)
  <2>1. /\ Posterior[x] \in Int
        /\ Posterior[x] * Sign(cw, x) = IF x \in damage.wrong THEN -u ELSE 4 * u
    BY <1>1, UnaskedPosterior, ReceivedApart DEF Apart
  <2>2. -u < 0 /\ 4 * u > 0
    OBVIOUS
  <2>3. /\ x \in damage.wrong => Posterior[x] * Sign(cw, x) < 0
        /\ x \notin damage.wrong => Posterior[x] * Sign(cw, x) > 0
    BY <2>1, <2>2
  <2> QED
    BY <2>1, <2>3, HardBit
<1>3. CASE v \in damage.wrong
  <2>1. PICK e \in edges : e[2] = v
    BY <1>3 DEF Apart, Scattered
  <2>2. \A f \in Others(edges, e) : f[2] \in Variables /\ f[2] \notin damage.wrong
    <3>1. e \notin Against(edges, damage.wrong)
      BY <1>3, <2>1 DEF Apart, Scattered
    <3>2. \A f \in Others(edges, e) : f \in edges /\ f[2] \notin damage.wrong
      BY <3>1 DEF Against, Others
    <3> QED
      BY <3>2, EvenOnSent
  <2>3. \A f \in Others(edges, e) : f[2] \in hard <=> f[2] \in cw
    BY <1>2, <2>2
  <2>4. IsFiniteSet(edges) /\ e[1] \in Rows /\ Parity(OnesOver(edges, e[1], cw)) = 0
    BY EvenOnSent
  <2>5. Parity(OnesOver(edges, e[1], hard)) = 0
    BY <2>4 DEF syndrome, OnesOver
  <2>6. e[2] \in hard <=> e[2] \in cw
    <3> HIDE DEF hard, edges
    <3> QED
      BY <2>3, <2>4, <2>5, OddOneOut
  <2> QED
    BY <2>1, <2>6
<1> QED
  BY <1>2, <1>3

\* The invariant of the turns: what has been told so far, on each kind of link.
TurnsInv ==
    /\ DecoderInv
    /\ ReturnsSent
    /\ pc = "decode" =>
          /\ it \in 0 .. p.max_iter
          /\ Erasing => LayersTold
          /\ Apart => Unasked \/ Answered

\* However a decoding ends, what it can make good is good.
LEMMA GoodReturn ==
    ASSUME TurnsInv, Stop \/ GiveUp, Correctable
    PROVE  result' = info.ones
<1>1. /\ DecoderInv /\ pc = "decode" /\ Return(hard_of(Posterior)) /\ it \in 0 .. p.max_iter
      /\ DOMAIN c2v = expand_edges(g)
      /\ (syndrome(DOMAIN c2v, hard_of(Posterior)) \/ it = p.max_iter)
  BY DEF TurnsInv, Stop, GiveUp, DecoderInv
<1> SUFFICES ASSUME NEW v \in Variables PROVE v \in hard_of(Posterior) <=> v \in cw
  BY <1>1, ReturnsInfo
<1>2. CASE damage.wrong = {} /\ Peels(expand_edges(g), damage.erased, p.max_iter)
  <2>1. Erasing /\ LayersTold
    BY <1>1, <1>2 DEF Correctable, Erasing, TurnsInv
  <2>2. p.max_iter \in Nat
    BY <1>1, UnitPositive DEF DecoderInv, GraphInv
  <2>3. PICK layer \in [damage.erased -> 1 .. p.max_iter] : Layered(DOMAIN c2v, damage.erased, layer)
    BY <1>1, <1>2, <2>2 DEF Peels, Layered
  <2>4. CASE syndrome(DOMAIN c2v, hard_of(Posterior))
    BY <1>1, <2>1, <2>3, <2>4, EvenIsSent
  <2>5. CASE it = p.max_iter
    <3>1. v \in damage.erased => layer[v] <= it
      BY <2>2, <2>3, <2>5
    <3> QED
      BY <1>1, <2>1, <2>3, <3>1, ToldIsSent
  <2> QED
    BY <1>1, <2>4, <2>5
<1>3. CASE damage.erased = {} /\ p.max_iter > 0 /\ Scattered(expand_edges(g), damage.wrong)
  <2>1. Apart
    BY <1>1, <1>3 DEF Correctable, Apart
  <2>2. CASE Answered
    BY <1>1, <2>1, <2>2, AnsweredIsSent
  <2>3. CASE Unasked
    <3>1. syndrome(DOMAIN c2v, hard_of(Posterior))
      BY <1>1, <1>3, <2>3 DEF Unasked
    <3> QED
      BY <1>1, <2>1, <2>3, <3>1, UnaskedIsSent
  <2> QED
    BY <1>1, <2>1, <2>2, <2>3 DEF TurnsInv
<1> QED
  BY <1>2, <1>3 DEF Correctable

LEMMA TurnsInvStep ==
    ASSUME TurnsInv, [CodesNext]_vars
    PROVE  TurnsInv'
<1>0. DecoderInv' /\ NeverMisled'
  BY DecoderInvStep DEF TurnsInv, DecoderInv
<1>1. CASE Begin \/ CompactBegin \/ encode_ge \/ Refuse \/ CompactRefuse \/ RefuseDecode
  <2>1. pc' \notin {"decode", "decoded"}
    BY <1>1 DEF Begin, CompactBegin, Setup, encode_ge, Eliminate, Singular, Finish, Refuse,
                CompactRefuse, RefuseDecode
  <2> QED
    BY <1>0, <2>1 DEF TurnsInv, ReturnsSent
<1>2. CASE Transmit
  <2>1. pc' = "decode" /\ it' = 0 /\ c2v' = [e \in expand_edges(g) |-> 0] /\ UNCHANGED p
    BY <1>2 DEF Transmit
  <2>2. p.max_iter \in Nat
    BY UnitPositive DEF TurnsInv, DecoderInv, GraphInv
  <2>3. LayersTold'
    BY <2>1 DEF LayersTold, Layered
  <2>4. Unasked'
    BY <2>1 DEF Unasked
  <2> QED
    BY <1>0, <2>1, <2>2, <2>3, <2>4 DEF TurnsInv, ReturnsSent
<1>3. CASE Iterate
  <2>1. /\ pc = "decode" /\ pc' = "decode" /\ it' = it + 1 /\ it < p.max_iter
        /\ UNCHANGED <<p, g, cw, damage>> /\ DOMAIN c2v' = DOMAIN c2v
        /\ ~syndrome(DOMAIN c2v, hard_of(Posterior))
    BY <1>3 DEF Iterate, encoder
  <2>2. it' \in 0 .. p'.max_iter
    <3>1. p.max_iter \in Nat /\ it \in 0 .. p.max_iter
      BY <2>1, UnitPositive DEF TurnsInv, DecoderInv, GraphInv
    <3> QED
      BY <2>1, <3>1
  <2>3. Erasing' => LayersTold'
    BY <1>3, <2>1, LayersStep DEF TurnsInv, Erasing
  <2>4. ASSUME Apart' PROVE Answered'
    <3>1. Apart
      BY <2>1, <2>4 DEF Apart
    <3>2. ~Answered
      BY <2>1, <3>1, AnsweredIsSent, SentEven DEF TurnsInv
    <3>3. Unasked
      BY <2>1, <3>1, <3>2 DEF TurnsInv
    <3> QED
      BY <1>3, <3>1, <3>3, ApartStep DEF TurnsInv
  <2> QED
    BY <1>0, <2>1, <2>2, <2>3, <2>4 DEF TurnsInv, ReturnsSent
<1>4. CASE Stop \/ GiveUp
  <2>1. pc' = "decoded" /\ UNCHANGED <<p, g, info, damage>>
    BY <1>4 DEF Stop, GiveUp, Return
  <2>2. Correctable' => Correctable
    BY <2>1 DEF Correctable
  <2>3. Correctable => result' = info.ones
    BY <1>4, GoodReturn
  <2> QED
    BY <1>0, <2>1, <2>2, <2>3 DEF TurnsInv, ReturnsSent
<1>5. CASE UNCHANGED vars
  <2>1. UNCHANGED <<pc, p, g, cw, info, damage, c2v, it, result>>
    BY <1>5 DEF vars, encoder, decoder
  <2>2. Correctable' = Correctable /\ (Erasing' => Erasing) /\ (Apart' => Apart)
    BY <2>1 DEF Correctable, Erasing, Apart
  <2>3. (LayersTold => LayersTold') /\ (Unasked => Unasked') /\ (Answered => Answered')
    BY <2>1 DEF LayersTold, Unasked, Answered
  <2> QED
    BY <1>0, <2>1, <2>2, <2>3 DEF TurnsInv, ReturnsSent
<1> QED
  BY <1>1, <1>2, <1>3, <1>4, <1>5, StepCases DEF Decode, decode_minsum, CompactTransmit

\* Whatever the link may do, if it has erased bits that can be told layer by layer in the
\* turns there are, or weakly inverted bits that lie apart, the decoder returns the
\* information that was sent, for every base graph, lifting and word: it never stops at
\* another word and never runs out of turns (ldpc.cpp:155-228).
THEOREM ReturnsSentTheorem == CodesSpec => []ReturnsSent
<1>1. CodesInit => TurnsInv
  <2>1. CodesInit => pc = "start"
    BY DEF CodesInit, Init, EncInit, CompactInit, Blank
  <2>2. CodesInit => DecoderInv
    BY DecoderInvInit
  <2> QED
    BY <2>1, <2>2 DEF TurnsInv, ReturnsSent, DecoderInv
<1>2. TurnsInv => ReturnsSent
  BY DEF TurnsInv
<1> QED
  BY <1>1, <1>2, TurnsInvStep, PTL DEF CodesSpec

=============================================================================
