------------------------------ MODULE SoftProofs ------------------------------
(***************************************************************************)
(* Theorems about the soft-bit path, for every configuration, codeword,     *)
(* sequence of redundancy versions and LLR magnitudes.                      *)
(***************************************************************************)
EXTENDS SoftCombining, InductionFacts, TLAPS

\* A remainder is below its divisor.
LEMMA RemainderRange ==
    ASSUME NEW M \in Nat \ {0}, NEW x \in Int
    PROVE  x % M \in 0 .. M - 1
  OBVIOUS

\* A quotient of natural numbers, and what is left of the dividend.
LEMMA QuotientFacts ==
    ASSUME NEW M \in Nat \ {0}, NEW x \in Nat
    PROVE  /\ x \div M \in Nat
           /\ M * (x \div M) <= x
           /\ x < M * (x \div M) + M
  OBVIOUS

\* A number below the divisor goes into it no times.
LEMMA SmallQuotient ==
    ASSUME NEW M \in Nat \ {0}, NEW x \in 0 .. M - 1
    PROVE  x \div M = 0
  OBVIOUS

\* A number below the divisor is its own remainder, whatever multiple is added.
LEMMA RemainderOfSum ==
    ASSUME NEW M \in Nat \ {0}, NEW p \in 0 .. M - 1, NEW q \in Nat
    PROVE  (p + M * q) % M = p
<1>1. M * q \in Nat
  OBVIOUS
<1>2. (p + M * q) = M * ((p + M * q) \div M) + ((p + M * q) % M)
  BY <1>1
<1> QED
  BY <1>1, <1>2

\* What LongEnough gives: a buffer with cells, and bits to put in them.
LEMMA Sizes ==
    ASSUME NEW c \in ConfigType, LongEnough(c)
    PROVE  /\ c.n \in Nat \ {0} /\ c.e_bits \in Nat \ {0} /\ c.zc \in Nat /\ c.bg \in BaseGraph
           /\ Punch(c) \in Nat
           /\ Space(c) \in Nat \ {0}
           /\ BufferSize(c) \in Nat \ {0}
           /\ Punch(c) + Space(c) = c.n
  BY DEF ConfigType, LongEnough, Punch, Space, BufferSize

\* The first cell rate_match reads is a cell number.
LEMMA OffsetNat ==
    ASSUME NEW c \in ConfigType, LongEnough(c), NEW r \in Int
    PROVE  start_offset(c, BufferSize(c), r) \in Nat
<1> DEFINE b == BufferSize(c)
<1>1. b \in Nat \ {0} /\ c.zc \in Nat /\ r % 4 \in 0 .. 3
  BY Sizes, RemainderRange
<1>2. CASE c.zc > 0
  <2> DEFINE num == Coeff(c.bg, r % 4) * b
             den == Columns(c.bg) * c.zc
  <2>1. Coeff(c.bg, r % 4) \in Nat /\ Columns(c.bg) \in Nat \ {0}
    BY <1>1 DEF Coeff, Columns
  <2>2. num \in Nat /\ den \in Nat \ {0}
    BY <1>1, <1>2, <2>1
  <2>3. num \div den \in Nat
    BY <2>2, QuotientFacts
  <2>4. rv_k0(b, c.zc, c.bg, r % 4) \in Int
    BY <1>1, <2>3 DEF rv_k0
  <2> HIDE DEF b
  <2>5. rv_k0(b, c.zc, c.bg, r % 4) % b \in Nat
    BY <1>1, <2>4, RemainderRange
  <2> QED
    BY <1>2, <2>5 DEF start_offset, b
<1>3. CASE ~(c.zc > 0)
  <2>1. (b * (r % 4)) \div 4 \in Nat
    BY <1>1
  <2> QED
    BY <1>3, <2>1 DEF start_offset
<1> QED
  BY <1>2, <1>3

\* Every output of rate_match comes from a cell, and every cell from a coded bit.
LEMMA CellRange ==
    ASSUME NEW c \in ConfigType, LongEnough(c), NEW r \in Int, NEW k \in Nat
    PROVE  Cell(c, r, k) \in 0 .. BufferSize(c) - 1
<1>1. start_offset(c, BufferSize(c), r) + k \in Int /\ BufferSize(c) \in Nat \ {0}
  BY OffsetNat, Sizes
<1> QED
  BY <1>1, RemainderRange DEF Cell

LEMMA SourceRange ==
    ASSUME NEW c \in ConfigType, LongEnough(c), NEW k \in 0 .. BufferSize(c) - 1
    PROVE  Source(c, k) \in 0 .. c.n - 1
<1>1. k \in Int /\ Space(c) \in Nat \ {0} /\ Punch(c) \in Nat /\ Punch(c) + Space(c) = c.n
  BY Sizes
<1>2. k % Space(c) \in 0 .. Space(c) - 1
  BY <1>1, RemainderRange
<1> QED
  BY <1>1, <1>2 DEF Source

LEMMA CarriedRange ==
    ASSUME NEW c \in ConfigType, LongEnough(c), NEW r \in Int, NEW k \in Nat
    PROVE  Carried(c, r, k) \in 0 .. c.n - 1
  BY CellRange, SourceRange DEF Carried

\* The cell that is written back last to a bit is a cell rate_match filled from
\* that bit: the write-back of rate_dematch inverts the fill of rate_match.
LEMMA LastCellSource ==
    ASSUME NEW c \in ConfigType, LongEnough(c), NEW j \in 0 .. c.n - 1, HasCell(c, j)
    PROVE  /\ LastCell(c, j) \in 0 .. BufferSize(c) - 1
           /\ Source(c, LastCell(c, j)) = j
<1> DEFINE S == Space(c)
           p == j - Punch(c)
           q == (BufferSize(c) - 1 - p) \div S
<1>1. S \in Nat \ {0} /\ Punch(c) \in Nat /\ Punch(c) + S = c.n /\ BufferSize(c) \in Nat
  BY Sizes
<1>2. p \in 0 .. S - 1 /\ BufferSize(c) - 1 - p \in Nat
  BY <1>1 DEF HasCell
<1>3. q \in Nat /\ S * q <= BufferSize(c) - 1 - p
  BY <1>1, <1>2, QuotientFacts
<1>4. LastCell(c, j) = p + S * q
  BY DEF LastCell
<1> HIDE DEF S, q
<1>5. S * q \in Nat
  BY <1>1, <1>3
<1>6. (p + S * q) % S = p
  BY <1>1, <1>2, <1>3, RemainderOfSum
<1>7. LastCell(c, j) \in 0 .. BufferSize(c) - 1
  BY <1>1, <1>2, <1>3, <1>4, <1>5
<1>8. Source(c, LastCell(c, j)) = Punch(c) + p
  BY <1>4, <1>6 DEF Source, S
<1> QED
  BY <1>1, <1>7, <1>8

\* Without more cells than bits, every cell is the last of its bit: nothing that
\* was accumulated is overwritten.
LEMMA LastCellOfSource ==
    ASSUME NEW c \in ConfigType, LongEnough(c), c.n_cb <= Space(c),
           NEW k \in 0 .. BufferSize(c) - 1
    PROVE  HasCell(c, Source(c, k)) /\ LastCell(c, Source(c, k)) = k
<1>1. /\ Space(c) \in Nat \ {0} /\ Punch(c) \in Nat /\ BufferSize(c) \in Nat \ {0}
      /\ BufferSize(c) <= Space(c)
  BY Sizes DEF BufferSize
<1>2. k \in 0 .. Space(c) - 1 /\ k % Space(c) = k
  BY <1>1
<1>3. Source(c, k) - Punch(c) = k /\ Source(c, k) >= Punch(c)
  BY <1>1, <1>2 DEF Source
<1>4. (BufferSize(c) - 1 - k) \div Space(c) = 0
  <2>1. BufferSize(c) - 1 - k \in 0 .. Space(c) - 1
    BY <1>1
  <2> QED
    BY <1>1, <2>1, SmallQuotient
<1> QED
  BY <1>1, <1>2, <1>3, <1>4 DEF HasCell, LastCell

-----------------------------------------------------------------------------

\* What the loop and the write-back leave between the calls: every cell agrees
\* with the bit it is written back to, and so does every soft value.
AlignInv ==
    /\ TypeOK
    /\ Aligned
    /\ pc = "loop" => \A k \in Cells : buf[k] * Sign(coded[Source(cfg, k)]) >= 0
    /\ pc = "done" => \A j \in Bits : full[j] * Sign(coded[j]) >= 0

LEMMA SignValue == \A b \in {0, 1} : Sign(b) \in {1, -1} /\ Sign(b) * Sign(b) = 1
  BY DEF Sign

LEMMA ConfigFacts ==
    ASSUME TypeOK
    PROVE  /\ cfg \in ConfigType /\ LongEnough(cfg)
           /\ cfg.n \in Nat \ {0} /\ cfg.e_bits \in Nat \ {0}
           /\ \A k \in Cells : Source(cfg, k) \in Bits
           /\ \A r \in Int, k \in Nat : Cell(cfg, r, k) \in Cells /\ Carried(cfg, r, k) \in Bits
<1>1. cfg \in ConfigType /\ LongEnough(cfg)
  BY ConfigAssumption DEF TypeOK
<1> QED
  BY <1>1, Sizes, CellRange, SourceRange, CarriedRange DEF Cells, Bits

LEMMA InitAligned == Init => AlignInv
<1> SUFFICES ASSUME Init PROVE AlignInv
  OBVIOUS
<1>1. cfg \in ConfigType /\ cfg \in Configs /\ coded \in [Bits -> {0, 1}]
  BY ConfigAssumption, CodewordAssumption DEF Init, Bits
<1>2. cfg.e_bits \in Nat
  BY <1>1 DEF ConfigType
<1>3. TypeOK
  BY <1>1, <1>2 DEF Init, TypeOK, Silence
<1>4. Aligned
  BY <1>1, SignValue DEF Init, Aligned, Silence
<1> QED
  BY <1>3, <1>4 DEF AlignInv, Init

LEMMA StepTyped ==
    ASSUME TypeOK, [Next]_vars
    PROVE  TypeOK' /\ cfg' = cfg
<1>e. cfg.e_bits \in Nat
  BY ConfigFacts
<1>1. ASSUME NEW r \in Rvs, Receive(r) PROVE TypeOK' /\ cfg' = cfg
  BY <1>1, <1>e, LinkAssumption DEF Receive, TypeOK, Bits, Cells, Silence
<1>2. ASSUME NEW a \in Mags, Accumulate(a) PROVE TypeOK' /\ cfg' = cfg
  <2>1. a \in Int /\ i \in Nat /\ rv \in Int
    BY LinkAssumption DEF TypeOK
  <2>2. CellOf(i) \in Cells /\ Carried(cfg, rv, i) \in Bits
    BY <2>1, ConfigFacts DEF CellOf
  <2>3. a * Sign(coded[Carried(cfg, rv, i)]) \in Int
    BY <2>1, <2>2, SignValue DEF TypeOK
  <2>4. buf' \in [Cells -> Int]
    BY <1>2, <2>2, <2>3 DEF Accumulate, TypeOK
  <2> QED
    BY <1>2, <2>4, <1>e DEF Accumulate, TypeOK, Bits, Cells
<1>3. ASSUME Unpack PROVE TypeOK' /\ cfg' = cfg
  <2>1. \A j \in Bits : Unpacked(j) \in Int
    <3> SUFFICES ASSUME NEW j \in Bits, HasCell(cfg, j) PROVE buf[LastCell(cfg, j)] \in Int
      BY DEF Unpacked
    <3>1. LastCell(cfg, j) \in Cells
      BY ConfigFacts, LastCellSource DEF Bits, Cells
    <3> QED
      BY <3>1 DEF TypeOK
  <2> QED
    BY <1>3, <2>1 DEF Unpack, TypeOK, Bits, Cells
<1>4. ASSUME Upsert PROVE TypeOK' /\ cfg' = cfg
  <2>1. Combined \in [Bits -> Int]
    BY DEF Combined, TypeOK
  <2> QED
    BY <1>4, <2>1 DEF Upsert, TypeOK, Bits, Cells
<1>5. ASSUME Clear PROVE TypeOK' /\ cfg' = cfg
  <2>1. coded' \in [Bits -> {0, 1}]
    BY <1>5, CodewordAssumption DEF Clear, TypeOK, Bits
  <2> QED
    BY <1>5, <2>1 DEF Clear, TypeOK, Bits, Cells, Silence
<1>6. ASSUME UNCHANGED vars PROVE TypeOK' /\ cfg' = cfg
  BY <1>6 DEF vars, TypeOK, Bits, Cells
<1> QED
  BY <1>1, <1>2, <1>3, <1>4, <1>5, <1>6 DEF Next

LEMMA StepAligned ==
    ASSUME AlignInv, [Next]_vars
    PROVE  AlignInv'
<1>t. TypeOK /\ TypeOK' /\ cfg' = cfg
  BY StepTyped DEF AlignInv
<1>s. \A j \in Bits : Sign(coded[j]) \in {1, -1} /\ Sign(coded[j]) * Sign(coded[j]) = 1
  BY <1>t, SignValue DEF TypeOK
<1>1. ASSUME NEW r \in Rvs, Receive(r) PROVE AlignInv'
  <2>1. \A k \in Cells : buf'[k] = 0 /\ Sign(coded[Source(cfg, k)]) \in Int
    BY <1>1, <1>t, <1>s, ConfigFacts DEF Receive
  <2> QED
    BY <1>1, <1>t, <2>1 DEF AlignInv, Receive, Aligned, Bits, Cells
<1>2. ASSUME NEW a \in Mags, Accumulate(a) PROVE AlignInv'
  <2> DEFINE src == Carried(cfg, rv, i)
             cell == CellOf(i)
  <2>1. a \in Nat /\ i \in Nat /\ rv \in Int
    BY <1>t, LinkAssumption DEF TypeOK
  <2>2. cell \in Cells /\ src \in Bits /\ Source(cfg, cell) = src
    BY <1>t, <2>1, ConfigFacts DEF CellOf, Carried
  <2>3. a * Sign(coded[src]) \in Int /\ (a * Sign(coded[src])) * Sign(coded[src]) >= 0
    BY <1>s, <2>1, <2>2
  <2>4. ASSUME NEW k \in Cells PROVE buf'[k] * Sign(coded[Source(cfg, k)]) >= 0
    <3>1. buf[k] \in Int /\ buf[k] * Sign(coded[Source(cfg, k)]) >= 0
      BY <1>2, <1>t DEF AlignInv, Accumulate, TypeOK
    <3>2. CASE k = cell
      <4>1. buf'[k] = buf[k] + a * Sign(coded[src])
        BY <1>2, <1>t, <2>2, <3>2 DEF Accumulate, TypeOK
      <4> HIDE DEF src, cell
      <4>2. Sign(coded[src]) \in {1, -1} /\ Source(cfg, k) = src
        BY <1>s, <2>2, <3>2
      <4> QED
        BY <2>3, <3>1, <4>1, <4>2, SignSum
    <3>3. CASE k # cell
      BY <1>2, <1>t, <3>1, <3>3 DEF Accumulate, TypeOK
    <3> QED
      BY <3>2, <3>3
  <2> QED
    BY <1>2, <1>t, <2>4 DEF AlignInv, Accumulate, Aligned, Bits, Cells
<1>3. ASSUME Unpack PROVE AlignInv'
  <2>1. ASSUME NEW j \in Bits PROVE full'[j] * Sign(coded[j]) >= 0
    <3>1. full'[j] = Unpacked(j)
      BY <1>3 DEF Unpack
    <3>2. CASE HasCell(cfg, j)
      <4>1. LastCell(cfg, j) \in Cells /\ Source(cfg, LastCell(cfg, j)) = j
        BY <1>t, <3>2, ConfigFacts, LastCellSource DEF Bits, Cells
      <4> QED
        BY <1>3, <3>1, <3>2, <4>1 DEF AlignInv, Unpack, Unpacked
    <3>3. CASE ~HasCell(cfg, j)
      BY <1>s, <3>1, <3>3 DEF Unpacked
    <3> QED
      BY <3>2, <3>3
  <2> QED
    BY <1>3, <1>t, <2>1 DEF AlignInv, Unpack, Aligned, Bits
<1>4. ASSUME Upsert PROVE AlignInv'
  <2>1. ASSUME NEW j \in Bits PROVE soft'[j] * Sign(coded[j]) >= 0
    <3>1. /\ full[j] \in Int /\ full[j] * Sign(coded[j]) >= 0
          /\ soft[j] \in Int /\ soft[j] * Sign(coded[j]) >= 0
      BY <1>4, <1>t DEF AlignInv, Upsert, TypeOK, Aligned
    <3>2. soft'[j] \in {full[j], soft[j] + full[j]}
      BY <1>4 DEF Upsert, Combined
    <3> QED
      BY <1>s, <3>1, <3>2, SignSum
  <2> QED
    BY <1>4, <1>t, <2>1 DEF AlignInv, Upsert, Aligned, Bits
<1>5. ASSUME Clear PROVE AlignInv'
  <2>1. \A j \in Bits : soft'[j] = 0 /\ Sign(coded'[j]) \in {1, -1}
    BY <1>5, <1>t, SignValue DEF Clear, TypeOK, Silence, Bits
  <2> QED
    BY <1>5, <1>t, <2>1 DEF AlignInv, Clear, Aligned, Bits
<1>6. ASSUME UNCHANGED vars PROVE AlignInv'
  BY <1>6, <1>t DEF AlignInv, vars, Aligned, Bits, Cells
<1> QED
  BY <1>1, <1>2, <1>3, <1>4, <1>5, <1>6 DEF Next

\* Buffers keep their sizes and the loop its bounds, for every configuration
\* (rate_matching.cpp:69-84).
THEOREM SoftTyped == Spec => []TypeOK
<1>1. AlignInv => TypeOK
  BY DEF AlignInv
<1> QED
  BY <1>1, InitAligned, StepAligned, PTL DEF Spec

\* No soft value ever argues against its bit, whatever configuration is used and
\* whatever redundancy versions are combined (rate_matching.cpp:41-84,
\* harq.cpp:6-22).
THEOREM AlignedTheorem == Spec => []Aligned
<1>1. AlignInv => Aligned
  BY DEF AlignInv
<1> QED
  BY <1>1, InitAligned, StepAligned, PTL DEF Spec

-----------------------------------------------------------------------------

(***************************************************************************)
(* Recovery, for circular buffers with no more cells than coded bits.       *)
(***************************************************************************)

FittingBuffers == \A c \in Configs : c.n_cb <= Space(c)

Heard(v, j) == v[j] * Sign(coded[j]) > 0

\* Every bit received so far is heard: in its cell, in the write-back, in the
\* soft buffer, whichever stage it has reached.
RecoverInv ==
    /\ AlignInv
    /\ covered \subseteq Bits
    /\ tx_count = 0 => covered = {}
    /\ \A j \in covered : Heard(soft, j)
    /\ pc = "loop" => \A n \in 0 .. i - 1 :
            buf[CellOf(n)] * Sign(coded[Carried(cfg, rv, n)]) > 0
    /\ pc = "done" => \A n \in 0 .. cfg.e_bits - 1 : Heard(full, Carried(cfg, rv, n))

\* Agreement on both sides, strict on one, adds up to strict agreement.
LEMMA SignSumStrict ==
    ASSUME NEW x \in Int, NEW y \in Int, NEW s \in {1, -1}, x * s > 0, y * s >= 0
    PROVE  (x + y) * s > 0 /\ (y + x) * s > 0
  OBVIOUS

LEMMA InitRecover == Init => RecoverInv
<1> SUFFICES ASSUME Init PROVE RecoverInv
  OBVIOUS
<1> QED
  BY InitAligned DEF Init, RecoverInv

LEMMA StepRecover ==
    ASSUME FittingBuffers, RecoverInv, [Next]_vars
    PROVE  RecoverInv'
<1>t. TypeOK /\ AlignInv /\ AlignInv' /\ cfg' = cfg
  BY StepTyped, StepAligned DEF AlignInv, RecoverInv
<1>s. \A j \in Bits : Sign(coded[j]) \in {1, -1} /\ Sign(coded[j]) * Sign(coded[j]) = 1
  BY <1>t, SignValue DEF TypeOK
<1>n. \A n \in Nat : CellOf(n) \in Cells /\ Carried(cfg, rv, n) \in Bits
                     /\ Carried(cfg, rv, n) = Source(cfg, CellOf(n))
  BY <1>t, ConfigFacts DEF CellOf, Carried, TypeOK
<1>e. cfg.e_bits \in Nat /\ i \in Nat
  BY <1>t, ConfigFacts DEF TypeOK
<1>1. ASSUME NEW r \in Rvs, Receive(r) PROVE RecoverInv'
  BY <1>1, <1>t DEF RecoverInv, Receive, Heard, Bits
<1>2. ASSUME NEW a \in Mags, Accumulate(a) PROVE RecoverInv'
  <2> DEFINE sgn(n) == Sign(coded[Carried(cfg, rv, n)])
  <2>1. a \in Nat /\ a > 0
    BY LinkAssumption
  <2>2. ASSUME NEW n \in 0 .. i PROVE buf'[CellOf(n)] * sgn(n) > 0
    <3>1. /\ CellOf(n) \in Cells /\ CellOf(i) \in Cells /\ n \in Nat
          /\ sgn(n) \in {1, -1} /\ sgn(i) \in {1, -1}
          /\ buf[CellOf(n)] \in Int
      BY <1>n, <1>s, <1>e, <1>t DEF TypeOK
    <3>2. buf[CellOf(n)] * sgn(n) >= 0
      BY <1>2, <1>n, <1>t, <3>1 DEF AlignInv, Accumulate
    <3>3. CASE CellOf(n) = CellOf(i)
      <4>1. sgn(n) = sgn(i)
        BY <1>n, <1>e, <3>1, <3>3
      <4>2. buf'[CellOf(n)] = buf[CellOf(n)] + a * sgn(i)
        BY <1>2, <1>t, <3>1, <3>3 DEF Accumulate, TypeOK
      <4> HIDE DEF sgn
      <4>3. a * sgn(i) \in Int /\ (a * sgn(i)) * sgn(n) > 0
        BY <2>1, <3>1, <4>1
      <4> QED
        BY <3>1, <3>2, <4>2, <4>3, SignSumStrict
    <3>4. CASE CellOf(n) # CellOf(i)
      <4>1. n \in 0 .. i - 1
        BY <1>e, <3>4
      <4>2. buf'[CellOf(n)] = buf[CellOf(n)]
        BY <1>2, <1>t, <3>1, <3>4 DEF Accumulate, TypeOK
      <4> QED
        BY <1>2, <4>1, <4>2 DEF RecoverInv, Accumulate
    <3> QED
      BY <3>3, <3>4
  <2>3. \A n \in Nat : CellOf(n)' = CellOf(n)
    BY <1>2 DEF Accumulate, CellOf
  <2> QED
    BY <1>2, <1>t, <1>e, <2>2, <2>3 DEF RecoverInv, Accumulate, Heard, Bits
<1>3. ASSUME Unpack PROVE RecoverInv'
  <2>1. ASSUME NEW n \in 0 .. cfg.e_bits - 1 PROVE Heard(full', Carried(cfg, rv, n))
    <3> DEFINE j == Carried(cfg, rv, n)
    <3>1. n \in Nat /\ CellOf(n) \in Cells /\ j \in Bits /\ j = Source(cfg, CellOf(n))
      BY <1>n, <1>e
    <3>2. cfg.n_cb <= Space(cfg)
      BY <1>t DEF FittingBuffers, TypeOK
    <3>3. HasCell(cfg, j) /\ LastCell(cfg, j) = CellOf(n)
      BY <1>t, <3>1, <3>2, ConfigFacts, LastCellOfSource DEF Cells
    <3>4. full'[j] = buf[CellOf(n)]
      BY <1>3, <3>1, <3>3 DEF Unpack, Unpacked
    <3>5. buf[CellOf(n)] * Sign(coded[j]) > 0
      BY <1>3 DEF RecoverInv, Unpack
    <3> QED
      BY <3>4, <3>5 DEF Heard
  <2> QED
    BY <1>3, <1>t, <2>1 DEF RecoverInv, Unpack, Heard, Bits
<1>4. ASSUME Upsert PROVE RecoverInv'
  <2> DEFINE new == {Carried(cfg, rv, n) : n \in 0 .. cfg.e_bits - 1}
  <2>1. covered' = covered \cup new /\ new \subseteq Bits /\ tx_count' # 0
    BY <1>4, <1>n, <1>e, <1>t DEF Upsert, TypeOK
  <2>2. ASSUME NEW j \in covered' PROVE Heard(soft', j)
    <3>1. /\ j \in Bits /\ Sign(coded[j]) \in {1, -1}
          /\ full[j] \in Int /\ full[j] * Sign(coded[j]) >= 0
          /\ soft[j] \in Int /\ soft[j] * Sign(coded[j]) >= 0
      BY <1>4, <1>s, <1>t, <2>1 DEF RecoverInv, AlignInv, Upsert, TypeOK, Aligned
    <3>2. j \in new => full[j] * Sign(coded[j]) > 0
      BY <1>4 DEF RecoverInv, Upsert, Heard
    <3>3. j \in covered => soft[j] * Sign(coded[j]) > 0
      BY DEF RecoverInv, Heard
    <3>4. CASE tx_count = 0
      BY <1>4, <2>1, <3>2, <3>4 DEF RecoverInv, Upsert, Combined, Heard
    <3>5. CASE tx_count # 0
      <4>1. soft'[j] = soft[j] + full[j]
        BY <1>4, <3>1, <3>5 DEF Upsert, Combined
      <4>2. (soft[j] + full[j]) * Sign(coded[j]) > 0
        BY <2>1, <3>1, <3>2, <3>3, SignSumStrict
      <4> QED
        BY <4>1, <4>2 DEF Heard
    <3> QED
      BY <3>4, <3>5
  <2> QED
    BY <1>4, <1>t, <2>1, <2>2 DEF RecoverInv, Upsert, Heard, Bits
<1>5. ASSUME Clear PROVE RecoverInv'
  BY <1>5, <1>t DEF RecoverInv, Clear
<1>6. ASSUME UNCHANGED vars PROVE RecoverInv'
  BY <1>6, <1>t DEF RecoverInv, vars, Heard, Bits, CellOf
<1> QED
  BY <1>1, <1>2, <1>3, <1>4, <1>5, <1>6 DEF Next

\* When the circular buffer has no more cells than there are coded bits for it,
\* every bit that was ever sent has a soft value (rate_matching.cpp:78-82).
THEOREM RecoveryTheorem ==
    ASSUME FittingBuffers
    PROVE  Spec => []SentIsRecovered
<1>1. RecoverInv => SentIsRecovered
  <2> SUFFICES ASSUME RecoverInv, NEW j \in covered PROVE soft[j] # 0
    BY DEF SentIsRecovered
  <2>1. soft[j] * Sign(coded[j]) > 0 /\ Sign(coded[j]) \in {1, -1}
    BY SignValue DEF RecoverInv, AlignInv, Heard, TypeOK
  <2> QED
    BY <2>1
<1>2. RecoverInv /\ [Next]_vars => RecoverInv'
  BY StepRecover
<1> QED
  BY <1>1, <1>2, InitRecover, PTL DEF Spec

-----------------------------------------------------------------------------

\* Numbers at least a divisor apart have different quotients.
LEMMA QuotientsApart ==
    ASSUME NEW d \in Nat \ {0}, NEW x \in Nat, NEW y \in Nat, x + d <= y
    PROVE  x \div d < y \div d
<1>1. PICK p \in Nat : p = x \div d /\ d * p <= x
  BY QuotientFacts
<1>2. PICK q \in Nat : q = y \div d /\ y < d * q + d
  BY QuotientFacts
<1>3. ~(q <= p)
  <2> SUFFICES ASSUME q <= p PROVE FALSE
    OBVIOUS
  <2>1. d * q <= d * p
    BY SMTT(30)
  <2>2. d * q \in Nat /\ d * p \in Nat
    OBVIOUS
  <2> QED
    BY <1>1, <1>2, <2>1, <2>2
<1> QED
  BY <1>1, <1>2, <1>3

\* The larger number has no smaller quotient.
LEMMA QuotientsMono ==
    ASSUME NEW d \in Nat \ {0}, NEW x \in Nat, NEW y \in Nat, x <= y
    PROVE  x \div d <= y \div d
<1>1. PICK p \in Nat : p = x \div d /\ d * p <= x
  BY QuotientFacts
<1>2. PICK q \in Nat : q = y \div d /\ y < d * q + d
  BY QuotientFacts
<1>3. ~(q + 1 <= p)
  <2> SUFFICES ASSUME q + 1 <= p PROVE FALSE
    OBVIOUS
  <2>1. d * (q + 1) <= d * p
    BY SMTT(30)
  <2>2. d * q \in Nat /\ d * p \in Nat /\ d * (q + 1) = d * q + d
    OBVIOUS
  <2> QED
    BY <1>1, <1>2, <2>1, <2>2
<1> QED
  BY <1>1, <1>2, <1>3

\* Table 5.4.2.1-2 read for a buffer of N cells: the numerators grow, and with room for
\* five lifted columns they are far enough apart for a column between the starts.
LEMMA TableSpread ==
    ASSUME NEW N \in Nat \ {0}, NEW z \in Nat \ {0}, NEW g \in BaseGraph
    PROVE  /\ Columns(g) * z \in Nat \ {0}
           /\ Coeff(g, 0) * N = 0
           /\ \A r \in 0 .. 3 : Coeff(g, r) * N \in Nat /\ Coeff(g, r) * N < Columns(g) * N
           /\ \A r \in 0 .. 2 :
                /\ Coeff(g, r) * N <= Coeff(g, r + 1) * N
                /\ 5 * z <= N => Coeff(g, r) * N + Columns(g) * z <= Coeff(g, r + 1) * N
<1>1. CASE g = "BG1"
  <2>1. /\ Columns(g) = 66 /\ Coeff(g, 0) = 0 /\ Coeff(g, 1) = 17 /\ Coeff(g, 2) = 33
        /\ Coeff(g, 3) = 56
    BY <1>1 DEF Columns, Coeff
  <2>2. N > 0 /\ 66 * z \in Nat \ {0} /\ (5 * z <= N => 16 * N >= 66 * z)
    OBVIOUS
  <2>3. ASSUME NEW r \in 0 .. 3
        PROVE  Coeff(g, r) * N \in Nat /\ Coeff(g, r) * N < Columns(g) * N
    <3>1. r = 0 \/ r = 1 \/ r = 2 \/ r = 3
      OBVIOUS
    <3>2. /\ 0 * N \in Nat /\ 17 * N \in Nat /\ 33 * N \in Nat /\ 56 * N \in Nat
          /\ 0 * N < 66 * N /\ 17 * N < 66 * N /\ 33 * N < 66 * N /\ 56 * N < 66 * N
      BY <2>2
    <3> QED
      BY <2>1, <3>1, <3>2
  <2>4. ASSUME NEW r \in 0 .. 2
        PROVE  /\ Coeff(g, r) * N <= Coeff(g, r + 1) * N
               /\ 5 * z <= N => Coeff(g, r) * N + Columns(g) * z <= Coeff(g, r + 1) * N
    <3>1. (r = 0 /\ r + 1 = 1) \/ (r = 1 /\ r + 1 = 2) \/ (r = 2 /\ r + 1 = 3)
      OBVIOUS
    <3>2. /\ 0 * N <= 17 * N /\ 17 * N <= 33 * N /\ 33 * N <= 56 * N
          /\ 5 * z <= N => /\ 0 * N + 66 * z <= 17 * N /\ 17 * N + 66 * z <= 33 * N
                           /\ 33 * N + 66 * z <= 56 * N
      BY <2>2
    <3> QED
      BY <2>1, <3>1, <3>2
  <2>5. 0 * N = 0
    OBVIOUS
  <2> QED
    BY <2>1, <2>2, <2>3, <2>4, <2>5
<1>2. CASE g = "BG2"
  <2>1. /\ Columns(g) = 50 /\ Coeff(g, 0) = 0 /\ Coeff(g, 1) = 13 /\ Coeff(g, 2) = 25
        /\ Coeff(g, 3) = 43
    BY <1>2 DEF Columns, Coeff
  <2>2. N > 0 /\ 50 * z \in Nat \ {0} /\ (5 * z <= N => 12 * N >= 50 * z)
    OBVIOUS
  <2>3. ASSUME NEW r \in 0 .. 3
        PROVE  Coeff(g, r) * N \in Nat /\ Coeff(g, r) * N < Columns(g) * N
    <3>1. r = 0 \/ r = 1 \/ r = 2 \/ r = 3
      OBVIOUS
    <3>2. /\ 0 * N \in Nat /\ 13 * N \in Nat /\ 25 * N \in Nat /\ 43 * N \in Nat
          /\ 0 * N < 50 * N /\ 13 * N < 50 * N /\ 25 * N < 50 * N /\ 43 * N < 50 * N
      BY <2>2
    <3> QED
      BY <2>1, <3>1, <3>2
  <2>4. ASSUME NEW r \in 0 .. 2
        PROVE  /\ Coeff(g, r) * N <= Coeff(g, r + 1) * N
               /\ 5 * z <= N => Coeff(g, r) * N + Columns(g) * z <= Coeff(g, r + 1) * N
    <3>1. (r = 0 /\ r + 1 = 1) \/ (r = 1 /\ r + 1 = 2) \/ (r = 2 /\ r + 1 = 3)
      OBVIOUS
    <3>2. /\ 0 * N <= 13 * N /\ 13 * N <= 25 * N /\ 25 * N <= 43 * N
          /\ 5 * z <= N => /\ 0 * N + 50 * z <= 13 * N /\ 13 * N + 50 * z <= 25 * N
                           /\ 25 * N + 50 * z <= 43 * N
      BY <2>2
    <3> QED
      BY <2>1, <3>1, <3>2
  <2>5. 0 * N = 0
    OBVIOUS
  <2> QED
    BY <2>1, <2>2, <2>3, <2>4, <2>5
<1> QED
  BY <1>1, <1>2 DEF BaseGraph

\* A start below the end of the buffer is not wrapped.
LEMMA StartUnwrapped ==
    ASSUME NEW N \in Nat \ {0}, NEW z \in Nat \ {0}, NEW g \in BaseGraph, NEW r \in 0 .. 3
    PROVE  /\ (Coeff(g, r) * N) \div (Columns(g) * z) \in Nat
           /\ rv_k0(N, z, g, r) \in 0 .. N - 1
<1>1. PICK d \in Nat \ {0} : d = Columns(g) * z
  BY TableSpread
<1>2. PICK x \in Nat : x = Coeff(g, r) * N /\ x < Columns(g) * N
  BY TableSpread
<1>3. PICK w \in Nat \ {0} : w = Columns(g)
  BY DEF Columns
<1>4. PICK q \in Nat : q = x \div d /\ d * q <= x
  BY QuotientFacts
<1>5. d * q = w * (q * z) /\ q * z \in Nat
  BY <1>1, <1>3, SMTT(30)
<1>6. PICK s \in Nat : s = q * z /\ w * s < w * N
  <2>1. w * (q * z) \in Nat /\ w * N \in Nat
    BY <1>5
  <2> QED
    BY <1>2, <1>3, <1>4, <1>5, <2>1
<1>7. s < N
  <2> SUFFICES ASSUME N <= s PROVE FALSE
    OBVIOUS
  <2>1. w * N <= w * s
    BY SMTT(30)
  <2>2. w * N \in Nat /\ w * s \in Nat
    OBVIOUS
  <2> QED
    BY <1>6, <2>1, <2>2
<1>8. rv_k0(N, z, g, r) = s
  BY <1>1, <1>2, <1>4, <1>6 DEF rv_k0
<1> QED
  BY <1>1, <1>2, <1>4, <1>7, <1>8

LEMMA StartsInOrder ==
    ASSUME NEW N \in Nat \ {0}, NEW z \in Nat \ {0}, NEW g \in BaseGraph, NEW r \in 0 .. 2
    PROVE  /\ rv_k0(N, z, g, r) <= rv_k0(N, z, g, r + 1)
           /\ 5 * z <= N => rv_k0(N, z, g, r) < rv_k0(N, z, g, r + 1)
<1>1. PICK d \in Nat \ {0} : d = Columns(g) * z
  BY TableSpread
<1>2. r \in 0 .. 3 /\ r + 1 \in 0 .. 3
  OBVIOUS
<1>3. PICK x \in Nat : x = Coeff(g, r) * N
  BY <1>2, TableSpread
<1>4. PICK y \in Nat : y = Coeff(g, r + 1) * N
  BY <1>2, TableSpread
<1>5. x <= y /\ (5 * z <= N => x + d <= y)
  BY <1>1, <1>3, <1>4, TableSpread
<1>6. PICK p \in Nat : p = x \div d
  BY QuotientFacts
<1>7. PICK q \in Nat : q = y \div d
  BY QuotientFacts
<1>8. p <= q /\ (5 * z <= N => p < q)
  BY <1>5, <1>6, <1>7, QuotientsApart, QuotientsMono
<1>9. p * z <= q * z /\ (5 * z <= N => p * z < q * z)
  <2>1. p * z <= q * z
    BY <1>8, SMTT(30)
  <2>2. p < q => p * z < q * z
    BY SMTT(30)
  <2> QED
    BY <1>8, <2>1, <2>2
<1> QED
  BY <1>1, <1>3, <1>4, <1>6, <1>7, <1>9 DEF rv_k0

\* Without a lifting size the buffer is cut in four.
LEMMA Quarters ==
    ASSUME NEW N \in Nat \ {0}
    PROVE  /\ (N * 0) \div 4 = 0 /\ (N * 3) \div 4 < N
           /\ \A r \in 0 .. 2 :
                /\ (N * r) \div 4 \in Nat /\ (N * r) \div 4 <= (N * (r + 1)) \div 4
                /\ N >= 4 => (N * r) \div 4 # (N * (r + 1)) \div 4
  OBVIOUS

\* The four redundancy versions start in order and before the end of the buffer, and
\* with room for five lifted columns at four different cells (rate_matching.cpp:14-35).
THEOREM RvsTheorem == Spec => []RvsDiffer
<1>1. TypeOK => RvsDiffer
  <2> SUFFICES ASSUME TypeOK
               PROVE  /\ start_offset(cfg, BufferSize(cfg), 0) = 0
                      /\ start_offset(cfg, BufferSize(cfg), 3) < BufferSize(cfg)
                      /\ \A r \in 0 .. 2 :
                            /\ start_offset(cfg, BufferSize(cfg), r)
                                 <= start_offset(cfg, BufferSize(cfg), r + 1)
                            /\ 5 * cfg.zc <= BufferSize(cfg) /\ BufferSize(cfg) >= 4 =>
                                 start_offset(cfg, BufferSize(cfg), r)
                                   # start_offset(cfg, BufferSize(cfg), r + 1)
    BY DEF RvsDiffer
  <2>1. cfg \in ConfigType /\ LongEnough(cfg)
    BY ConfigAssumption DEF TypeOK
  <2>2. PICK N \in Nat \ {0} : N = BufferSize(cfg)
    BY <2>1, Sizes
  <2>3. PICK z \in Nat : z = cfg.zc
    BY <2>1, Sizes
  <2>4. PICK g \in BaseGraph : g = cfg.bg
    BY <2>1, Sizes
  <2>5. (\A r \in 0 .. 3 : r % 4 = r) /\ (\A r \in 0 .. 2 : r \in 0 .. 3 /\ r + 1 \in 0 .. 3)
    OBVIOUS
  <2>6. CASE z > 0
    <3>1. ASSUME NEW r \in 0 .. 3
          PROVE  start_offset(cfg, N, r) = rv_k0(N, z, g, r) /\ rv_k0(N, z, g, r) \in 0 .. N - 1
      <4>1. PICK k \in 0 .. N - 1 : k = rv_k0(N, z, g, r)
        BY <2>6, StartUnwrapped
      <4>2. k % N = k
        OBVIOUS
      <4> QED
        BY <2>3, <2>4, <2>5, <2>6, <4>1, <4>2 DEF start_offset
    <3>2. ASSUME NEW r \in 0 .. 2
          PROVE  /\ start_offset(cfg, N, r) <= start_offset(cfg, N, r + 1)
                 /\ 5 * z <= N => start_offset(cfg, N, r) # start_offset(cfg, N, r + 1)
      <4>1. PICK x \in 0 .. N - 1 : x = rv_k0(N, z, g, r) /\ x = start_offset(cfg, N, r)
        BY <2>5, <3>1
      <4>2. PICK y \in 0 .. N - 1 : y = rv_k0(N, z, g, r + 1) /\ y = start_offset(cfg, N, r + 1)
        <5>1. r + 1 \in 0 .. 3
          OBVIOUS
        <5>2. start_offset(cfg, N, r + 1) = rv_k0(N, z, g, r + 1)
              /\ rv_k0(N, z, g, r + 1) \in 0 .. N - 1
          BY <3>1, <5>1, Zenon
        <5> QED
          BY <5>2, Zenon
      <4>3. x <= y /\ (5 * z <= N => x < y)
        <5>1. z \in Nat \ {0}
          BY <2>6
        <5>2. /\ rv_k0(N, z, g, r) <= rv_k0(N, z, g, r + 1)
              /\ 5 * z <= N => rv_k0(N, z, g, r) < rv_k0(N, z, g, r + 1)
          BY <5>1, StartsInOrder, Zenon
        <5> QED
          BY <4>1, <4>2, <5>2, Zenon
      <4> QED
        BY <4>1, <4>2, <4>3
    <3>3. rv_k0(N, z, g, 0) = 0
      <4>1. PICK d \in Nat \ {0} : d = Columns(g) * z
        BY <2>6, TableSpread
      <4>2. Coeff(g, 0) * N = 0
        BY <2>6, TableSpread
      <4>3. 0 \div d = 0
        OBVIOUS
      <4> QED
        BY <4>1, <4>2, <4>3 DEF rv_k0
    <3>4. start_offset(cfg, N, 0) = 0 /\ start_offset(cfg, N, 3) < N
      BY <3>1, <3>3
    <3> QED
      BY <2>2, <2>3, <3>2, <3>4
  <2>7. CASE z = 0
    <3>1. \A r \in 0 .. 3 : start_offset(cfg, N, r) = (N * r) \div 4
      BY <2>3, <2>5, <2>7 DEF start_offset
    <3>2. /\ start_offset(cfg, N, 0) = 0 /\ start_offset(cfg, N, 3) < N
          /\ \A r \in 0 .. 2 :
                /\ start_offset(cfg, N, r) <= start_offset(cfg, N, r + 1)
                /\ N >= 4 => start_offset(cfg, N, r) # start_offset(cfg, N, r + 1)
      BY <2>5, <3>1, Quarters
    <3> QED
      BY <2>2, <3>2
  <2> QED
    BY <2>6, <2>7
<1> QED
  BY <1>1, SoftTyped, PTL

(***************************************************************************)
(* Nothing is lost: the magnitudes received are in the loop's buffer, in    *)
(* the write-back or in the soft buffer, whichever stage they have reached. *)
(***************************************************************************)

Magnitudes(v) == [x \in DOMAIN v |-> Magnitude(v[x])]
Weight(v) == SumFunction(Magnitudes(v))

LostInv ==
    /\ AlignInv
    /\ spent \in Int
    /\ tx_count = 0 => soft = Silence
    /\ Weight(soft) + (IF pc = "loop" THEN Weight(buf)
                       ELSE IF pc = "done" THEN Weight(full) ELSE 0) = spent

\* Values that do not argue against a sign do not cancel.
LEMMA MagnitudeSum ==
    ASSUME NEW x \in Int, NEW y \in Int, NEW s \in {1, -1}, x * s >= 0, y * s >= 0
    PROVE  Magnitude(x + y) = Magnitude(x) + Magnitude(y)
<1>1. s = 1 \/ s = -1
  OBVIOUS
<1>2. CASE s = 1
  BY <1>2 DEF Magnitude
<1>3. CASE s = -1
  BY <1>3 DEF Magnitude
<1> QED
  BY <1>1, <1>2, <1>3

LEMMA MagnitudesTyped ==
    ASSUME NEW D, NEW v \in [D -> Int]
    PROVE  Magnitudes(v) \in [D -> Int]
  BY DEF Magnitudes, Magnitude

LEMMA WeightInt ==
    ASSUME NEW D, IsFiniteSet(D), NEW v \in [D -> Int]
    PROVE  Weight(v) \in Int
  BY MagnitudesTyped, SumInt DEF Weight

LEMMA WeightZero ==
    ASSUME NEW D, IsFiniteSet(D)
    PROVE  Weight([x \in D |-> 0]) = 0
<1> DEFINE z == [x \in D |-> 0]
<1>1. Magnitudes(z) = z
  BY DEF Magnitudes, Magnitude
<1>2. z \in [D -> Int] /\ Added(z, z, z, D)
  BY DEF Added
<1> HIDE DEF z
<1>3. SumFunction(z) = 0
  BY <1>2, SumZero
<1>4. Weight(z) = 0
  BY <1>1, <1>3 DEF Weight
<1> QED
  BY <1>4 DEF z

LEMMA Stores ==
    ASSUME TypeOK
    PROVE  /\ IsFiniteSet(Bits) /\ IsFiniteSet(Cells)
           /\ Weight(soft) \in Int /\ Weight(full) \in Int /\ Weight(buf) \in Int
           /\ Weight(Silence) = 0 /\ Weight([k \in Cells |-> 0]) = 0
<1>1. IsFiniteSet(Bits) /\ IsFiniteSet(Cells)
  <2>1. cfg.n - 1 \in Int /\ BufferSize(cfg) - 1 \in Int
    BY ConfigFacts, Sizes
  <2> QED
    BY <2>1, FS_Interval DEF Bits, Cells
<1>2. Weight(soft) \in Int /\ Weight(full) \in Int /\ Weight(buf) \in Int
  BY <1>1, WeightInt DEF TypeOK
<1>3. Weight(Silence) = 0 /\ Weight([k \in Cells |-> 0]) = 0
  BY <1>1, WeightZero DEF Silence
<1> QED
  BY <1>1, <1>2, <1>3

\* An LLR adds its magnitude to its cell.
LEMMA AccumulateWeight ==
    ASSUME AlignInv, NEW a \in Mags, Accumulate(a)
    PROVE  Weight(buf') = Weight(buf) + a
<1>1. TypeOK /\ TypeOK' /\ cfg' = cfg /\ a \in Nat
  BY StepTyped, LinkAssumption DEF AlignInv, Next
<1>2. PICK cell \in Cells : cell = CellOf(i) /\ Source(cfg, cell) = Carried(cfg, rv, i)
  BY <1>1, ConfigFacts DEF TypeOK, CellOf, Carried
<1>3. PICK s \in {1, -1} : s = Sign(coded[Source(cfg, cell)])
  BY <1>1, ConfigFacts, SignValue DEF TypeOK
<1>4. buf[cell] \in Int /\ buf[cell] * s >= 0 /\ a * s \in Int /\ (a * s) * s >= 0
  <2>1. a * s \in Int /\ (a * s) * s >= 0
    BY <1>1
  <2>2. buf[cell] \in Int /\ buf[cell] * s >= 0
    BY <1>1, <1>3 DEF AlignInv, Accumulate, TypeOK
  <2> QED
    BY <2>1, <2>2
<1>5. Magnitude(buf[cell] + a * s) = Magnitude(buf[cell]) + a
  <2>1. Magnitude(a * s) = a
    <3>1. s = 1 \/ s = -1
      OBVIOUS
    <3> QED
      BY <1>1, <3>1 DEF Magnitude
  <2> QED
    BY <1>4, <2>1, MagnitudeSum
<1>6. buf' = [buf EXCEPT ![cell] = @ + a * s]
  BY <1>2, <1>3 DEF Accumulate
<1>7. buf \in [Cells -> Int] /\ buf' \in [Cells -> Int]
  BY <1>1 DEF TypeOK, Cells
<1>8. /\ Magnitudes(buf)[cell] = Magnitude(buf[cell])
      /\ Magnitudes(buf')[cell] = Magnitude(buf[cell] + a * s)
      /\ \A x \in Cells : x # cell => Magnitudes(buf')[x] = Magnitudes(buf)[x]
  BY <1>6, <1>7 DEF Magnitudes
<1>9. Magnitudes(buf) \in [Cells -> Int] /\ Magnitudes(buf') \in [Cells -> Int]
  BY <1>7, MagnitudesTyped
<1>10. IsFiniteSet(Cells) /\ a \in Int
  BY <1>1, Stores
<1>11. Changed(Magnitudes(buf'), Magnitudes(buf), Cells, cell, a)
  BY <1>5, <1>8, <1>9, <1>10 DEF Changed
<1> QED
  BY <1>11, SumChange DEF Weight

\* The write-back moves every cell to a bit of its own.
LEMMA UnpackWeight ==
    ASSUME FittingBuffers, AlignInv, Unpack
    PROVE  Weight(full') = Weight(buf)
<1>1. TypeOK /\ TypeOK' /\ cfg' = cfg /\ cfg \in ConfigType /\ LongEnough(cfg)
  BY StepTyped, ConfigFacts DEF AlignInv, Next
<1>2. PICK N \in Nat \ {0} : N = BufferSize(cfg)
  BY <1>1, Sizes
<1>3. PICK n \in Nat \ {0} : n = cfg.n
  BY <1>1, Sizes
<1>4. PICK p \in Nat : p = Punch(cfg)
  BY <1>1, Sizes
<1>5. p + N <= n /\ Space(cfg) = n - p /\ N <= Space(cfg) /\ Space(cfg) \in Nat \ {0}
  BY <1>1, <1>2, <1>3, <1>4, Sizes DEF FittingBuffers, TypeOK, BufferSize
<1>6. Bits = 0 .. n - 1 /\ Cells = 0 .. N - 1
  BY <1>2, <1>3 DEF Bits, Cells
<1>7. ASSUME NEW j \in 0 .. n - 1
      PROVE  full'[j] = IF p <= j /\ j < p + N THEN buf[j - p] ELSE 0
  <2>1. full'[j] = IF HasCell(cfg, j) THEN buf[LastCell(cfg, j)] ELSE 0
    BY <1>6 DEF Unpack, Unpacked
  <2>2. HasCell(cfg, j) <=> p <= j /\ j < p + N
    BY <1>2, <1>4 DEF HasCell
  <2>3. ASSUME p <= j, j < p + N PROVE LastCell(cfg, j) = j - p
    <3>1. N - 1 - (j - p) \in 0 .. Space(cfg) - 1
      BY <1>5, <2>3
    <3>2. (N - 1 - (j - p)) \div Space(cfg) = 0
      BY <1>5, <3>1, SmallQuotient
    <3> QED
      BY <1>2, <1>4, <1>5, <3>2 DEF LastCell
  <2> QED
    BY <2>1, <2>2, <2>3
<1>8. buf \in [0 .. N - 1 -> Int] /\ full' \in [0 .. n - 1 -> Int]
  BY <1>1, <1>6 DEF TypeOK, Bits
<1>9. Magnitudes(buf) \in [0 .. N - 1 -> Int] /\ Magnitudes(full') \in [0 .. n - 1 -> Int]
  BY <1>8, MagnitudesTyped
<1>10. ASSUME NEW j \in 0 .. n - 1
       PROVE  Magnitudes(full')[j] = IF p <= j /\ j < p + N THEN Magnitudes(buf)[j - p] ELSE 0
  <2>1. Magnitudes(full')[j] = Magnitude(full'[j])
    BY <1>8 DEF Magnitudes
  <2>2. CASE p <= j /\ j < p + N
    <3>1. j - p \in 0 .. N - 1
      BY <2>2
    <3>2. Magnitudes(buf)[j - p] = Magnitude(buf[j - p])
      BY <1>8, <3>1 DEF Magnitudes
    <3> QED
      BY <1>7, <2>1, <2>2, <3>2
  <2>3. CASE ~(p <= j /\ j < p + N)
    BY <1>7, <2>1, <2>3 DEF Magnitude
  <2> QED
    BY <2>2, <2>3
<1>11. Shifted(Magnitudes(full'), Magnitudes(buf), n, N, p)
  BY <1>10 DEF Shifted
<1>12. PICK a \in [0 .. N - 1 -> Int], b \in [0 .. n - 1 -> Int] :
           a = Magnitudes(buf) /\ b = Magnitudes(full') /\ Shifted(b, a, n, N, p)
  BY <1>9, <1>11
<1>13. SumFunction(b) = SumFunction(a)
  BY <1>5, <1>12, SumShift
<1> QED
  BY <1>12, <1>13 DEF Weight

\* Combining adds the weights.
LEMMA UpsertWeight ==
    ASSUME AlignInv, Upsert, tx_count = 0 => soft = Silence
    PROVE  Weight(soft') = Weight(soft) + Weight(full)
<1>1. TypeOK /\ IsFiniteSet(Bits) /\ Weight(full) \in Int /\ Weight(Silence) = 0
  BY Stores DEF AlignInv
<1>2. soft' = Combined /\ pc = "done"
  BY DEF Upsert
<1>3. CASE tx_count = 0
  <2>1. soft' = full /\ Weight(soft) = 0
    BY <1>1, <1>2, <1>3 DEF Combined
  <2> QED
    BY <1>1, <2>1
<1>4. CASE tx_count # 0
  <2>1. soft' = [j \in Bits |-> soft[j] + full[j]]
    BY <1>2, <1>4 DEF Combined
  <2>2. soft \in [Bits -> Int] /\ full \in [Bits -> Int] /\ soft' \in [Bits -> Int]
    BY <1>1, <2>1 DEF TypeOK
  <2>3. ASSUME NEW j \in Bits
        PROVE  Magnitudes(soft')[j] = Magnitudes(soft)[j] + Magnitudes(full)[j]
    <3>1. PICK s \in {1, -1} : s = Sign(coded[j])
      BY <1>1, SignValue DEF TypeOK
    <3>2. soft[j] \in Int /\ full[j] \in Int /\ soft[j] * s >= 0 /\ full[j] * s >= 0
      BY <1>2, <2>2, <3>1 DEF AlignInv, Aligned
    <3>3. Magnitude(soft[j] + full[j]) = Magnitude(soft[j]) + Magnitude(full[j])
      BY <3>2, MagnitudeSum
    <3>4. soft'[j] = soft[j] + full[j]
      BY <2>1
    <3> QED
      BY <2>2, <3>3, <3>4 DEF Magnitudes
  <2>4. /\ Magnitudes(soft) \in [Bits -> Int] /\ Magnitudes(full) \in [Bits -> Int]
        /\ Magnitudes(soft') \in [Bits -> Int]
        /\ Added(Magnitudes(soft'), Magnitudes(soft), Magnitudes(full), Bits)
    BY <2>2, <2>3, MagnitudesTyped DEF Added
  <2> QED
    BY <1>1, <2>4, SumSplit DEF Weight
<1> QED
  BY <1>3, <1>4

LEMMA InitLost == Init => LostInv
<1> SUFFICES ASSUME Init PROVE LostInv
  OBVIOUS
<1>1. AlignInv /\ TypeOK
  BY InitAligned DEF AlignInv
<1>2. Weight(soft) = 0
  BY <1>1, Stores DEF Init
<1> QED
  BY <1>1, <1>2 DEF Init, LostInv

LEMMA StepLost ==
    ASSUME FittingBuffers, LostInv, [Next]_vars
    PROVE  LostInv'
<1>t. TypeOK /\ TypeOK' /\ AlignInv /\ AlignInv' /\ cfg' = cfg /\ spent \in Int
  BY StepTyped, StepAligned DEF AlignInv, LostInv
<1>w. /\ Weight(soft) \in Int /\ Weight(full) \in Int /\ Weight(buf) \in Int
      /\ Weight(Silence) = 0 /\ Weight([k \in Cells |-> 0]) = 0
  BY <1>t, Stores
<1>b. Bits' = Bits /\ Silence' = Silence
  BY <1>t DEF Bits, Silence
<1>1. ASSUME NEW r \in Rvs, Receive(r) PROVE LostInv'
  BY <1>1, <1>t, <1>w, <1>b DEF LostInv, Receive
<1>2. ASSUME NEW a \in Mags, Accumulate(a) PROVE LostInv'
  <2>1. Weight(buf') = Weight(buf) + a /\ a \in Int
    BY <1>2, <1>t, AccumulateWeight, LinkAssumption
  <2>2. Weight(soft') = Weight(soft) /\ Weight(buf)' = Weight(buf')
    BY <1>2 DEF Accumulate, Weight, Magnitudes
  <2> QED
    BY <1>2, <1>t, <1>w, <1>b, <2>1, <2>2 DEF LostInv, Accumulate
<1>3. ASSUME Unpack PROVE LostInv'
  <2>1. Weight(full') = Weight(buf)
    BY <1>3, <1>t, UnpackWeight
  <2> QED
    BY <1>3, <1>t, <1>w, <1>b, <2>1 DEF LostInv, Unpack
<1>4. ASSUME Upsert PROVE LostInv'
  <2>1. Weight(soft') = Weight(soft) + Weight(full)
    BY <1>4, <1>t, UpsertWeight DEF LostInv
  <2>2. tx_count' # 0
    BY <1>4, <1>t DEF Upsert, TypeOK
  <2> QED
    BY <1>4, <1>t, <1>w, <1>b, <2>1, <2>2 DEF LostInv, Upsert
<1>5. ASSUME Clear PROVE LostInv'
  BY <1>5, <1>t, <1>w, <1>b DEF LostInv, Clear
<1>6. ASSUME UNCHANGED vars PROVE LostInv'
  BY <1>6, <1>t, <1>b DEF LostInv, vars
<1> QED
  BY <1>1, <1>2, <1>3, <1>4, <1>5, <1>6 DEF Next

\* When the circular buffer has no more cells than there are coded bits for it, the
\* soft buffer holds the magnitude of every LLR that was received, once
\* (rate_matching.cpp:69-84, harq.cpp:6-22).
THEOREM LosslessTheorem ==
    ASSUME FittingBuffers
    PROVE  Spec => []NothingLost
<1>1. LostInv => NothingLost
  <2> SUFFICES ASSUME LostInv, pc = "idle"
               PROVE  SumFunction([j \in Bits |-> Magnitude(soft[j])]) = spent
    BY DEF NothingLost
  <2>1. DOMAIN soft = Bits /\ Weight(soft) \in Int
    BY Stores DEF LostInv, AlignInv, TypeOK
  <2>2. Magnitudes(soft) = [j \in Bits |-> Magnitude(soft[j])]
    BY <2>1 DEF Magnitudes
  <2>3. Weight(soft) = spent
    BY <2>1 DEF LostInv
  <2> QED
    BY <2>2, <2>3 DEF Weight
<1>2. LostInv /\ [Next]_vars => LostInv'
  BY StepLost
<1> QED
  BY <1>1, <1>2, InitLost, PTL DEF Spec

=============================================================================
