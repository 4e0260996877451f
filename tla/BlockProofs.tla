----------------------------- MODULE BlockProofs -----------------------------
(***************************************************************************)
(* Theorems about what becomes of a transport block before it is encoded.   *)
(* The cut into code blocks, for every block and configuration; and the     *)
(* CRC, for every polynomial that ends in a 1, every payload and every      *)
(* pattern of flipped bits.                                                 *)
(***************************************************************************)
EXTENDS Segmentation, Crc, InductionFacts, TLAPS

LEMMA CeilFacts ==
    ASSUME NEW a \in Nat, NEW b \in Nat \ {0}
    PROVE  /\ CeilDiv(a, b) \in Nat
           /\ a <= b * CeilDiv(a, b)
           /\ b * CeilDiv(a, b) < a + b
<1>1. a + b - 1 \in Nat
  OBVIOUS
<1>2. \A x \in Nat : x \div b \in Nat /\ b * (x \div b) <= x /\ x < b * (x \div b) + b
  OBVIOUS
<1> QED
  BY <1>1, <1>2 DEF CeilDiv

LEMMA ConfigFacts ==
    ASSUME TypeOK
    PROVE  /\ B \in Nat /\ K_cb \in Nat
           /\ \A n \in Nat : CrcBits(cfg, n) \in {0, 24}
  BY SegmentationAssumption DEF TypeOK, Config, K_cb, CrcBits

\* n code blocks are as long as it takes: one bit less would not do.
LEMMA InfoBitsFacts ==
    ASSUME TypeOK, NEW n \in Nat \ {0}
    PROVE  /\ InfoBits(B, cfg, n) \in Int
           /\ B <= n * InfoBits(B, cfg, n)
           /\ n * InfoBits(B, cfg, n) < B + n
<1> DEFINE l == CrcBits(cfg, n)
           q == CeilDiv(B + n * l, n)
<1>1. l \in Nat /\ B \in Nat
  BY ConfigFacts
<1>2. n * l \in Nat
  BY <1>1
<1> HIDE DEF l
<1>a. B + n * l \in Nat
  BY <1>1, <1>2
<1>3. q \in Nat /\ B + n * l <= n * q /\ n * q < B + n * l + n
  BY <1>a, CeilFacts
<1>4. InfoBits(B, cfg, n) = q - l
  BY DEF InfoBits, l
<1> HIDE DEF q
<1>5. n * (q - l) = n * q - n * l
  BY <1>1, <1>3
<1> QED
  BY <1>1, <1>2, <1>3, <1>4, <1>5

\* The refinement loop leaves the first guess alone, and every block but the last
\* is full before the transport block ends.
LEMMA Geometry ==
    ASSUME TypeOK, B > 0, K_cb > 0
    PROVE  /\ num_code_blocks \in Nat \ {0}
           /\ Kinfo \in Nat \ {0}
           /\ (num_code_blocks - 1) * Kinfo < B
           /\ B <= num_code_blocks * Kinfo
<1>1. B \in Nat \ {0} /\ K_cb \in Nat \ {0}
  BY ConfigFacts
<1>2. CASE B <= K_cb
  <2>1. num_code_blocks = 1
    BY <1>2 DEF num_code_blocks, CodeBlocks, K_cb
  <2>2. InfoBits(B, cfg, 1) \in Int /\ B <= 1 * InfoBits(B, cfg, 1) /\ 1 * InfoBits(B, cfg, 1) < B + 1
    BY InfoBitsFacts
  <2>3. InfoBits(B, cfg, 1) = B
    BY <1>1, <2>2
  <2> QED
    BY <1>1, <2>1, <2>3 DEF Kinfo
<1>3. CASE B > K_cb
  <2> DEFINE n == CeilDiv(B, K_cb)
             m == InfoBits(B, cfg, n)
  <2>1. n \in Nat /\ B <= K_cb * n /\ K_cb * n < B + K_cb
    BY <1>1, CeilFacts
  <2>2. n # 0
    BY <1>1, <2>1
  <2>3. m \in Int /\ B <= n * m /\ n * m < B + n
    BY <2>1, <2>2, InfoBitsFacts
  <2> HIDE DEF n, m
  <2>4. m <= K_cb
    <3>1. n * m < n * (K_cb + 1)
      BY <1>1, <2>1, <2>3
    <3>2. m < K_cb + 1
      BY <1>1, <2>1, <2>2, <2>3, <3>1
    <3> QED
      BY <1>1, <2>3, <3>2
  <2>5. m > 0
    BY <1>1, <2>1, <2>3
  <2>6. num_code_blocks = n
    BY <1>1, <1>3, <2>4 DEF num_code_blocks, CodeBlocks, K_cb, n, m
  <2>7. Kinfo = m
    BY <2>6 DEF Kinfo, m
  <2>8. (n - 1) * m <= (n - 1) * K_cb
    BY <1>1, <2>1, <2>2, <2>3, <2>4
  <2>9. (n - 1) * K_cb < B
    BY <1>1, <2>1
  <2>10. (n - 1) * m \in Int /\ (n - 1) * K_cb \in Int
    BY <1>1, <2>1, <2>3
  <2>11. (n - 1) * m < B
    BY <1>1, <2>8, <2>9, <2>10
  <2> QED
    BY <2>1, <2>2, <2>3, <2>5, <2>6, <2>7, <2>11
<1> QED
  BY <1>1, <1>2, <1>3

-----------------------------------------------------------------------------

LEMMA LiftingFacts ==
    /\ LiftingSizes \subseteq Nat \ {0}
    /\ \A z \in LiftingSizes : i_ls_for_zc(z) \in 0 .. 7 /\ z \in LiftingSets[i_ls_for_zc(z) + 1]
<1>1. \A i \in 1 .. 8 : LiftingSets[i] \subseteq Nat \ {0}
  <2> SUFFICES ASSUME NEW i \in 1 .. 8 PROVE LiftingSets[i] \subseteq Nat \ {0}
    OBVIOUS
  <2>1. i = 1 \/ i = 2 \/ i = 3 \/ i = 4 \/ i = 5 \/ i = 6 \/ i = 7 \/ i = 8
    OBVIOUS
  <2> QED
    BY <2>1 DEF LiftingSets
<1>2. LiftingSizes \subseteq Nat \ {0}
  BY <1>1 DEF LiftingSizes
<1>3. ASSUME NEW z \in LiftingSizes
      PROVE  i_ls_for_zc(z) \in 0 .. 7 /\ z \in LiftingSets[i_ls_for_zc(z) + 1]
  <2> DEFINE i == CHOOSE x \in 1 .. 8 : z \in LiftingSets[x]
  <2>1. \E x \in 1 .. 8 : z \in LiftingSets[x]
    BY DEF LiftingSizes
  <2>2. i \in 1 .. 8 /\ z \in LiftingSets[i]
    BY <2>1
  <2>3. i_ls_for_zc(z) = i - 1
    BY DEF i_ls_for_zc
  <2> HIDE DEF i
  <2>4. i_ls_for_zc(z) + 1 = i /\ i - 1 \in 0 .. 7
    BY <2>2, <2>3
  <2> QED
    BY <2>2, <2>3, <2>4
<1> QED
  BY <1>2, <1>3

\* The lifting size fills the columns it was chosen for, and with them the graph's.
LEMMA ChosenLifting ==
    ASSUME NEW k \in Nat, NEW g \in BaseGraph, Candidates(k, g) # {}
    PROVE  /\ select_lifting(k, g) \in LiftingSizes
           /\ Kb(g) * select_lifting(k, g) - k \in Nat
           /\ Kb(g) * select_lifting(k, g) \in Nat
<1> DEFINE z == select_lifting(k, g)
<1>1. Candidates(k, g) \subseteq LiftingSizes /\ Candidates(k, g) \subseteq Nat
  BY LiftingFacts DEF Candidates
<1>2. z \in Candidates(k, g)
  BY <1>1, LeastNat DEF select_lifting
<1>3. z \in LiftingSizes /\ z \in Nat /\ KbSel(k, g) * z >= k
  BY <1>1, <1>2 DEF Candidates
<1> HIDE DEF z
<1>4. KbSel(k, g) \in Nat /\ Kb(g) \in Nat /\ KbSel(k, g) <= Kb(g)
  BY DEF KbSel, Kb, BaseGraph
<1>5. Kb(g) * z \in Nat /\ KbSel(k, g) * z <= Kb(g) * z /\ KbSel(k, g) * z \in Nat
  BY <1>3, <1>4
<1>6. Kb(g) * z - k \in Nat
  BY <1>3, <1>5
<1> QED
  BY <1>3, <1>5, <1>6 DEF z

LEMMA GraphTyped ==
    ASSUME TypeOK
    PROVE  Graph \in BaseGraph
  BY DEF Graph, select_basegraph, BaseGraph, TypeOK, Config

\* What is planned for a block is a plan, and depends on nothing but B and cfg
\* except for its place.
LEMMA PlanFacts ==
    ASSUME TypeOK, B > 0, K_cb > 0, Plannable, Take \in Nat
    PROVE  /\ Plan \in PlanType
           /\ Plan.start = offset /\ Plan.take = Take /\ Plan.size = BlockSize
           /\ Plan.bg = Graph /\ Plan.zc = select_lifting(BlockSize, Graph)
           /\ Plan.filler_bits \in Nat
<1> DEFINE z == select_lifting(BlockSize, Graph)
<1>1. BlockSize \in Nat
  BY Geometry, ConfigFacts DEF BlockSize, L
<1>2. Graph \in BaseGraph
  BY GraphTyped
<1>3. z \in LiftingSizes /\ Kb(Graph) * z - BlockSize \in Nat /\ Kb(Graph) * z \in Nat
  BY <1>1, <1>2, ChosenLifting DEF Plannable
<1>4. i_ls_for_zc(z) \in 0 .. 7 /\ offset \in Nat
  <2> HIDE DEF z
  <2>1. i_ls_for_zc(z) \in 0 .. 7
    BY <1>3, LiftingFacts
  <2> QED
    BY <2>1, ConfigFacts DEF TypeOK
<1>5. Plan = [start |-> offset, take |-> Take, size |-> BlockSize, bg |-> Graph, zc |-> z,
              i_ls |-> i_ls_for_zc(z), k_ldpc |-> Kb(Graph) * z,
              filler_bits |-> Kb(Graph) * z - BlockSize]
  BY DEF Plan
<1> HIDE DEF z
<1>6. Plan \in PlanType
  BY <1>1, <1>2, <1>3, <1>4, <1>5 DEF PlanType
<1> QED
  BY <1>3, <1>5, <1>6 DEF z

\* B and cfg fix the cut and the choice.
LEMMA Fixed ==
    ASSUME B' = B, cfg' = cfg
    PROVE  /\ num_code_blocks' = num_code_blocks /\ Kinfo' = Kinfo /\ L' = L
           /\ BlockSize' = BlockSize /\ Graph' = Graph /\ Plannable' = Plannable
           /\ K_cb' = K_cb
<1>1. K_cb' = K_cb
  BY DEF K_cb
<1>2. num_code_blocks' = num_code_blocks
  BY DEF num_code_blocks
<1>3. Kinfo' = Kinfo /\ L' = L
  BY <1>2 DEF Kinfo, L
<1>4. BlockSize' = BlockSize
  BY <1>3 DEF BlockSize
<1>5. Graph' = Graph
  BY <1>4 DEF Graph
<1> QED
  BY <1>1, <1>2, <1>3, <1>4, <1>5 DEF Plannable

-----------------------------------------------------------------------------

\* Where the loop is: the blocks planned so far are full ones from the start of
\* the transport block on, except that the last of all takes what is left.
CutInv ==
    /\ Len(code_blocks) = c
    /\ c # 0 \/ pc = "loop" => B > 0 /\ K_cb > 0
    /\ c # 0 => c <= num_code_blocks /\ Plannable
    /\ c # 0 /\ c = num_code_blocks => offset = B
    /\ c = 0 => offset = 0
    /\ c # 0 /\ c < num_code_blocks => offset = c * Kinfo
    /\ pc = "returned" => offset = B
    /\ \A k \in 1 .. c :
        /\ Start(k) = (k - 1) * Kinfo
        /\ Taken(k) = IF k < num_code_blocks THEN Kinfo ELSE B - (k - 1) * Kinfo
        /\ code_blocks[k].size = BlockSize /\ code_blocks[k].bg = Graph
        /\ code_blocks[k].zc = select_lifting(BlockSize, Graph)

SegInv ==
    /\ TypeOK
    /\ pc = "start" => c = 0
    /\ pc = "threw" => c = 0
    /\ CutInv

LEMMA SegInit == Init => SegInv
<1> SUFFICES ASSUME Init PROVE SegInv
  OBVIOUS
<1>1. TypeOK
  BY SegmentationAssumption DEF Init, TypeOK
<1>2. Len(code_blocks) = 0 /\ c = 0 /\ 1 .. c = {}
  BY DEF Init
<1> QED
  BY <1>1, <1>2 DEF Init, SegInv, CutInv

LEMMA TakeFacts ==
    ASSUME SegInv, pc = "loop", c < num_code_blocks
    PROVE  /\ offset = c * Kinfo /\ Take \in Nat \ {0} /\ offset + Take <= B
           /\ Take = IF c + 1 < num_code_blocks THEN Kinfo ELSE B - c * Kinfo
           /\ c + 1 < num_code_blocks => offset + Take = (c + 1) * Kinfo
           /\ c + 1 = num_code_blocks => offset + Take = B
<1> DEFINE C == num_code_blocks
           K == Kinfo
<1>1. TypeOK /\ B \in Nat /\ c \in Nat /\ B > 0 /\ K_cb > 0
  BY ConfigFacts DEF SegInv, CutInv, TypeOK
<1>2. C \in Nat \ {0} /\ K \in Nat \ {0} /\ (C - 1) * K < B /\ B <= C * K
  BY <1>1, Geometry
<1>6. offset = c * K
  BY <1>1, <1>2 DEF SegInv, CutInv
<1>3. Take = IF K < B - c * K THEN K ELSE B - c * K
  BY <1>6 DEF Take
<1> HIDE DEF C, K
<1>4. CASE c + 1 < C
  <2>1. (c + 1) * K <= (C - 1) * K
    BY <1>1, <1>2, <1>4
  <2>2. (c + 1) * K = c * K + K /\ c * K \in Nat
    BY <1>1, <1>2
  <2> QED
    BY <1>1, <1>2, <1>3, <1>4, <1>6, <2>1, <2>2 DEF C, K
<1>5. CASE ~(c + 1 < C)
  <2>1. c + 1 = C
    BY <1>1, <1>2, <1>5 DEF C
  <2>2. c * K < B /\ B <= c * K + K /\ c * K \in Nat
    BY <1>1, <1>2, <2>1
  <2> QED
    BY <1>1, <1>2, <1>3, <1>5, <1>6, <2>1, <2>2 DEF C, K
<1> QED
  BY <1>4, <1>5

LEMMA SegStep ==
    ASSUME SegInv, [Next]_vars
    PROVE  SegInv'
<1>f. /\ B' = B /\ cfg' = cfg
      /\ num_code_blocks' = num_code_blocks /\ Kinfo' = Kinfo /\ L' = L
      /\ BlockSize' = BlockSize /\ Graph' = Graph /\ Plannable' = Plannable
      /\ K_cb' = K_cb
  BY Fixed DEF Next, Begin, PlanBlock, Throw, Return, vars
<1>1. CASE Begin
  <2>1. c = 0 /\ c' = 0 /\ offset' = offset /\ code_blocks' = code_blocks /\ TypeOK'
    BY <1>1 DEF Begin, SegInv, TypeOK
  <2>2. pc' = "loop" => B > 0 /\ K_cb > 0
    BY <1>1, ConfigFacts DEF Begin, SegInv
  <2>3. pc' = "returned" => offset = B
    <3>1. CASE num_code_blocks = 0
      BY <1>1, <2>1, <3>1 DEF Begin, SegInv, CutInv, TypeOK
    <3> QED
      BY <1>1, <2>1 DEF Begin, SegInv, CutInv, TypeOK
  <2> QED
    BY <1>f, <2>1, <2>2, <2>3 DEF SegInv, CutInv, Start, Taken
<1>2. CASE PlanBlock
  <2>0. /\ TypeOK /\ pc = "loop" /\ c < num_code_blocks /\ Plannable /\ c \in Nat
        /\ B > 0 /\ K_cb > 0 /\ Len(code_blocks) = c /\ B \in Nat
    BY <1>2, ConfigFacts DEF PlanBlock, SegInv, CutInv, TypeOK
  <2>1. /\ c' = c + 1 /\ pc' = pc /\ offset' = offset + Take
        /\ code_blocks' = Append(code_blocks, Plan)
        /\ total_filler_bits' = total_filler_bits + Plan.filler_bits
    BY <1>2 DEF PlanBlock
  <2>2. /\ offset = c * Kinfo /\ Take \in Nat \ {0} /\ offset + Take <= B
        /\ Take = IF c + 1 < num_code_blocks THEN Kinfo ELSE B - c * Kinfo
        /\ c + 1 < num_code_blocks => offset + Take = (c + 1) * Kinfo
        /\ c + 1 = num_code_blocks => offset + Take = B
    BY <2>0, TakeFacts
  <2>3. /\ Plan \in PlanType /\ Plan.start = offset /\ Plan.take = Take
        /\ Plan.size = BlockSize /\ Plan.bg = Graph
        /\ Plan.zc = select_lifting(BlockSize, Graph) /\ Plan.filler_bits \in Nat
    BY <2>0, <2>2, PlanFacts
  <2>4. TypeOK'
    <3>1. B' \in Sizes /\ cfg' \in Config /\ pc' \in {"start", "loop", "returned", "threw"}
      BY <1>f, <2>0, <2>1 DEF TypeOK
    <3>2. c' \in Nat /\ offset' \in 0 .. B'
      <4>1. offset \in Nat
        BY <2>0 DEF TypeOK
      <4> QED
        BY <1>f, <2>0, <2>1, <2>2, <4>1
    <3>3. code_blocks' \in Seq(PlanType)
      BY <2>0, <2>1, <2>3 DEF TypeOK
    <3>4. total_filler_bits' \in Nat
      <4>1. total_filler_bits \in Nat
        BY <2>0 DEF TypeOK
      <4> QED
        BY <2>1, <2>3, <4>1
    <3> QED
      BY <3>1, <3>2, <3>3, <3>4 DEF TypeOK
  <2>5. num_code_blocks \in Nat
    BY <2>0, Geometry
  <2>6. /\ Len(code_blocks') = c + 1
        /\ code_blocks'[c + 1] = Plan
        /\ \A k \in 1 .. c : code_blocks'[k] = code_blocks[k]
    BY <2>0, <2>1, <2>3 DEF TypeOK
  <2>7. ASSUME NEW k \in 1 .. c + 1
        PROVE  /\ Start(k)' = (k - 1) * Kinfo
               /\ Taken(k)' = IF k < num_code_blocks THEN Kinfo ELSE B - (k - 1) * Kinfo
               /\ code_blocks'[k].size = BlockSize /\ code_blocks'[k].bg = Graph
               /\ code_blocks'[k].zc = select_lifting(BlockSize, Graph)
    <3>1. CASE k = c + 1
      <4>1. code_blocks'[k] = Plan /\ k - 1 = c
        BY <2>0, <2>6, <3>1
      <4> QED
        BY <2>2, <2>3, <3>1, <4>1 DEF Start, Taken
    <3>2. CASE k \in 1 .. c
      BY <2>6, <3>2 DEF SegInv, CutInv, Start, Taken
    <3> QED
      BY <2>0, <3>1, <3>2
  <2>8. CutInv'
    <3>1. \A k \in 1 .. c' :
            /\ Start(k)' = (k - 1) * Kinfo'
            /\ Taken(k)' = IF k < num_code_blocks' THEN Kinfo' ELSE B' - (k - 1) * Kinfo'
            /\ code_blocks'[k].size = BlockSize' /\ code_blocks'[k].bg = Graph'
            /\ code_blocks'[k].zc = select_lifting(BlockSize', Graph')
      BY <1>f, <2>1, <2>7
    <3>2. /\ c' # 0 => c' <= num_code_blocks' /\ Plannable'
          /\ c' # 0 /\ c' = num_code_blocks' => offset' = B'
          /\ c' = 0 => offset' = 0
          /\ c' # 0 /\ c' < num_code_blocks' => offset' = c' * Kinfo'
      BY <1>f, <2>0, <2>1, <2>2, <2>5
    <3> QED
      BY <1>f, <2>0, <2>1, <2>6, <3>1, <3>2 DEF CutInv
  <2> QED
    BY <2>0, <2>1, <2>4, <2>8 DEF SegInv
<1>3. CASE Throw
  <2>1. c = 0
    BY <1>3 DEF Throw, SegInv, CutInv
  <2> QED
    BY <1>3, <1>f, <2>1 DEF Throw, SegInv, CutInv, TypeOK, Start, Taken
<1>4. CASE Return
  <2>1. num_code_blocks \in Nat \ {0}
    BY <1>4, Geometry DEF Return, SegInv, CutInv
  <2>2. offset = B
    BY <1>4, <2>1 DEF Return, SegInv, CutInv
  <2> QED
    BY <1>4, <1>f, <2>2 DEF Return, SegInv, CutInv, TypeOK, Start, Taken
<1>5. CASE UNCHANGED vars
  BY <1>5, <1>f DEF vars, SegInv, CutInv, TypeOK, Start, Taken
<1> QED
  BY <1>1, <1>2, <1>3, <1>4, <1>5 DEF Next

LEMMA SegInvariant == Spec => []SegInv
  BY SegInit, SegStep, PTL DEF Spec

\* Every plan is a plan: lifting sizes are in the table, filler is never negative
\* (segmentation.cpp:58-64).
THEOREM SegmentationTyped == Spec => []TypeOK
  BY SegInvariant, PTL DEF SegInv

\* The code blocks partition the transport block, none of them empty, and only the
\* last is padded (segmentation.cpp:14-46).
THEOREM PartitionTheorem == Spec => []Partition
<1>1. SegInv => Partition
  <2> SUFFICES ASSUME SegInv PROVE Partition
    OBVIOUS
  <2>1. Blocks = 1 .. c /\ c \in Nat /\ TypeOK /\ B \in Nat
    BY ConfigFacts DEF SegInv, CutInv, TypeOK, Blocks
  <2>2. ASSUME NEW k \in Blocks
        PROVE  /\ Start(k) = IF k = 1 THEN 0 ELSE Start(k - 1) + Taken(k - 1)
               /\ Taken(k) > 0
               /\ k < num_code_blocks => Taken(k) = Kinfo
    <3> DEFINE C == num_code_blocks
               K == Kinfo
    <3>1. k \in 1 .. c /\ k \in Nat \ {0} /\ B > 0 /\ K_cb > 0 /\ c <= C
      BY <2>1 DEF SegInv, CutInv
    <3>2. C \in Nat \ {0} /\ K \in Nat \ {0} /\ (C - 1) * K < B
      BY <2>1, <3>1, Geometry
    <3>3. /\ Start(k) = (k - 1) * K
          /\ Taken(k) = IF k < C THEN K ELSE B - (k - 1) * K
          /\ k # 1 => Start(k - 1) = (k - 1 - 1) * K /\ Taken(k - 1) = K
      <4>1. k # 1 => k - 1 \in 1 .. c /\ k - 1 < C
        BY <2>1, <3>1, <3>2
      <4> QED
        BY <3>1, <4>1 DEF SegInv, CutInv
    <3> HIDE DEF C, K
    <3>4. k # 1 => (k - 1) * K = (k - 1 - 1) * K + K
      BY <3>1, <3>2
    <3>5. Taken(k) > 0
      <4>1. ~(k < C) => k = C
        BY <2>1, <3>1, <3>2
      <4> QED
        BY <2>1, <3>1, <3>2, <3>3, <4>1
    <3>6. Start(k) = IF k = 1 THEN 0 ELSE Start(k - 1) + Taken(k - 1)
      BY <3>1, <3>2, <3>3, <3>4
    <3> QED
      BY <3>3, <3>5, <3>6 DEF C, K
  <2>3. Finished => offset = B
    BY DEF SegInv, CutInv, Finished
  <2> QED
    BY <2>2, <2>3 DEF Partition
<1> QED
  BY <1>1, SegInvariant, PTL

\* All blocks get the same size, graph and lifting, and a segmentation that throws
\* has planned nothing (segmentation.cpp:38-72).
THEOREM AllOrNothingTheorem == Spec => []AllOrNothing
<1>1. SegInv => AllOrNothing
  <2> SUFFICES ASSUME SegInv PROVE AllOrNothing
    OBVIOUS
  <2>1. Blocks = 1 .. c
    BY DEF SegInv, CutInv, TypeOK, Blocks
  <2>2. pc = "threw" => code_blocks = <<>>
    BY DEF SegInv, CutInv, TypeOK
  <2> QED
    BY <2>1, <2>2 DEF SegInv, CutInv, AllOrNothing
<1> QED
  BY <1>1, SegInvariant, PTL

-----------------------------------------------------------------------------

\* What EncoderAccepts asks of one plan.
Accepted(p) ==
    /\ p.zc \in LiftingSets[p.i_ls + 1]
    /\ p.size <= p.k_ldpc /\ p.filler_bits = p.k_ldpc - p.size
    /\ p.bg = "BG1" \/ p.size > 640 =>
        \A z \in LiftingSizes : Kb(p.bg) * z >= p.size => p.zc <= z

\* Where as many columns are chosen for as the graph has, no smaller lifting size
\* would have done.
LEMMA LeastLifting ==
    ASSUME NEW k \in Nat, NEW g \in BaseGraph, Candidates(k, g) # {}, g = "BG1" \/ k > 640,
           NEW z \in LiftingSizes, Kb(g) * z >= k
    PROVE  select_lifting(k, g) <= z
<1>1. Candidates(k, g) \subseteq Nat
  BY LiftingFacts DEF Candidates
<1>2. \E y \in Candidates(k, g) : \A x \in Candidates(k, g) : y <= x
  BY <1>1, LeastNat
<1>3. \A y \in Candidates(k, g) : select_lifting(k, g) <= y
  BY <1>2 DEF select_lifting
<1>4. KbSel(k, g) = Kb(g)
  BY DEF KbSel, Kb, BaseGraph
<1>5. z \in Candidates(k, g)
  BY <1>4 DEF Candidates
<1> QED
  BY <1>3, <1>5

LEMMA PlanAccepted ==
    ASSUME TypeOK, B > 0, K_cb > 0, Plannable
    PROVE  Accepted(Plan)
<1> DEFINE z == select_lifting(BlockSize, Graph)
<1>1. BlockSize \in Nat
  BY Geometry, ConfigFacts DEF BlockSize, L
<1>2. Graph \in BaseGraph /\ Candidates(BlockSize, Graph) # {}
  BY GraphTyped DEF Plannable
<1>3. z \in LiftingSizes /\ Kb(Graph) * z - BlockSize \in Nat /\ Kb(Graph) * z \in Nat
  BY <1>1, <1>2, ChosenLifting
<1>4. ASSUME Graph = "BG1" \/ BlockSize > 640, NEW y \in LiftingSizes, Kb(Graph) * y >= BlockSize
      PROVE  z <= y
  BY <1>1, <1>2, <1>4, LeastLifting
<1>5. /\ Plan.zc = z /\ Plan.i_ls = i_ls_for_zc(z) /\ Plan.size = BlockSize /\ Plan.bg = Graph
      /\ Plan.k_ldpc = Kb(Graph) * z /\ Plan.filler_bits = Kb(Graph) * z - BlockSize
  BY DEF Plan
<1> HIDE DEF z
<1>6. z \in LiftingSets[i_ls_for_zc(z) + 1]
  BY <1>3, LiftingFacts
<1>7. BlockSize <= Kb(Graph) * z
  BY <1>1, <1>3
<1> QED
  BY <1>4, <1>5, <1>6, <1>7 DEF Accepted

LEMMA AcceptStep ==
    ASSUME SegInv, EncoderAccepts, [Next]_vars
    PROVE  EncoderAccepts'
<1>1. CASE PlanBlock
  <2>1. /\ TypeOK /\ B > 0 /\ K_cb > 0 /\ Plannable
        /\ code_blocks' = Append(code_blocks, Plan)
    BY <1>1 DEF PlanBlock, SegInv, CutInv
  <2>2. Accepted(Plan)
    BY <2>1, PlanAccepted
  <2>3. ASSUME NEW k \in Blocks' PROVE Accepted(code_blocks'[k])
    <3>1. code_blocks \in Seq(PlanType) /\ k \in 1 .. Len(code_blocks) + 1
      BY <2>1 DEF TypeOK, Blocks
    <3>2. CASE k = Len(code_blocks) + 1
      <4>1. code_blocks'[k] = Plan
        BY <2>1, <3>1, <3>2
      <4> QED
        BY <2>2, <4>1
    <3>3. CASE k # Len(code_blocks) + 1
      <4>1. k \in Blocks /\ code_blocks'[k] = code_blocks[k]
        BY <2>1, <3>1, <3>3 DEF Blocks
      <4> QED
        BY <4>1 DEF EncoderAccepts, Accepted
    <3> QED
      BY <3>2, <3>3
  <2> QED
    BY <2>3 DEF EncoderAccepts, Accepted
<1>2. CASE ~PlanBlock
  <2>1. code_blocks' = code_blocks
    BY <1>2 DEF Next, Begin, Throw, Return, vars
  <2> QED
    BY <2>1 DEF EncoderAccepts, Blocks
<1> QED
  BY <1>1, <1>2

\* Every plan is one the encoder takes: the lifting size is in the set it is said to
\* be in, the block fits the information columns, and where the choice is made for
\* all the columns of the graph no smaller size does (segmentation.cpp:55-70).
THEOREM EncoderTheorem == Spec => []EncoderAccepts
<1>1. Init => EncoderAccepts
  BY DEF Init, EncoderAccepts, Blocks
<1>2. SegInv /\ EncoderAccepts /\ [Next]_vars => EncoderAccepts'
  BY AcceptStep
<1> QED
  BY <1>1, <1>2, SegInvariant, PTL DEF Spec

-----------------------------------------------------------------------------

\* g[i] is the concatenation of the first i of n sequences.
Joins(g, s, n) == g[1] = s[1] /\ \A i \in 2 .. n : g[i] = g[i - 1] \o s[i]

\* What FlattenSeq computes is the last value of any function that satisfies its
\* recursive definition.
LEMMA FlattenIs ==
    ASSUME NEW n \in Nat \ {0}, NEW s, NEW g, Len(s) = n, Joins(g, s, n)
    PROVE  FlattenSeq(s) = g[n]
<1> USE DEF Joins
<1> DEFINE f == CHOOSE h : h = [i \in 1 .. n |-> IF i = 1 THEN s[i] ELSE h[i - 1] \o s[i]]
<1>1. f = [i \in 1 .. n |-> IF i = 1 THEN s[i] ELSE f[i - 1] \o s[i]]
  <2> DEFINE h == [i \in 1 .. n |-> g[i]]
  <2>1. ASSUME NEW i \in 1 .. n
        PROVE  g[i] = IF i = 1 THEN s[i] ELSE h[i - 1] \o s[i]
    <3>1. i # 1 => i - 1 \in 1 .. n /\ i \in 2 .. n
      OBVIOUS
    <3> QED
      BY <3>1
  <2>2. h = [i \in 1 .. n |-> IF i = 1 THEN s[i] ELSE h[i - 1] \o s[i]]
    BY <2>1
  <2> QED
    BY <2>2
<1>2. FlattenSeq(s) = f[n]
  BY DEF FlattenSeq
<1> HIDE DEF f
<1> DEFINE Same == {i \in Nat : i \in 1 .. n => f[i] = g[i]}
<1>3. 0 \in Same
  OBVIOUS
<1>4. ASSUME NEW i \in Nat, i \in Same PROVE i + 1 \in Same
  <2> SUFFICES ASSUME i + 1 \in 1 .. n PROVE f[i + 1] = g[i + 1]
    OBVIOUS
  <2>1. CASE i = 0
    <3>1. f[1] = s[1]
      BY <1>1
    <3> QED
      BY <2>1, <3>1
  <2>2. CASE i # 0
    <3>1. i \in 1 .. n /\ i + 1 # 1 /\ (i + 1) - 1 = i
      BY <2>2
    <3>2. f[i + 1] = f[i] \o s[i + 1]
      BY <1>1, <3>1
    <3>3. g[i + 1] = g[i] \o s[i + 1]
      <4>1. i + 1 \in 2 .. n
        BY <2>2
      <4> QED
        BY <3>1, <4>1
    <3> QED
      BY <1>4, <3>1, <3>2, <3>3
  <2> QED
    BY <2>1, <2>2
<1>5. n \in Same
  <2> HIDE DEF Same
  <2>1. Nat \subseteq Same
    BY <1>3, <1>4, NatFrom
  <2> QED
    BY <2>1
<1> QED
  BY <1>2, <1>5

LEMMA ConcatFacts ==
    ASSUME NEW T, NEW s \in Seq(T), NEW u \in Seq(T)
    PROVE  s \o u = [x \in 1 .. Len(s) + Len(u) |->
                        IF x <= Len(s) THEN s[x] ELSE u[x - Len(s)]]
<1>1. s \o u \in Seq(T) /\ Len(s \o u) = Len(s) + Len(u)
  OBVIOUS
<1>2. \A x \in 1 .. Len(s) + Len(u) :
         (s \o u)[x] = IF x <= Len(s) THEN s[x] ELSE u[x - Len(s)]
  OBVIOUS
<1>3. DOMAIN (s \o u) = 1 .. Len(s) + Len(u)
  BY <1>1
<1>4. s \o u = [x \in DOMAIN (s \o u) |-> (s \o u)[x]]
  <2>1. \A q \in Seq(T) : q \in [1 .. Len(q) -> T]
    OBVIOUS
  <2>2. s \o u \in [1 .. Len(s \o u) -> T]
    BY <1>1, <2>1
  <2> QED
    BY <2>2
<1> QED
  BY <1>2, <1>3, <1>4

\* The bits of a run of n full blocks: the transport block, then zeros.
Padded(n) == [x \in 1 .. n |-> IF x <= B THEN x ELSE "zero"]

\* Without block CRCs the bits of block k are the k-th piece of the padded block.
LEMMA PieceBits ==
    ASSUME SegInv, L = 0, NEW k \in 1 .. c
    PROVE  /\ Kinfo \in Nat \ {0} /\ k \in Nat \ {0} /\ B \in Nat
           /\ (k - 1) * Kinfo \in Nat /\ k * Kinfo = (k - 1) * Kinfo + Kinfo
           /\ Bits(code_blocks[k]) = [y \in 1 .. Kinfo |-> Padded(k * Kinfo)[(k - 1) * Kinfo + y]]
<1>1. c \in Nat /\ TypeOK /\ B \in Nat /\ k \in Nat \ {0} /\ B > 0 /\ K_cb > 0 /\ c <= num_code_blocks
  BY ConfigFacts DEF SegInv, CutInv, TypeOK
<1>2. PICK K \in Nat \ {0} : K = Kinfo /\ (num_code_blocks - 1) * Kinfo < B
  BY <1>1, Geometry
<1>3. num_code_blocks \in Nat \ {0}
  BY <1>1, Geometry
<1>4. PICK a \in Nat : a = (k - 1) * K /\ k * K = a + K
  BY <1>1, <1>2
<1>5. /\ code_blocks[k].start = a /\ code_blocks[k].size = K
      /\ code_blocks[k].take = IF k < num_code_blocks THEN K ELSE B - a
  BY <1>2, <1>4 DEF SegInv, CutInv, Start, Taken, BlockSize
<1>6. k < num_code_blocks => a + K <= B
  <2> SUFFICES ASSUME k < num_code_blocks PROVE a + K <= B
    OBVIOUS
  <2>1. k * K <= (num_code_blocks - 1) * K
    BY <1>1, <1>2, <1>3
  <2>2. k * K \in Nat /\ (num_code_blocks - 1) * K \in Nat
    BY <1>1, <1>2, <1>3
  <2> QED
    BY <1>1, <1>2, <1>4, <2>1, <2>2
<1>7. ASSUME NEW y \in 1 .. K
      PROVE  (IF y <= code_blocks[k].take THEN code_blocks[k].start + y
              ELSE IF y <= Kinfo THEN "zero" ELSE "crc")
             = Padded(k * Kinfo)[a + y]
  <2>1. a + y \in 1 .. k * K
    BY <1>4
  <2>2. Padded(k * Kinfo)[a + y] = IF a + y <= B THEN a + y ELSE "zero"
    BY <1>2, <2>1 DEF Padded
  <2>3. y <= code_blocks[k].take <=> a + y <= B
    BY <1>1, <1>3, <1>5, <1>6
  <2> QED
    BY <1>2, <1>5, <2>2, <2>3
<1>8. Bits(code_blocks[k]) = [y \in 1 .. K |-> Padded(k * Kinfo)[a + y]]
  BY <1>5, <1>7 DEF Bits
<1> QED
  BY <1>1, <1>2, <1>4, <1>8

\* The pieces of blocks 1 to k put together.
LEMMA Pieces ==
    ASSUME SegInv, L = 0, c # 0
    PROVE  FlattenSeq(Decoded) = Padded(c * Kinfo)
<1> DEFINE g == [i \in 1 .. c |-> Padded(i * Kinfo)]
<1>1. c \in Nat \ {0} /\ code_blocks \in Seq(PlanType) /\ Len(code_blocks) = c
  BY DEF SegInv, CutInv, TypeOK
<1>2. Decoded = [k \in 1 .. c |-> Bits(code_blocks[k])]
  BY <1>1 DEF Decoded, Blocks
<1>3. Len(Decoded) = c
  BY <1>1, <1>2
<1>4. ASSUME NEW i \in 1 .. c
      PROVE  Padded(i * Kinfo)
             = IF i = 1 THEN Decoded[i] ELSE g[i - 1] \o Decoded[i]
  <2>1. PICK K \in Nat \ {0} : K = Kinfo
    BY PieceBits
  <2>2. PICK a \in Nat : a = (i - 1) * K /\ i * K = a + K
    BY <2>1, PieceBits
  <2>3. Decoded[i] = [y \in 1 .. K |-> Padded(a + K)[a + y]] /\ i \in Nat \ {0} /\ B \in Nat
    BY <1>2, <2>1, <2>2, PieceBits
  <2>4. ASSUME NEW n \in Nat
        PROVE  /\ Padded(n) \in Seq(Nat \cup {"zero"}) /\ Len(Padded(n)) = n
               /\ \A x \in 1 .. n : Padded(n)[x] = IF x <= B THEN x ELSE "zero"
    BY <2>3 DEF Padded
  <2>5. Decoded[i] \in Seq(Nat \cup {"zero"}) /\ Len(Decoded[i]) = K
    <3>1. ASSUME NEW y \in 1 .. K PROVE Padded(a + K)[a + y] \in Nat \cup {"zero"}
      <4>1. a + y \in 1 .. a + K /\ a + K \in Nat
        OBVIOUS
      <4> QED
        BY <2>4, <4>1
    <3> QED
      BY <2>3, <3>1
  <2>6. CASE i = 1
    <3>1. a = 0
      BY <2>1, <2>2, <2>6
    <3>2. Decoded[i] = Padded(K)
      <4>1. Decoded[i] = [y \in 1 .. K |-> Padded(K)[y]]
        BY <2>3, <3>1
      <4>2. Padded(K) = [y \in 1 .. K |-> Padded(K)[y]]
        BY DEF Padded
      <4> QED
        BY <4>1, <4>2
    <3> QED
      BY <2>1, <2>2, <2>6, <3>1, <3>2
  <2>7. CASE i # 1
    <3>1. g[i - 1] = Padded(a)
      <4>1. i - 1 \in 1 .. c
        BY <1>1, <2>7
      <4>2. g[i - 1] = Padded((i - 1) * Kinfo)
        BY <4>1
      <4> QED
        BY <2>1, <2>2, <4>2
    <3>2. Padded(a) \o Decoded[i] =
            [x \in 1 .. a + K |-> IF x <= a THEN Padded(a)[x] ELSE Decoded[i][x - a]]
      <4>1. Padded(a) \in Seq(Nat \cup {"zero"}) /\ Len(Padded(a)) = a
        BY <2>4
      <4>2. \A s, u \in Seq(Nat \cup {"zero"}) :
              s \o u = [x \in 1 .. Len(s) + Len(u) |->
                          IF x <= Len(s) THEN s[x] ELSE u[x - Len(s)]]
        BY ConcatFacts, Zenon
      <4>3. Padded(a) \o Decoded[i] =
              [x \in 1 .. Len(Padded(a)) + Len(Decoded[i]) |->
                 IF x <= Len(Padded(a)) THEN Padded(a)[x] ELSE Decoded[i][x - Len(Padded(a))]]
        BY <2>5, <4>1, <4>2, Zenon
      <4> QED
        BY <2>5, <4>1, <4>3, Zenon
    <3>3. ASSUME NEW x \in 1 .. a + K
          PROVE  (Padded(a) \o Decoded[i])[x] = Padded(a + K)[x]
      <4>1. CASE x <= a
        <5>1. (Padded(a) \o Decoded[i])[x] = Padded(a)[x]
          BY <3>2, <4>1
        <5>2. x \in 1 .. a /\ a + K \in Nat
          BY <4>1
        <5> QED
          BY <2>4, <5>1, <5>2
      <4>2. CASE ~(x <= a)
        <5>1. (Padded(a) \o Decoded[i])[x] = Decoded[i][x - a]
          BY <3>2, <4>2
        <5>2. x - a \in 1 .. K /\ a + (x - a) = x
          BY <4>2
        <5> QED
          BY <2>3, <5>1, <5>2
      <4> QED
        BY <4>1, <4>2
    <3>4. Padded(a) \o Decoded[i] = Padded(a + K)
      <4>1. Padded(a) \o Decoded[i] = [x \in 1 .. a + K |-> (Padded(a) \o Decoded[i])[x]]
        BY <3>2
      <4>2. Padded(a + K) = [x \in 1 .. a + K |-> Padded(a + K)[x]]
        BY DEF Padded
      <4> QED
        BY <3>3, <4>1, <4>2
    <3> QED
      BY <2>1, <2>2, <2>7, <3>1, <3>4
  <2> QED
    BY <2>6, <2>7
<1>5. g[1] = Decoded[1] /\ \A i \in 2 .. c : g[i] = g[i - 1] \o Decoded[i]
  <2>1. 1 \in 1 .. c /\ \A i \in 2 .. c : i \in 1 .. c /\ i # 1
    BY <1>1
  <2> HIDE DEF Padded
  <2>2. \A i \in 1 .. c : g[i] = Padded(i * Kinfo)
    OBVIOUS
  <2> HIDE DEF g
  <2> QED
    BY <1>4, <2>1, <2>2
<1>6. g[c] = Padded(c * Kinfo)
  BY <1>1
<1> HIDE DEF g
<1>7. FlattenSeq(Decoded) = g[c]
  <2>1. PICK n \in Nat \ {0} : n = c
    BY <1>1
  <2>2. Joins(g, Decoded, c)
    BY <1>5 DEF Joins
  <2> QED
    BY <1>3, <2>1, <2>2, FlattenIs
<1> QED
  BY <1>6, <1>7

LEMMA RoundTripOfCut ==
    ASSUME SegInv, Finished, L = 0
    PROVE  concatenate_code_blocks(Decoded, Len(code_blocks) * Kinfo - B) = [i \in 1 .. B |-> i]
<1>1. c \in Nat /\ TypeOK /\ B \in Nat /\ Len(code_blocks) = c /\ code_blocks \in Seq(PlanType)
  BY ConfigFacts DEF SegInv, CutInv, TypeOK
<1>2. Blocks = 1 .. c
  BY <1>1 DEF Blocks
<1>3. CASE c = 0
  <2>1. B = 0
    BY <1>1, <1>3 DEF SegInv, CutInv, Finished
  <2>2. num_code_blocks = 1
    BY <1>1, <2>1, ConfigFacts DEF num_code_blocks, CodeBlocks, K_cb
  <2>3. Kinfo \in Int
    BY <1>1, <2>2, InfoBitsFacts DEF Kinfo
  <2>4. Len(code_blocks) * Kinfo - B = 0
    BY <1>1, <1>3, <2>1, <2>3
  <2>5. Decoded = << >>
    BY <1>2, <1>3 DEF Decoded
  <2>6. FlattenSeq(Decoded) = << >>
    BY <2>5 DEF FlattenSeq
  <2>7. concatenate_code_blocks(Decoded, 0) = SubSeq(<< >>, 1, Len(<< >>) - 0)
    BY <2>6 DEF concatenate_code_blocks
  <2> QED
    BY <2>1, <2>4, <2>7
<1>4. CASE c # 0
  <2>1. PICK n \in Nat : n = c * Kinfo /\ B <= n
    <3>1. num_code_blocks = c
      <4>1. offset = B /\ B > 0 /\ K_cb > 0 /\ c <= num_code_blocks
        BY <1>1, <1>4 DEF SegInv, CutInv, Finished
      <4>2. c < num_code_blocks => offset = c * Kinfo
        BY <1>4 DEF SegInv, CutInv
      <4>3. /\ num_code_blocks \in Nat \ {0} /\ Kinfo \in Nat \ {0}
            /\ (num_code_blocks - 1) * Kinfo < B
        BY <1>1, <4>1, Geometry
      <4>4. c < num_code_blocks => c * Kinfo <= (num_code_blocks - 1) * Kinfo
        BY <1>1, <4>3
      <4>5. c * Kinfo \in Nat /\ (num_code_blocks - 1) * Kinfo \in Nat
        BY <1>1, <4>3
      <4> QED
        BY <1>1, <4>1, <4>2, <4>3, <4>4, <4>5
    <3>2. B > 0 /\ K_cb > 0
      BY <1>4 DEF SegInv, CutInv
    <3>3. Kinfo \in Nat /\ B <= c * Kinfo
      BY <1>1, <3>1, <3>2, Geometry
    <3> QED
      BY <1>1, <3>3
  <2>2. FlattenSeq(Decoded) = Padded(n)
    BY <1>4, <2>1, Pieces
  <2>3. Len(Padded(n)) = n /\ Padded(n) \in Seq(Nat \cup {"zero"})
    BY <1>1 DEF Padded
  <2>4. n - (n - B) = B
    BY <1>1, <2>1
  <2>5. concatenate_code_blocks(Decoded, n - B) = SubSeq(Padded(n), 1, B)
    BY <2>2, <2>3, <2>4 DEF concatenate_code_blocks
  <2>6. SubSeq(Padded(n), 1, B) = [i \in 1 .. B |-> Padded(n)[i]]
    BY <1>1, <2>1, <2>3
  <2>7. \A i \in 1 .. B : Padded(n)[i] = i
    BY <1>1, <2>1 DEF Padded
  <2> QED
    BY <1>1, <2>1, <2>5, <2>6, <2>7
<1> QED
  BY <1>3, <1>4

\* Without block CRCs, concatenating the code blocks and dropping the padding, which
\* the caller must know, gives the transport block back (segmentation.cpp:14-46, 84-92).
THEOREM RoundTripTheorem == Spec => []RoundTrip
<1>1. SegInv => RoundTrip
  BY RoundTripOfCut DEF RoundTrip
<1> QED
  BY <1>1, SegInvariant, PTL

-----------------------------------------------------------------------------
(* The CRC.                                                                *)

LEMMA XorFacts ==
    ASSUME NEW a \in Bit, NEW b \in Bit
    PROVE  Xor(a, b) \in Bit /\ Xor(a, b) = (IF a = b THEN 0 ELSE 1)
  BY DEF Xor, Bit

LEMMA XorPairs ==
    ASSUME NEW a \in Bit, NEW u \in Bit, NEW b \in Bit, NEW w \in Bit
    PROVE  Xor(Xor(a, u), Xor(b, w)) = Xor(Xor(a, b), Xor(u, w))
  BY DEF Xor, Bit

LEMMA SpecFacts ==
    ASSUME CrcTypeOK
    PROVE  /\ spec.len \in Nat \ {0} /\ spec.poly \in [Width(spec) -> Bit] /\ spec.poly[0] = 1
           /\ 0 \in Width(spec) /\ spec.len - 1 \in Width(spec)
           /\ \A j \in Width(spec) : j # 0 => j - 1 \in Width(spec)
<1>1. spec.len \in Nat \ {0} /\ spec.poly \in [Width(spec) -> Bit] /\ spec.poly[0] = 1
  BY CrcAssumption DEF CrcTypeOK, Width
<1> QED
  BY <1>1 DEF Width

\* A round of the loop, bit by bit.
LEMMA StepFacts ==
    ASSUME CrcTypeOK, NEW r \in [Width(spec) -> Bit], NEW b \in Bit
    PROVE  /\ Step(spec, r, b) \in [Width(spec) -> Bit]
           /\ \A j \in Width(spec) : Step(spec, r, b)[j] =
                Xor(IF j = 0 THEN 0 ELSE r[j - 1],
                    IF r[spec.len - 1] = b THEN 0 ELSE spec.poly[j])
<1> DEFINE fb == Xor(r[spec.len - 1], b)
<1>1. r[spec.len - 1] \in Bit
  BY SpecFacts
<1>2. fb \in Bit /\ fb = (IF r[spec.len - 1] = b THEN 0 ELSE 1)
  BY <1>1, XorFacts
<1>3. Step(spec, r, b) =
        [j \in Width(spec) |-> Xor(IF j = 0 THEN 0 ELSE r[j - 1], fb * spec.poly[j])]
  BY DEF Step
<1> HIDE DEF fb
<1>4. ASSUME NEW j \in Width(spec)
      PROVE  /\ (IF j = 0 THEN 0 ELSE r[j - 1]) \in Bit
             /\ fb * spec.poly[j] = (IF r[spec.len - 1] = b THEN 0 ELSE spec.poly[j])
             /\ fb * spec.poly[j] \in Bit
  <2>1. spec.poly[j] \in Bit /\ (j # 0 => r[j - 1] \in Bit)
    BY SpecFacts
  <2> QED
    BY <1>2, <2>1 DEF Bit
<1> QED
  BY <1>3, <1>4, XorFacts

LEMMA CrcInitTyped == CrcInit => CrcTypeOK
<1> SUFFICES ASSUME CrcInit PROVE CrcTypeOK
  OBVIOUS
<1>1. spec.len \in Nat /\ Zero(spec) \in [Width(spec) -> Bit]
  BY CrcAssumption DEF CrcInit, Zero, Bit
<1> QED
  BY <1>1 DEF CrcInit, CrcTypeOK

LEMMA CrcStepTyped ==
    ASSUME CrcTypeOK, [CrcNext]_crcVars
    PROVE  CrcTypeOK'
<1>1. ASSUME NEW b \in Bit, NEW e \in Bit, Payload(b, e) PROVE CrcTypeOK'
  <2>1. Xor(b, e) \in Bit
    BY XorFacts
  <2>2. crc' \in [Width(spec) -> Bit] /\ crc_rx' \in [Width(spec) -> Bit]
    BY <1>1, <2>1, StepFacts DEF Payload, CrcTypeOK
  <2>3. /\ pushed' = pushed /\ fed' = fed + 1 /\ spec' = spec /\ phase' = phase
        /\ fed \in Nat /\ pushed \in 0 .. spec.len /\ spec.len \in Nat
    BY <1>1, SpecFacts DEF Payload, CrcTypeOK
  <2>4. flips' \subseteq 0 .. fed' + pushed' - 1
    <3>1. flips' \subseteq flips \cup {fed} /\ flips \subseteq 0 .. fed + pushed - 1
      BY <1>1 DEF Payload, Flipped, CrcTypeOK
    <3>2. fed' + pushed' - 1 = fed + pushed
      BY <2>3
    <3> QED
      BY <2>3, <3>1, <3>2
  <2> QED
    BY <2>2, <2>3, <2>4 DEF CrcTypeOK
<1>2. ASSUME NEW e \in Bit, PushBack(e) PROVE CrcTypeOK'
  <2>1. /\ spec' = spec /\ phase' = phase /\ fed' = fed /\ crc' = crc /\ pushed' = pushed + 1
        /\ pushed < spec.len /\ pushed \in Nat /\ fed \in Nat /\ spec.len \in Nat
    BY <1>2, SpecFacts DEF PushBack, CrcTypeOK
  <2>2. spec.len - 1 - pushed \in Width(spec)
    BY <2>1 DEF Width
  <2>3. Xor(Sent, e) \in Bit
    BY <2>2, XorFacts DEF Sent, CrcTypeOK
  <2>4. crc_rx' \in [Width(spec) -> Bit]
    BY <1>2, <2>3, StepFacts DEF PushBack, CrcTypeOK
  <2>5. flips' \subseteq 0 .. fed' + pushed' - 1
    <3>1. flips' \subseteq flips \cup {fed + pushed}
      BY <1>2 DEF PushBack, Flipped
    <3> QED
      BY <2>1, <3>1 DEF CrcTypeOK
  <2> QED
    BY <2>1, <2>4, <2>5 DEF CrcTypeOK
<1>3. CASE Rem
  BY <1>3 DEF Rem, CrcTypeOK
<1>4. CASE Finish
  BY <1>4 DEF Finish, CrcTypeOK
<1>5. CASE UNCHANGED crcVars
  BY <1>5 DEF crcVars, CrcTypeOK
<1> QED
  BY <1>1, <1>2, <1>3, <1>4, <1>5 DEF CrcNext

THEOREM CrcTyped == CrcSpec => []CrcTypeOK
  BY CrcInitTyped, CrcStepTyped, PTL DEF CrcSpec

-----------------------------------------------------------------------------

(***************************************************************************)
(* What the flipped bits make of the register. Without them, crc_check has  *)
(* the register of crc_attach, shifted left once for every appended bit,    *)
(* because each appended bit is the one that falls out.                     *)
(***************************************************************************)

Clean == [j \in Width(spec) |-> IF j < pushed THEN 0 ELSE crc[j - pushed]]
Delta == [j \in Width(spec) |-> Xor(crc_rx[j], Clean[j])]

\* Delta takes the same step as a register whose input is the flipped bit alone.
Shifts(e) ==
    \A j \in Width(spec) : Delta'[j] =
        Xor(IF j = 0 THEN 0 ELSE Delta[j - 1],
            IF Delta[spec.len - 1] = e THEN 0 ELSE spec.poly[j])

LEMMA DiffTyped ==
    ASSUME CrcTypeOK, NEW j \in Width(spec)
    PROVE  Clean[j] \in Bit /\ crc_rx[j] \in Bit /\ Delta[j] \in Bit
<1>1. crc_rx[j] \in Bit
  BY DEF CrcTypeOK
<1>2. Clean[j] \in Bit
  <2>1. j >= pushed => j - pushed \in Width(spec)
    BY SpecFacts DEF CrcTypeOK, Width
  <2>2. j \in Int /\ pushed \in Int
    BY SpecFacts DEF CrcTypeOK, Width
  <2>3. 0 \in Bit
    BY DEF Bit
  <2> QED
    BY <2>1, <2>2, <2>3 DEF CrcTypeOK, Clean
<1> QED
  BY <1>1, <1>2, XorFacts DEF Delta

\* Adding a bit c before or after a round makes no difference.
LEMMA XorLinear ==
    ASSUME NEW x \in Bit, NEW v \in Bit, NEW y \in Bit, NEW s \in Bit, NEW e \in Bit, NEW p \in Bit
    PROVE  Xor(Xor(x, IF y = Xor(s, e) THEN 0 ELSE p), v) =
           Xor(Xor(x, v), IF Xor(y, s) = e THEN 0 ELSE p)
  BY DEF Xor, Bit

LEMMA PayloadShifts ==
    ASSUME CrcTypeOK, pushed = 0, NEW b \in Bit, NEW e \in Bit, Payload(b, e)
    PROVE  Shifts(e)
<1> DEFINE top == spec.len - 1
<1>1. /\ crc' = Step(spec, crc, b) /\ crc_rx' = Step(spec, crc_rx, Xor(b, e))
      /\ pushed' = 0 /\ spec' = spec
  BY DEF Payload
<1>2. Xor(b, e) \in Bit /\ Xor(b, e) = (IF b = e THEN 0 ELSE 1)
  BY XorFacts
<1>3. ASSUME NEW j \in Width(spec)
      PROVE  Delta[j] = Xor(crc_rx[j], crc[j]) /\ crc[j] \in Bit /\ crc_rx[j] \in Bit
  <2>1. j \in Nat /\ j - pushed = j /\ ~(j < pushed)
    BY SpecFacts DEF Width
  <2>2. Clean[j] = crc[j]
    BY <2>1 DEF Clean
  <2> QED
    BY <2>2 DEF Delta, CrcTypeOK
<1>4. ASSUME NEW j \in Width(spec)
      PROVE  Delta'[j] = Xor(IF j = 0 THEN 0 ELSE Delta[j - 1],
                            IF Delta[top] = e THEN 0 ELSE spec.poly[j])
  <2>1. Delta'[j] = Xor(Step(spec, crc_rx, Xor(b, e))[j], Step(spec, crc, b)[j])
    BY <1>1 DEF Delta, Clean, Width
  <2>2. /\ Step(spec, crc, b)[j] = Xor(IF j = 0 THEN 0 ELSE crc[j - 1],
                                       IF crc[top] = b THEN 0 ELSE spec.poly[j])
        /\ Step(spec, crc_rx, Xor(b, e))[j] = Xor(IF j = 0 THEN 0 ELSE crc_rx[j - 1],
                                       IF crc_rx[top] = Xor(b, e) THEN 0 ELSE spec.poly[j])
    BY <1>2, StepFacts DEF CrcTypeOK
  <2>3. /\ crc[top] \in Bit /\ crc_rx[top] \in Bit /\ Delta[top] = Xor(crc_rx[top], crc[top])
        /\ spec.poly[j] \in Bit
        /\ j # 0 => /\ crc[j - 1] \in Bit /\ crc_rx[j - 1] \in Bit
                    /\ Delta[j - 1] = Xor(crc_rx[j - 1], crc[j - 1])
    BY <1>3, SpecFacts
  <2> DEFINE a == IF j = 0 THEN 0 ELSE crc_rx[j - 1]
             v == IF j = 0 THEN 0 ELSE crc[j - 1]
             u == IF crc_rx[top] = Xor(b, e) THEN 0 ELSE spec.poly[j]
             w == IF crc[top] = b THEN 0 ELSE spec.poly[j]
  <2>4. a \in Bit /\ v \in Bit /\ u \in Bit /\ w \in Bit
    BY <2>3 DEF Bit
  <2>5. Xor(a, v) = IF j = 0 THEN 0 ELSE Delta[j - 1]
    BY <2>3 DEF Xor
  <2> HIDE DEF top
  <2>6. Xor(u, w) = IF Delta[top] = e THEN 0 ELSE spec.poly[j]
    BY <1>2, <2>3 DEF Xor, Bit
  <2>7. Delta'[j] = Xor(Xor(a, u), Xor(v, w))
    BY <2>1, <2>2
  <2> HIDE DEF a, v, u, w
  <2> QED
    BY <2>4, <2>5, <2>6, <2>7, XorPairs
<1> QED
  BY <1>4 DEF Shifts

LEMMA PushBackShifts ==
    ASSUME CrcTypeOK, NEW e \in Bit, PushBack(e)
    PROVE  Shifts(e)
<1> DEFINE top == spec.len - 1
<1>1. crc_rx' = Step(spec, crc_rx, Xor(Sent, e)) /\ crc' = crc /\ pushed' = pushed + 1 /\ spec' = spec
  BY DEF PushBack
<1>2. pushed \in Nat /\ pushed < spec.len /\ spec.len \in Nat /\ top - pushed \in Width(spec)
  BY SpecFacts DEF PushBack, CrcTypeOK, Width
<1>3. Sent \in Bit /\ Clean[top] = Sent
  <2>1. top \in Width(spec) /\ ~(top < pushed)
    BY <1>2, SpecFacts
  <2> QED
    BY <1>2, <2>1 DEF Sent, Clean, CrcTypeOK
<1>4. Xor(Sent, e) \in Bit
  BY <1>3, XorFacts
<1>5. ASSUME NEW j \in Width(spec)
      PROVE  Delta'[j] = Xor(IF j = 0 THEN 0 ELSE Delta[j - 1],
                            IF Delta[top] = e THEN 0 ELSE spec.poly[j])
  <2>1. Clean'[j] = IF j = 0 THEN 0 ELSE Clean[j - 1]
    BY <1>1, <1>2 DEF Clean, Width
  <2>2. crc_rx'[j] = Xor(IF j = 0 THEN 0 ELSE crc_rx[j - 1],
                         IF crc_rx[top] = Xor(Sent, e) THEN 0 ELSE spec.poly[j])
    BY <1>1, <1>4, StepFacts DEF CrcTypeOK
  <2>3. /\ crc_rx[top] \in Bit /\ spec.poly[j] \in Bit
        /\ Delta[top] = Xor(crc_rx[top], Sent)
        /\ j # 0 => /\ Clean[j - 1] \in Bit /\ crc_rx[j - 1] \in Bit
                    /\ Delta[j - 1] = Xor(crc_rx[j - 1], Clean[j - 1])
    BY <1>3, SpecFacts, DiffTyped DEF Delta
  <2>4. Delta'[j] = Xor(crc_rx'[j], IF j = 0 THEN 0 ELSE Clean[j - 1])
    BY <1>1, <2>1 DEF Delta
  <2> DEFINE x == IF j = 0 THEN 0 ELSE crc_rx[j - 1]
             v == IF j = 0 THEN 0 ELSE Clean[j - 1]
             y == crc_rx[top]
             p == spec.poly[j]
  <2>5. x \in Bit /\ v \in Bit /\ y \in Bit /\ p \in Bit /\ Sent \in Bit
    BY <1>3, <2>3 DEF Bit
  <2>6. Xor(x, v) = IF j = 0 THEN 0 ELSE Delta[j - 1]
    BY <2>3 DEF Xor
  <2>7. /\ Delta'[j] = Xor(Xor(x, IF y = Xor(Sent, e) THEN 0 ELSE p), v)
        /\ Delta[top] = Xor(y, Sent)
    BY <2>2, <2>3, <2>4
  <2> HIDE DEF x, v, y, p
  <2>8. Xor(Xor(x, IF y = Xor(Sent, e) THEN 0 ELSE p), v)
        = Xor(Xor(x, v), IF Xor(y, Sent) = e THEN 0 ELSE p)
    BY <2>5, XorLinear
  <2>9. Delta'[j] = Xor(IF j = 0 THEN 0 ELSE Delta[j - 1], IF Delta[top] = e THEN 0 ELSE p)
    BY <2>6, <2>7, <2>8
  <2> QED
    BY <2>9 DEF p
<1> QED
  BY <1>5 DEF Shifts

-----------------------------------------------------------------------------

\* The flipped bits from q on lie within the length of the CRC.
BurstFrom(q) == q \in flips /\ \A p \in flips : q <= p /\ p - q < spec.len

\* Somewhere in the register, and early after the first flip in its low end, a
\* burst leaves a difference.
Marked(q) ==
    /\ \E j \in Width(spec) : Delta[j] = 1
    /\ fed + pushed - 1 - q < spec.len => \E j \in 0 .. fed + pushed - 1 - q : Delta[j] = 1

CrcInv ==
    /\ CrcTypeOK
    /\ phase = "payload" => pushed = 0
    /\ phase = "done" => pushed = spec.len
    /\ flips = {} => \A j \in Width(spec) : Delta[j] = 0
    /\ flips # {} => \E q \in flips : \A p \in flips : q <= p
    /\ \A q \in flips : BurstFrom(q) => Marked(q)

LEMMA CrcInvInit == CrcInit => CrcInv
<1> SUFFICES ASSUME CrcInit PROVE CrcInv
  OBVIOUS
<1>1. CrcTypeOK /\ pushed = 0 /\ flips = {} /\ phase = "payload"
  BY CrcInitTyped DEF CrcInit
<1>2. \A j \in Width(spec) : crc_rx[j] = 0 /\ Clean[j] = 0
  BY <1>1 DEF CrcInit, Zero, Clean, Width
<1> QED
  BY <1>1, <1>2 DEF CrcInv, Delta, Xor

\* A step that shifts the difference keeps a burst visible and nothing else.
LEMMA ShiftKeeps ==
    ASSUME CrcInv, CrcTypeOK', spec' = spec, NEW e \in Bit, Shifts(e),
           NEW t \in Nat, t = fed + pushed, fed' + pushed' = t + 1,
           flips' = IF e = 1 THEN flips \cup {t} ELSE flips
    PROVE  /\ flips' = {} => \A j \in Width(spec) : Delta'[j] = 0
           /\ flips' # {} => \E q \in flips' : \A p \in flips' : q <= p
           /\ \A q \in flips' : BurstFrom(q)' => Marked(q)'
<1> DEFINE top == spec.len - 1
           fb == IF Delta[top] = e THEN 0 ELSE 1
<1>s. /\ spec.len \in Nat \ {0} /\ spec.poly \in [Width(spec) -> Bit] /\ spec.poly[0] = 1
      /\ Width(spec) = 0 .. top /\ top \in Nat
  BY SpecFacts DEF CrcInv, Width
<1>d. \A j \in Width(spec) : Delta[j] \in Bit
  BY DiffTyped DEF CrcInv
<1>1. Delta'[0] = fb
  BY <1>s, <1>d, XorFacts DEF Shifts, Bit
<1>2. fb = 0 => \A j \in Width(spec) : Delta'[j] = IF j = 0 THEN 0 ELSE Delta[j - 1]
  <2> SUFFICES ASSUME fb = 0, NEW j \in Width(spec)
               PROVE  Delta'[j] = IF j = 0 THEN 0 ELSE Delta[j - 1]
    OBVIOUS
  <2>1. Delta'[j] = Xor(IF j = 0 THEN 0 ELSE Delta[j - 1], 0)
    BY DEF Shifts
  <2>2. (IF j = 0 THEN 0 ELSE Delta[j - 1]) \in Bit
    BY <1>s, <1>d DEF Bit
  <2> QED
    BY <2>1, <2>2 DEF Xor, Bit
<1>3. flips' = {} => \A j \in Width(spec) : Delta'[j] = 0
  <2> SUFFICES ASSUME flips' = {} PROVE \A j \in Width(spec) : Delta'[j] = 0
    OBVIOUS
  <2>1. e = 0 /\ flips = {}
    BY DEF Bit
  <2>2. \A j \in Width(spec) : Delta[j] = 0
    BY <2>1 DEF CrcInv
  <2> QED
    BY <1>s, <1>2, <2>1, <2>2
<1>4. ASSUME NEW q \in flips', BurstFrom(q)'
      PROVE  /\ \E j \in Width(spec) : Delta'[j] = 1
             /\ t - q < spec.len => \E j \in 0 .. t - q : Delta'[j] = 1
  <2>f. flips \subseteq 0 .. t - 1
    BY DEF CrcInv, CrcTypeOK
  <2>1. CASE q \notin flips
    <3>1. q = t /\ e = 1
      BY <1>4, <2>1
    <3>2. flips = {}
      BY <1>4, <2>f, <3>1 DEF BurstFrom
    <3>3. Delta[top] = 0
      BY <1>s, <3>2 DEF CrcInv
    <3>4. Delta'[0] = 1
      BY <1>1, <3>1, <3>3
    <3> QED
      BY <1>s, <3>1, <3>4
  <2>2. CASE q \in flips
    <3>1. BurstFrom(q)
      BY <1>4, <2>2 DEF BurstFrom
    <3>2. /\ q \in 0 .. t - 1
          /\ \E j \in Width(spec) : Delta[j] = 1
          /\ t - 1 - q < spec.len => \E j \in 0 .. t - 1 - q : Delta[j] = 1
      <4>1. Marked(q)
        BY <2>2, <3>1 DEF CrcInv
      <4>0. fed \in Nat /\ pushed \in Int
        BY SpecFacts DEF CrcInv, CrcTypeOK
      <4>2. q \in 0 .. t - 1 /\ fed + pushed - 1 - q = t - 1 - q
        BY <2>2, <2>f, <4>0
      <4> QED
        BY <4>1, <4>2 DEF Marked
    <3>3. CASE fb = 1
      BY <1>s, <1>1, <3>2, <3>3
    <3>4. CASE fb = 0
      <4>0. Delta[top] = e
        BY <3>4
      <4>1. CASE t - q < spec.len
        <5>1. PICK j \in 0 .. t - 1 - q : Delta[j] = 1
          BY <1>s, <3>2, <4>1
        <5>2. j + 1 \in 0 .. t - q /\ j + 1 \in Width(spec) /\ j + 1 # 0 /\ j + 1 - 1 = j
          <6>1. t \in Int /\ q \in Int /\ spec.len \in Int /\ Width(spec) = 0 .. spec.len - 1
            BY <1>s, <3>2, SpecFacts DEF Width
          <6> QED
            BY <4>1, <5>1, <6>1
        <5>3. Delta'[j + 1] = 1
          BY <1>2, <3>4, <5>1, <5>2
        <5> QED
          BY <1>s, <3>2, <5>2, <5>3
      <4>2. CASE t - q >= spec.len
        <5>1. e = 0
          BY <1>s, <1>4, <3>2, <4>2 DEF BurstFrom, Bit
        <5>2. PICK j \in Width(spec) : Delta[j] = 1
          BY <3>2
        <5>3. j # top
          BY <4>0, <5>1, <5>2
        <5>4. j \in 0 .. top /\ top \in Nat /\ Width(spec) = 0 .. top
          BY <1>s, <5>2
        <5>5. PICK i \in Width(spec) : i # 0 /\ i - 1 = j
          <6> HIDE DEF top
          <6>1. j + 1 \in 0 .. top /\ j + 1 # 0 /\ (j + 1) - 1 = j
            BY <5>3, <5>4
          <6> QED
            BY <5>4, <6>1
        <5>6. Delta'[i] = 1
          <6>1. \A m \in Width(spec) : Delta'[m] = IF m = 0 THEN 0 ELSE Delta[m - 1]
            BY <1>2, <3>4
          <6>2. Delta'[i] = Delta[i - 1]
            BY <5>5, <6>1
          <6> QED
            BY <5>2, <5>5, <6>2
        <5>7. ~(t - q < spec.len)
          <6>1. t - q \in Int
            BY <3>2
          <6> QED
            BY <1>s, <4>2, <6>1
        <5> QED
          BY <5>6, <5>7
      <4> QED
        BY <1>s, <3>2, <4>1, <4>2
    <3> QED
      BY <3>3, <3>4
  <2> QED
    BY <2>1, <2>2
<1>6. ASSUME NEW q \in flips', BurstFrom(q)' PROVE Marked(q)'
  <2>0. flips \subseteq 0 .. t - 1
    BY DEF CrcInv, CrcTypeOK
  <2>1. q \in 0 .. t /\ fed' \in Nat /\ pushed' \in Int
    BY <2>0, SpecFacts DEF CrcTypeOK
  <2>2. fed' + pushed' - 1 - q = t - q
    BY <2>1
  <2> QED
    BY <1>4, <1>6, <2>2 DEF Marked
<1>5. ASSUME flips' # {} PROVE \E q \in flips' : \A p \in flips' : q <= p
  <2>1. flips \subseteq 0 .. t - 1
    BY DEF CrcInv, CrcTypeOK
  <2>2. CASE flips = {}
    <3>1. flips' = {t}
      BY <1>5, <2>2
    <3> QED
      BY <3>1
  <2>3. CASE flips # {}
    <3>1. PICK q \in flips : \A p \in flips : q <= p
      BY <2>3 DEF CrcInv
    <3>2. q \in flips' /\ \A p \in flips' : q <= p
      BY <2>1, <3>1
    <3> QED
      BY <3>2
  <2> QED
    BY <2>2, <2>3
<1> QED
  BY <1>3, <1>5, <1>6

LEMMA CrcStep ==
    ASSUME CrcInv, [CrcNext]_crcVars
    PROVE  CrcInv'
<1>t. CrcTypeOK /\ CrcTypeOK' /\ fed \in Nat /\ pushed \in Nat
  BY CrcStepTyped, SpecFacts DEF CrcInv, CrcTypeOK
<1>1. ASSUME NEW b \in Bit, NEW e \in Bit, Payload(b, e) PROVE CrcInv'
  <2>1. /\ pushed = 0 /\ pushed' = 0 /\ phase' = "payload" /\ spec' = spec /\ fed' = fed + 1
        /\ flips' = IF e = 1 THEN flips \cup {fed} ELSE flips
    BY <1>1 DEF Payload, Flipped, CrcInv
  <2>2. Shifts(e)
    BY <1>1, <1>t, <2>1, PayloadShifts
  <2>3. fed \in Nat /\ fed = fed + pushed /\ fed' + pushed' = fed + 1
    BY <1>t, <2>1
  <2>4. PICK t \in Nat : t = fed
    BY <1>t
  <2>5. /\ flips' = {} => \A j \in Width(spec) : Delta'[j] = 0
        /\ flips' # {} => \E q \in flips' : \A p \in flips' : q <= p
        /\ \A q \in flips' : BurstFrom(q)' => Marked(q)'
    BY <1>t, <2>1, <2>2, <2>3, <2>4, ShiftKeeps
  <2> QED
    BY <1>t, <2>1, <2>5 DEF CrcInv
<1>2. ASSUME NEW e \in Bit, PushBack(e) PROVE CrcInv'
  <2>1. /\ pushed' = pushed + 1 /\ phase' = "append" /\ spec' = spec /\ fed' = fed
        /\ flips' = IF e = 1 THEN flips \cup {fed + pushed} ELSE flips
    BY <1>2 DEF PushBack, Flipped
  <2>2. Shifts(e)
    BY <1>2, <1>t, PushBackShifts
  <2>3. PICK t \in Nat : t = fed + pushed
    BY <1>t
  <2>4. fed' + pushed' = t + 1
    BY <1>t, <2>1, <2>3
  <2>5. /\ flips' = {} => \A j \in Width(spec) : Delta'[j] = 0
        /\ flips' # {} => \E q \in flips' : \A p \in flips' : q <= p
        /\ \A q \in flips' : BurstFrom(q)' => Marked(q)'
    BY <1>t, <2>1, <2>2, <2>3, <2>4, ShiftKeeps
  <2> QED
    BY <1>t, <2>1, <2>5 DEF CrcInv
<1>3. CASE UNCHANGED <<spec, fed, pushed, crc, crc_rx, flips>> /\ (Rem \/ Finish \/ UNCHANGED phase)
  <2>1. Delta' = Delta
    BY <1>3 DEF Delta, Clean
  <2>2. /\ phase' = "payload" => pushed' = 0
        /\ phase' = "done" => pushed' = spec'.len
    BY <1>3 DEF Rem, Finish, CrcInv
  <2> QED
    BY <1>3, <1>t, <2>1, <2>2 DEF CrcInv, BurstFrom, Marked
<1> QED
  BY <1>1, <1>2, <1>3 DEF CrcNext, crcVars, Rem, Finish

LEMMA CrcInvariant == CrcSpec => []CrcInv
  BY CrcInvInit, CrcStep, PTL DEF CrcSpec

\* At the end crc_check holds nothing but the difference.
LEMMA DoneDiff ==
    ASSUME CrcInv, phase = "done"
    PROVE  /\ \A j \in Width(spec) : Delta[j] = crc_rx[j]
           /\ Passed <=> \A j \in Width(spec) : crc_rx[j] = 0
<1>1. pushed = spec.len /\ CrcTypeOK /\ spec.len \in Nat
  BY SpecFacts DEF CrcInv
<1>2. ASSUME NEW j \in Width(spec) PROVE Delta[j] = crc_rx[j]
  <2>0. j < pushed
    BY <1>1 DEF Width
  <2>1. Clean[j] = 0 /\ crc_rx[j] \in Bit
    BY <1>1, <2>0, DiffTyped DEF Clean
  <2> QED
    BY <2>1 DEF Delta, Xor, Bit
<1>3. Passed <=> \A j \in Width(spec) : crc_rx[j] = 0
  BY <1>1 DEF Passed, Zero, CrcTypeOK
<1> QED
  BY <1>2, <1>3

\* crc_check accepts what crc_attach made (crc.cpp:42-57).
THEOREM CleanTheorem == CrcSpec => []CleanPasses
<1>1. CrcInv => CleanPasses
  BY DoneDiff DEF CrcInv, CleanPasses
<1> QED
  BY <1>1, CrcInvariant, PTL

\* crc_check rejects every burst no longer than the CRC (crc.cpp:23-36, 53-57).
THEOREM BurstTheorem == CrcSpec => []BurstCaught
<1>1. CrcInv => BurstCaught
  <2> SUFFICES ASSUME CrcInv, phase = "done", flips # {},
                      \A p, q \in flips : p - q < spec.len
               PROVE  ~Passed
    BY DEF BurstCaught
  <2>2. PICK q \in flips : \A p \in flips : q <= p
    BY DEF CrcInv
  <2>3. \E j \in Width(spec) : Delta[j] = 1
    BY <2>2 DEF CrcInv, BurstFrom, Marked
  <2> QED
    BY <2>3, DoneDiff
<1> QED
  BY <1>1, CrcInvariant, PTL

=============================================================================
