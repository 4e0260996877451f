----------------------------- MODULE Segmentation -----------------------------
(***************************************************************************)
(* segment_transport_block of src/segmentation.cpp, with the choice of base *)
(* graph and lifting size of Lifting, and                                   *)
(* concatenate_code_blocks, its inverse as far as there is one.             *)
(*                                                                         *)
(* The transport block is the sequence of its bit numbers, so a code block  *)
(* is described by where it starts, how many bits it takes and how long it  *)
(* becomes. Code rates are in percent. The call runs once: it returns or it *)
(* throws.                                                                 *)
(***************************************************************************)
EXTENDS Lifting, Sequences, SequencesExt

CONSTANTS
    Sizes,   \* sizes of the transport block
    Bounds,  \* values of max_cb_info_bits
    Rates,   \* values of target_rate, in percent
    MaxParts \* bound: a transport block is at most so many times K_cb long

ASSUME SegmentationAssumption ==
    Sizes \subseteq Nat /\ Bounds \subseteq Nat /\ Rates \subseteq Nat /\ MaxParts \in Nat

Config == [max_cb_info_bits : Bounds, attach_crc24b_when_segmented : BOOLEAN,
           auto_select_bg : BOOLEAN, bg : BaseGraph, target_rate : Rates]

VARIABLES
    B,                 \* tb.size()
    cfg,
    pc,                \* "start", "loop", "returned" or "threw"
    c,                 \* code blocks so far
    offset,
    code_blocks,
    total_filler_bits

vars == <<B, cfg, pc, c, offset, code_blocks, total_filler_bits>>

K_cb == cfg.max_cb_info_bits

-----------------------------------------------------------------------------

CeilDiv(a, b) == (a + b - 1) \div b

\* The CRC of each of n code blocks.
CrcBits(cf, n) == IF n > 1 /\ cf.attach_crc24b_when_segmented THEN 24 ELSE 0

\* Mutant: the bits of the block CRCs are not taken off again.
InfoBits_WithCrc(b, cf, n) == CeilDiv(b + n * CrcBits(cf, n), n)

\* K' - L: the bits of the transport block in each of n code blocks.
InfoBits(b, cf, n) == CeilDiv(b + n * CrcBits(cf, n), n) - CrcBits(cf, n)

\* C, refined until the blocks keep within K_cb.
CodeBlocks(b, cf) ==
    LET most == cf.max_cb_info_bits
        first == CeilDiv(b, most)
        fits(n) == InfoBits(b, cf, n) <= most
    IN  IF b <= most THEN 1
        ELSE IF fits(first) THEN first
        ELSE CHOOSE n \in first .. 9999 : fits(n) /\ \A m \in first .. n - 1 : ~fits(m)

num_code_blocks == CodeBlocks(B, cfg)
L == CrcBits(cfg, num_code_blocks)
Kinfo == InfoBits(B, cfg, num_code_blocks)

\* Mutant: the padding is left out, the last block stays short.
BlockSize_Unpadded == (IF Kinfo < B - offset THEN Kinfo ELSE B - offset) + L

\* bits_with_crc.size(): the payload is padded to Kinfo bits first.
BlockSize == Kinfo + L

Graph == IF cfg.auto_select_bg THEN select_basegraph(BlockSize, cfg.target_rate) ELSE cfg.bg

\* The requirements of select_basegraph and of select_lifting.
Plannable ==
    /\ cfg.auto_select_bg => BlockSize >= 12
    /\ Candidates(BlockSize, Graph) # {}

-----------------------------------------------------------------------------

Init ==
    /\ B \in Sizes
    /\ cfg \in Config
    /\ B <= MaxParts * K_cb
    /\ pc = "start"
    /\ c = 0
    /\ offset = 0
    /\ code_blocks = <<>>
    /\ total_filler_bits = 0

Begin ==
    /\ pc = "start"
    /\ pc' = IF B = 0 THEN "returned" ELSE IF K_cb < 40 THEN "threw" ELSE "loop"
    /\ UNCHANGED <<B, cfg, c, offset, code_blocks, total_filler_bits>>

Take == IF Kinfo < B - offset THEN Kinfo ELSE B - offset

Plan ==
    LET zc == select_lifting(BlockSize, Graph)
    IN  [start |-> offset, take |-> Take, size |-> BlockSize, bg |-> Graph, zc |-> zc,
         i_ls |-> i_ls_for_zc(zc), k_ldpc |-> Kb(Graph) * zc,
         filler_bits |-> Kb(Graph) * zc - BlockSize]

PlanBlock ==
    /\ pc = "loop" /\ c < num_code_blocks /\ Plannable
    /\ code_blocks' = Append(code_blocks, Plan)
    /\ total_filler_bits' = total_filler_bits + Plan.filler_bits
    /\ offset' = offset + Take
    /\ c' = c + 1
    /\ UNCHANGED <<B, cfg, pc>>

Throw ==
    /\ pc = "loop" /\ c < num_code_blocks /\ ~Plannable
    /\ pc' = "threw"
    /\ UNCHANGED <<B, cfg, c, offset, code_blocks, total_filler_bits>>

Return ==
    /\ pc = "loop" /\ c = num_code_blocks
    /\ pc' = "returned"
    /\ UNCHANGED <<B, cfg, c, offset, code_blocks, total_filler_bits>>

Next == Begin \/ PlanBlock \/ Throw \/ Return

Spec == Init /\ [][Next]_vars

-----------------------------------------------------------------------------

PlanType == [start : Nat, take : Nat, size : Nat, bg : BaseGraph, zc : LiftingSizes,
             i_ls : 0 .. 7, k_ldpc : Nat, filler_bits : Nat]

TypeOK ==
    /\ B \in Sizes /\ cfg \in Config
    /\ pc \in {"start", "loop", "returned", "threw"}
    /\ c \in Nat /\ offset \in 0 .. B
    /\ code_blocks \in Seq(PlanType)
    /\ total_filler_bits \in Nat

Blocks == DOMAIN code_blocks
Start(k) == code_blocks[k].start
Taken(k) == code_blocks[k].take
Finished == pc = "returned"

\* The code blocks cut the transport block into consecutive pieces: every block
\* holds at least one of its bits, only the last can hold padding, and a finished
\* segmentation has left no bit behind (segmentation.cpp:14-46).
Partition ==
    /\ \A k \in Blocks :
        /\ Start(k) = IF k = 1 THEN 0 ELSE Start(k - 1) + Taken(k - 1)
        /\ Taken(k) > 0
        /\ k < num_code_blocks => Taken(k) = Kinfo
    /\ Finished => offset = B

\* Every block is judged on its own, yet the choice is the same for all of them, so
\* a segmentation that fails has planned nothing: it fails at the first block or
\* not at all (segmentation.cpp:38-72).
AllOrNothing ==
    /\ \A j, k \in Blocks : code_blocks[j].size = code_blocks[k].size
                         /\ code_blocks[j].zc = code_blocks[k].zc
                         /\ code_blocks[j].bg = code_blocks[k].bg
    /\ pc = "threw" => code_blocks = <<>>

\* What make_graph asks of the parameters it is handed (ldpc.cpp:54-82), the filler
\* it computes itself being the plan's; and no smaller lifting size would do for
\* all the columns of the graph, but for the short blocks of BG2, which are lifted
\* as for 6, 8 or 9 columns.
EncoderAccepts ==
    \A k \in Blocks :
        LET p == code_blocks[k] IN
        /\ p.zc \in LiftingSets[p.i_ls + 1]
        /\ p.size <= p.k_ldpc /\ p.filler_bits = p.k_ldpc - p.size
        /\ p.bg = "BG1" \/ p.size > 640 =>
            \A z \in LiftingSizes : Kb(p.bg) * z >= p.size => p.zc <= z

\* The bits of a code block: bit numbers of the transport block, zeros, CRC.
Bits(p) ==
    [i \in 1 .. p.size |->
        IF i <= p.take THEN p.start + i ELSE IF i <= Kinfo THEN "zero" ELSE "crc"]

concatenate_code_blocks(cbs, filler_bits) ==
    LET out == FlattenSeq(cbs) IN SubSeq(out, 1, Len(out) - filler_bits)

Decoded == [k \in Blocks |-> Bits(code_blocks[k])]

\* Without block CRCs, concatenating the blocks and dropping the padding gives the
\* transport block back. The padding is not among the filler bits that a
\* SegmentationResult reports (segmentation.cpp:45, 70, 84-92): the caller must know B.
RoundTrip ==
    Finished /\ L = 0 =>
        concatenate_code_blocks(Decoded, Len(code_blocks) * Kinfo - B) = [i \in 1 .. B |-> i]

=============================================================================
