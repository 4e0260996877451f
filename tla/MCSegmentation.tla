---------------------------- MODULE MCSegmentation ----------------------------
(***************************************************************************)
(* Instances of Segmentation for TLC: sizes on both sides of every limit of *)
(* the code (one block, 12 bits, the limits of the base graph choice and of *)
(* the lifting table), and, for the round trip, all small sizes.            *)
(***************************************************************************)
EXTENDS Segmentation

Around(S) == UNION {{x - 1, x, x + 1} : x \in S}

MCSizes == {0} \cup Around({1, 12, 40, 80, 292, 640, 3824, 3840, 4000, 8000, 8448, 16896, 25344})

AllSizes == 0 .. 165 \cup MCSizes

=============================================================================
