---------------------------- MODULE RateMatching ----------------------------
(***************************************************************************)
(* The index arithmetic of src/rate_matching.cpp: which coded bit each      *)
(* output of rate_match carries, and which coded bit each cell of the       *)
(* circular buffer of rate_dematch is written back to. Positions count      *)
(* from 0, as in the code.                                                  *)
(*                                                                         *)
(* A configuration is a record with the fields of RateMatchConfig and the   *)
(* length n of the codeword it is used on.                                  *)
(***************************************************************************)
EXTENDS Integers

BaseGraph == {"BG1", "BG2"}

ConfigType == [n : Nat \ {0}, e_bits : Nat \ {0}, n_cb : Nat, zc : Nat,
               bg : BaseGraph, puncture_first_2z : BOOLEAN]

\* Table 5.4.2.1-2: the numerators and the denominator of k0.
Coeff(bg, rv) == IF bg = "BG1" THEN <<0, 17, 33, 56>>[rv + 1] ELSE <<0, 13, 25, 43>>[rv + 1]

\* Mutant: BG1's table of k0 is read with the 50 columns of BG2.
Columns_Bg2Only(bg) == 50

\* The columns of the base graph that enter the buffer.
Columns(bg) == IF bg = "BG1" THEN 66 ELSE 50

rv_k0(n_cb, zc, bg, rv) == ((Coeff(bg, rv) * n_cb) \div (Columns(bg) * zc)) * zc

start_offset(c, n_cb, rv) ==
    IF c.zc > 0 THEN rv_k0(n_cb, c.zc, c.bg, rv % 4) % n_cb ELSE (n_cb * (rv % 4)) \div 4

\* The first 2Zc bits never enter the buffer.
Punch(c) == IF c.puncture_first_2z /\ c.zc > 0 THEN 2 * c.zc ELSE 0

\* The requirement both directions make.
LongEnough(c) == c.n > Punch(c)

Space(c) == c.n - Punch(c)
BufferSize(c) == IF c.n_cb = 0 THEN Space(c) ELSE c.n_cb

\* The buffer cell of output i, and the coded bit rate_match filled it from.
Cell(c, rv, i) == (start_offset(c, BufferSize(c), rv) + i) % BufferSize(c)
Source(c, cell) == Punch(c) + (cell % Space(c))

\* rate_match: the coded bit that output i carries.
Carried(c, rv, i) == Source(c, Cell(c, rv, i))

\* rate_dematch writes the cells back in order, so the last cell of a coded bit
\* is the one that stays; a bit no cell belongs to keeps its initial 0.
HasCell(c, j) == j >= Punch(c) /\ j - Punch(c) < BufferSize(c)
LastCell(c, j) ==
    LET p == j - Punch(c) IN p + Space(c) * ((BufferSize(c) - 1 - p) \div Space(c))

=============================================================================
