------------------------------- MODULE Lifting -------------------------------
(***************************************************************************)
(* Table 5.3.2-1 of src/ldpc.cpp and what is looked up in it: the lifting    *)
(* size for a number of bits, the set a size is in, and the base graph for  *)
(* a length and a rate. Code rates are in percent.                          *)
(***************************************************************************)
EXTENDS Integers

BaseGraph == {"BG1", "BG2"}

\* Table 5.3.2-1, row i_ls without its -1 entries: an odd number times powers of 2.
LiftingSets == <<
    {2, 4, 8, 16, 32, 64, 128, 256}, {3, 6, 12, 24, 48, 96, 192, 384},
    {5, 10, 20, 40, 80, 160, 320},   {7, 14, 28, 56, 112, 224},
    {9, 18, 36, 72, 144, 288},       {11, 22, 44, 88, 176, 352},
    {13, 26, 52, 104, 208},          {15, 30, 60, 120, 240} >>

LiftingSizes == UNION {LiftingSets[i] : i \in 1 .. 8}

i_ls_for_zc(zc) == (CHOOSE i \in 1 .. 8 : zc \in LiftingSets[i]) - 1

select_basegraph(k, rate) ==
    IF k <= 292 \/ (k <= 3824 /\ rate <= 67) \/ rate <= 25 THEN "BG2" ELSE "BG1"

Kb(bg) == IF bg = "BG1" THEN 22 ELSE 10

\* Mutant: a long block on BG2 is lifted for one column more than the graph has.
KbSel_Short(k, bg) ==
    IF bg = "BG1" THEN 22
    ELSE IF k > 640 THEN 11 ELSE IF k > 560 THEN 9 ELSE IF k > 192 THEN 8 ELSE 6

\* The information columns the lifting size is chosen for.
KbSel(k, bg) ==
    IF bg = "BG1" THEN 22
    ELSE IF k > 640 THEN 10 ELSE IF k > 560 THEN 9 ELSE IF k > 192 THEN 8 ELSE 6

Candidates(k, bg) == {z \in LiftingSizes : KbSel(k, bg) * z >= k}

\* The first of the smallest products: no size is in the table twice.
select_lifting(k, bg) == CHOOSE z \in Candidates(k, bg) : \A y \in Candidates(k, bg) : z <= y

=============================================================================
