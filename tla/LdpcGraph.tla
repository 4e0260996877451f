------------------------------ MODULE LdpcGraph ------------------------------
(***************************************************************************)
(* Parity-check graphs of src/ldpc.cpp: what make_graph accepts and builds  *)
(* from a base graph, its lifting to single bits, and the lists of edges    *)
(* and matrix rows the decoder and the encoder take from it. A word is the  *)
(* set of positions of its ones, a row of the matrix the set of its         *)
(* columns, so adding modulo 2 is the symmetric difference.                 *)
(***************************************************************************)
EXTENDS Lifting, FiniteSetsExt

CONSTANT BaseGraphs \* for BG1 and BG2: rows mb, columns nb, information columns kb, edges

ASSUME BaseGraphAssumption ==
    \A b \in BaseGraph :
        LET G == BaseGraphs[b] IN
        /\ {G.mb, G.nb, G.kb} \subseteq Nat \ {0} /\ G.kb + G.mb <= G.nb
        /\ IsFiniteSet(G.edges)
        /\ \A e \in G.edges : /\ e.row \in 0 .. G.mb - 1 /\ e.col \in 0 .. G.nb - 1
                              /\ \A i \in 1 .. 8 : e.shift[i] \in Int
        /\ \A e, f \in G.edges : e.row = f.row /\ e.col = f.col => e = f

\* The columns of a block row of G from column kb on, counted from there.
ParityBlocks(G, row) == {e.col - G.kb : e \in {x \in G.edges : x.row = row /\ x.col >= G.kb}}

\* How the tables are made, as far as their first rows go: four core rows over four
\* parity columns, the first with the same shift in rows 0 and 3 and with any in a row
\* between, the others down two diagonals without a shift; and each row after these with one
\* parity column more, without a shift.
DualDiagonal(G, rows) ==
    /\ \E middle \in 1 .. 2 : \A row \in 0 .. 3 :
        ParityBlocks(G, row) =
            ({row, row + 1} \cap 1 .. 3) \cup (IF row \in {0, middle, 3} THEN {0} ELSE {})
    /\ \A row \in 4 .. rows - 1 : ParityBlocks(G, row) \ (0 .. 3) = {row}
    /\ \A e \in G.edges, i \in 1 .. 8 :
        /\ e.row < 4 /\ e.col = G.kb => e.shift[i] >= 0
        /\ e.col > G.kb /\ (e.row < 4 \/ e.col = G.kb + e.row) => e.shift[i] = 0
    /\ \A e, f \in G.edges :
        e.row = 0 /\ f.row = 3 /\ e.col = G.kb /\ f.col = G.kb => e.shift = f.shift

LdpcParams == [bg : BaseGraph, zc : Int, i_ls : Int, max_iter : Nat, info_bits : Int,
               kb : Int, mb_use : Int]

-----------------------------------------------------------------------------

KbOf(p) == IF p.kb > 0 THEN p.kb ELSE BaseGraphs[p.bg].kb
ZcOf(p) == IF p.zc > 0 THEN p.zc ELSE select_lifting(p.info_bits, p.bg)
IlsOf(p) == IF p.i_ls >= 0 THEN p.i_ls ELSE i_ls_for_zc(ZcOf(p))

\* The requirements of make_graph, in its order.
Accepted(p) ==
    /\ IF p.zc > 0 THEN p.zc \in LiftingSizes
       ELSE p.info_bits > 0 /\ Candidates(p.info_bits, p.bg) # {}
    /\ IlsOf(p) \in 0 .. 7
    /\ KbOf(p) < BaseGraphs[p.bg].nb
    /\ p.mb_use > 0 => p.mb_use <= BaseGraphs[p.bg].mb
    /\ p.info_bits > 0 => p.info_bits <= KbOf(p) * ZcOf(p)

\* mb_use keeps the first rows and as many parity columns after kb.
make_graph(p) ==
    LET G == BaseGraphs[p.bg]
        cut == p.mb_use > 0
        mb == IF cut THEN p.mb_use ELSE G.mb
        nb == IF cut THEN KbOf(p) + mb ELSE G.nb
    IN  [mb |-> mb, nb |-> nb, kb |-> KbOf(p), zc |-> ZcOf(p), i_ls |-> IlsOf(p),
         filler |-> IF p.info_bits > 0 THEN KbOf(p) * ZcOf(p) - p.info_bits ELSE 0,
         edges |-> {e \in G.edges : e.row < mb /\ e.col < nb}]

N_of(g) == g.nb * g.zc
K_of(g) == g.kb * g.zc
M_of(g) == g.mb * g.zc

mod_shift(v, zc) == v % zc

\* Mutant: the copies of a block row are all shifted alike, by whole columns.
lifted_var_Unrotated(col_block, shift, row_within, zc) == col_block * zc + (shift % zc)

lifted_var(col_block, shift, row_within, zc) == col_block * zc + ((row_within + shift) % zc)

\* The edges there are in the lifting set in use.
Live(g) == {e \in g.edges : e.shift[g.i_ls + 1] >= 0}

\* Copy z of an edge joins a check and a variable.
CheckOf(g, e, z) == e.row * g.zc + z
VarOf(g, e, z) == lifted_var(e.col, mod_shift(e.shift[g.i_ls + 1], g.zc), z, g.zc)

\* Mutant: an edge with shift 0 is skipped with those that are absent.
expand_edges_Shifted(g) ==
    {<<CheckOf(g, e, z), VarOf(g, e, z)>> :
        e \in {x \in Live(g) : x.shift[g.i_ls + 1] > 0}, z \in 0 .. g.zc - 1}

\* A SparseEdge is the pair of its check and its variable: no two are the same,
\* since no two edges of a base graph share row and column.
expand_edges(g) == {<<CheckOf(g, e, z), VarOf(g, e, z)>> : e \in Live(g), z \in 0 .. g.zc - 1}

Parity(S) == Cardinality(S) % 2

\* Row r of H is copy r % zc of a block row: a column is in it if an odd number of
\* the edges of that block row has flipped it.
build_H(g) ==
    [r \in 0 .. M_of(g) - 1 |->
        LET edges == {e \in Live(g) : e.row = r \div g.zc}
            hits(c) == {e \in edges : VarOf(g, e, r % g.zc) = c}
        IN  {c \in 0 .. N_of(g) - 1 : Parity(hits(c)) = 1}]

\* ldpc_syndrome_ok on a matrix: every check of the word is even.
syndrome_ok(H, word) == \A r \in DOMAIN H : Parity(H[r] \cap word) = 0

=============================================================================
