----------------------------- MODULE LdpcEncoder -----------------------------
(***************************************************************************)
(* ldpc_encode of src/ldpc.cpp: the graph is made, the information bits'    *)
(* share of every check becomes the right-hand side, and Gauss-Jordan       *)
(* elimination solves the parity columns for the parity bits, a column per  *)
(* step. The matrix A of the code holds columns K .. K+M-1 of H under       *)
(* numbers from 0; here they keep their numbers in H.                       *)
(*                                                                         *)
(* code says whose graph is used: "nr" is the library's; the educational    *)
(* copy of the encoder starts in CompactQc and runs the same steps.         *)
(***************************************************************************)
EXTENDS LdpcGraph

CONSTANTS
    Params,      \* calls of the library's encoder, LdpcParams
    Words(_)     \* for such parameters, information words: their size and their ones

\* Without mb_use the code takes M parity columns after kb: with a kb above the
\* base graph's there are fewer, and it would index past the end of its matrix.
ASSUME ParamsAssumption ==
    /\ Params \subseteq LdpcParams
    /\ \A p \in Params :
        /\ p.mb_use > 0 \/ KbOf(p) <= BaseGraphs[p.bg].kb
        /\ \A w \in Words(p) : w.size \in Nat /\ w.ones \subseteq 0 .. w.size - 1

\* Of a base graph with its own kb, as many rows are given as some call keeps.
ASSUME TablesAssumption ==
    \A p \in Params :
        LET G == BaseGraphs[p.bg]
            rows == IF p.mb_use > 0 THEN p.mb_use ELSE G.mb
        IN  KbOf(p) = G.kb /\ rows \in 4 .. G.mb => DualDiagonal(G, rows)

VARIABLES
    code,   \* "nr" or "compact"
    p,      \* the parameters of the call
    info,   \* the information bits
    pc,
    g,      \* Graph
    H,
    A,      \* row of the elimination -> parity columns in it
    rhs,    \* row -> 0 or 1
    col,    \* columns eliminated
    cw      \* the codeword

encoder == <<code, p, info, pc, g, H, A, rhs, col, cw>>

K == K_of(g)
N == N_of(g)
M == M_of(g)
Rows == 0 .. M - 1
ParityColumns == K .. K + M - 1

Blank == pc = "start" /\ g = <<>> /\ H = <<>> /\ A = <<>> /\ rhs = <<>> /\ col = 0 /\ cw = {}

EncInit == code = "nr" /\ p \in Params /\ info \in Words(p) /\ Blank

-----------------------------------------------------------------------------

\* The parameters make_graph is called with.
WithSize(q, w) == [q EXCEPT !.info_bits = IF @ < 0 THEN w.size ELSE @]

Encodable(q, w) == Accepted(WithSize(q, w)) /\ w.size <= K_of(make_graph(WithSize(q, w)))

\* What encode_ge sets up on graph h for word w; the filler bits are zeros.
Setup(h, w) ==
    LET k == K_of(h)
        m == M_of(h)
    IN  /\ g' = h
        /\ H' = build_H(h)
        /\ A' = [r \in 0 .. m - 1 |-> build_H(h)[r] \cap (k .. k + m - 1)]
        /\ rhs' = [r \in 0 .. m - 1 |-> Parity(build_H(h)[r] \cap w.ones)]
        /\ col' = 0
        /\ pc' = "eliminate"
        /\ UNCHANGED <<code, p, info, cw>>

Begin == pc = "start" /\ code = "nr" /\ Encodable(p, info) /\ Setup(make_graph(WithSize(p, info)), info)

Refuse ==
    /\ pc = "start" /\ code = "nr" /\ ~Encodable(p, info)
    /\ pc' = "refused"
    /\ UNCHANGED <<code, p, info, g, H, A, rhs, col, cw>>

\* Rows from c on with a one in the column, k being the first parity column.
Candidate(B, k, m, c) == {r \in c .. m - 1 : k + c \in B[r]}

Swapped(f, i, j) == [f EXCEPT ![i] = f[j], ![j] = f[i]]

\* Mutant: only the rows below the pivot are cleared.
Hit_Below(B, k, c, r) == r > c /\ k + c \in B[r]

\* The rows the pivot row is added to.
Hit(B, k, c, r) == r # c /\ k + c \in B[r]

\* The pivot row from the column on: the loop starts there.
Tail(B, k, c) == {x \in B[c] : x >= k + c}

Reduced(B, k, c) ==
    [r \in DOMAIN B |-> IF Hit(B, k, c, r) THEN SymDiff(B[r], Tail(B, k, c)) ELSE B[r]]

ReducedRhs(B, b, k, c) ==
    [r \in DOMAIN B |-> IF Hit(B, k, c, r) THEN (b[r] + b[c]) % 2 ELSE b[r]]

\* One column: the first row with a one is swapped up and added to all others.
Eliminate ==
    /\ pc = "eliminate" /\ col < M /\ Candidate(A, K, M, col) # {}
    /\ LET piv == Min(Candidate(A, K, M, col))
           B == Swapped(A, col, piv)
           b == Swapped(rhs, col, piv)
       IN  A' = Reduced(B, K, col) /\ rhs' = ReducedRhs(B, b, K, col)
    /\ col' = col + 1
    /\ UNCHANGED <<code, p, info, pc, g, H, cw>>

Singular ==
    /\ pc = "eliminate" /\ col < M /\ Candidate(A, K, M, col) = {}
    /\ pc' = "singular"
    /\ UNCHANGED <<code, p, info, g, H, A, rhs, col, cw>>

Solved(b, k) == {k + r : r \in {x \in DOMAIN b : b[x] = 1}}

Finish ==
    /\ pc = "eliminate" /\ col = M
    /\ cw' = info.ones \cup Solved(rhs, K)
    /\ pc' = "encoded"
    /\ UNCHANGED <<code, p, info, g, H, A, rhs, col>>

encode_ge == Eliminate \/ Singular \/ Finish

Encode == Begin \/ Refuse \/ encode_ge

=============================================================================
