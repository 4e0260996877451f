-------------------------------- MODULE Mimo --------------------------------
(***************************************************************************)
(* src/layer_mapping.cpp, the flat MIMO channel of src/channel.cpp and the  *)
(* linear algebra of src/equalizer.cpp. A matrix is a function from pairs   *)
(* of row and column; H has n_rx rows and n_tx columns.                     *)
(***************************************************************************)
EXTENDS Complex

layer_map(symbols, n) ==
    [l \in 0 .. n - 1 |-> [t \in 0 .. (Size(symbols) \div n) - 1 |-> symbols[t * n + l]]]

layer_demap(layers) ==
    LET n == Size(layers)
    IN  [i \in 0 .. n * Size(layers[0]) - 1 |-> layers[i % n][i \div n]]

mat_mul(A, ar, ac, B, bc) ==
    [i \in 0 .. ar - 1, j \in 0 .. bc - 1 |-> Total([k \in 0 .. ac - 1 |-> Mul(A[i, k], B[k, j])])]

mat_vec(A, r, c, x) == [i \in 0 .. r - 1 |-> Total([j \in 0 .. c - 1 |-> Mul(A[i, j], x[j])])]

mat_herm(A, r, c) == [j \in 0 .. c - 1, i \in 0 .. r - 1 |-> Conj(A[i, j])]

apply_mimo_channel(tx, H, n_rx, n_tx) ==
    LET rx == [t \in DOMAIN tx[0] |-> mat_vec(H, n_rx, n_tx, [c \in 0 .. n_tx - 1 |-> tx[c][t]])]
    IN  [r \in 0 .. n_rx - 1 |-> [t \in DOMAIN tx[0] |-> rx[t][r]]]

\* What is inverted: regularised on the diagonal.
Gram(H, n_rx, n_tx, reg) ==
    LET gram == mat_mul(mat_herm(H, n_rx, n_tx), n_tx, n_rx, H, n_tx)
    IN  [i \in 0 .. n_tx - 1, j \in 0 .. n_tx - 1 |->
            IF i = j THEN Add(gram[i, j], reg) ELSE gram[i, j]]

\* [A | 1]
Augmented(A, n) ==
    [i \in 0 .. n - 1, j \in 0 .. 2 * n - 1 |->
        IF j < n THEN A[i, j] ELSE IF j = n + i THEN COne ELSE CZero]

\* x > y for two norms, whose irrational parts are zero here.
Exceeds(x, y) == x.n[1] * y.d > y.n[1] * x.d

\* The first of the rows from col on that have the largest entry in the column.
RECURSIVE PivotFrom(_, _, _, _, _)
PivotFrom(aug, n, col, r, piv) ==
    IF r = n THEN piv
    ELSE PivotFrom(aug, n, col, r + 1,
                   IF Exceeds(Norm(aug[r, col]), Norm(aug[piv, col])) THEN r ELSE piv)

Pivot(aug, n, col) == PivotFrom(aug, n, col, col + 1, col)

RowsSwapped(aug, n, a, b) ==
    [i \in 0 .. n - 1, j \in 0 .. 2 * n - 1 |->
        aug[IF i = a THEN b ELSE IF i = b THEN a ELSE i, j]]

\* Mutant: the pivot row is not divided by the pivot before it is subtracted.
Cleared_Undivided(aug, n, col) ==
    [i \in 0 .. n - 1, j \in 0 .. 2 * n - 1 |->
        IF i = col THEN Div(aug[col, j], aug[col, col])
        ELSE Sub(aug[i, j], Mul(aug[i, col], aug[col, j]))]

\* One column of mat_inv: the pivot row is divided and taken off all others.
Cleared(aug, n, col) ==
    LET row == [j \in 0 .. 2 * n - 1 |-> Div(aug[col, j], aug[col, col])]
    IN  [i \in 0 .. n - 1, j \in 0 .. 2 * n - 1 |->
            IF i = col THEN row[j] ELSE Sub(aug[i, j], Mul(aug[i, col], row[j]))]

RightHalf(aug, n) == [i \in 0 .. n - 1, j \in 0 .. n - 1 |-> aug[i, n + j]]

\* W of equalize_sample, from the inverse of the Gram matrix.
Weights(inverse, H, n_rx, n_tx) == mat_mul(inverse, n_tx, n_tx, mat_herm(H, n_rx, n_tx), n_rx)

equalize_stream(y_rx, W, n_rx, n_tx) ==
    LET x == [t \in DOMAIN y_rx[0] |-> mat_vec(W, n_tx, n_rx, [r \in 0 .. n_rx - 1 |-> y_rx[r][t]])]
    IN  [c \in 0 .. n_tx - 1 |-> [t \in DOMAIN y_rx[0] |-> x[t][c]]]

identity_mimo(n) == [i \in 0 .. n - 1, j \in 0 .. n - 1 |-> IF i = j THEN COne ELSE CZero]

=============================================================================
