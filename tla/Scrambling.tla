----------------------------- MODULE Scrambling -----------------------------
(***************************************************************************)
(* src/scrambling.cpp, and the reference signal src/dmrs.cpp makes from the *)
(* same sequence. c_init is the function of its 31 low bits the code reads. *)
(***************************************************************************)
EXTENDS Complex, TLC

\* The offset into both registers.
Nc == 1600

XorBit(a, b) == (a + b) % 2

\* What a new bit of each register is the sum of, from 31 bits before it.
X1 == {0, 3}
X2 == {0, 1, 2, 3}

\* A register run to the length. A bit depends on bits at least 28 before it, so 28
\* are made at a time.
RECURSIVE Run(_, _, _)
Run(x, taps, length) ==
    LET k == Size(x)
    IN  IF k >= length THEN x
        ELSE Run(x @@ [n \in k .. k + 27 |-> Cardinality({t \in taps : x[n - 31 + t] = 1}) % 2],
                 taps, length)

gold_sequence(length, c_init) ==
    LET first == Run([n \in 0 .. 30 |-> IF n = 0 THEN 1 ELSE 0], X1, Nc + length)
        second == Run([n \in 0 .. 30 |-> c_init[n]], X2, Nc + length)
    IN  [n \in 0 .. length - 1 |-> XorBit(first[n + Nc], second[n + Nc])]

scramble(bits, c_init) ==
    LET c == gold_sequence(Size(bits), c_init)
    IN  [i \in DOMAIN bits |-> XorBit(bits[i], c[i])]

descramble(bits, c_init) == scramble(bits, c_init)

\* The pilots, in units of 1/sqrt(2), and the grid that holds them.
dmrs_sequence(n_sc, c_init) ==
    LET bits == gold_sequence(2 * n_sc, c_init)
    IN  [k \in 0 .. n_sc - 1 |-> Gauss(1 - 2 * bits[2 * k], 1 - 2 * bits[2 * k + 1])]

generate_dmrs(n_sc, n_symb, dmrs_symb, c_init) ==
    [l \in 0 .. n_symb - 1 |->
        IF l = dmrs_symb THEN dmrs_sequence(n_sc, c_init) ELSE Fill(n_sc, CZero)]

=============================================================================
