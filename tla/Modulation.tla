----------------------------- MODULE Modulation -----------------------------
(***************************************************************************)
(* src/modulation.cpp: Gray-mapped constellations and their two             *)
(* demodulators. Symbols are in units of scale_for(order).                  *)
(***************************************************************************)
EXTENDS Complex, Bitwise, FiniteSetsExt

bits_per_symbol(order) == [QPSK |-> 2, QAM16 |-> 4, QAM64 |-> 6, QAM256 |-> 8][order]

Levels(nbits) == 2 ^ nbits

bin_to_gray(v) == v ^^ (v \div 2)

RECURSIVE gray_to_bin(_)
gray_to_bin(g) == IF g = 0 THEN 0 ELSE g ^^ gray_to_bin(g \div 2)

\* The bits from start on as a number, the first bit highest.
RECURSIVE BitsToInt(_, _, _)
BitsToInt(bits, start, nbits) ==
    IF nbits = 0 THEN 0 ELSE 2 * BitsToInt(bits, start, nbits - 1) + bits[start + nbits - 1]

\* All bits zero is the most positive amplitude.
Amplitude(g, nbits) == (Levels(nbits) - 1) - 2 * gray_to_bin(g)

gray_pam_amp(bits, start, nbits) == Amplitude(BitsToInt(bits, start, nbits), nbits)

\* Mutant: the levels are numbered plainly on the way back.
gray_bits_from_amp_Plain(amp, nbits) ==
    [i \in 0 .. nbits - 1 |-> ((((Levels(nbits) - 1) - amp) \div 2) \div 2 ^ (nbits - 1 - i)) % 2]

gray_bits_from_amp(amp, nbits) ==
    LET v == ((Levels(nbits) - 1) - amp) \div 2
        g == bin_to_gray(Max({0, Min({v, Levels(nbits) - 1})}))
    IN  [i \in 0 .. nbits - 1 |-> (g \div 2 ^ (nbits - 1 - i)) % 2]

\* Bit k of an index, the first highest.
BitOf(idx, m, k) == (idx \div 2 ^ (m - 1 - k)) % 2

symbol_from_index(idx, order) ==
    LET half == bits_per_symbol(order) \div 2
    IN  Gauss(Amplitude(idx \div Levels(half), half), Amplitude(idx % Levels(half), half))

constellation(order) ==
    [i \in 0 .. Levels(bits_per_symbol(order)) - 1 |-> symbol_from_index(i, order)]

modulate(bits, order) ==
    LET m == bits_per_symbol(order)
        half == m \div 2
    IN  [s \in 0 .. (Size(bits) \div m) - 1 |->
            Gauss(gray_pam_amp(bits, s * m, half), gray_pam_amp(bits, s * m + half, half))]

\* The amplitude nearest to num / den; of two, the loop keeps the lower.
nearest(num, den, half) ==
    LET amps == {2 * v - (Levels(half) - 1) : v \in 0 .. Levels(half) - 1}
        best == Min({Abs(num - den * a) : a \in amps})
    IN  Min({a \in amps : Abs(num - den * a) = best})

demodulate_hard(syms, order) ==
    LET m == bits_per_symbol(order)
        half == m \div 2
        re == [s \in DOMAIN syms |-> gray_bits_from_amp(nearest(syms[s].n[1], syms[s].d, half), half)]
        im == [s \in DOMAIN syms |-> gray_bits_from_amp(nearest(syms[s].n[3], syms[s].d, half), half)]
    IN  [i \in 0 .. Size(syms) * m - 1 |->
            LET k == i % m IN IF k < half THEN re[i \div m][k] ELSE im[i \div m][k - half]]

\* |y - a|^2 for a symbol a, times the square of the denominator of y.
Distance(y, a) == (y.n[1] - y.d * a.n[1]) ^ 2 + (y.n[3] - y.d * a.n[3]) ^ 2

\* Every LLR is in a positive unit of its own: its sign is what counts.
demodulate_llr(syms, order) ==
    LET m == bits_per_symbol(order)
        alphabet == constellation(order)
        nearestWith(y, k, b) ==
            Min({Distance(y, alphabet[s]) : s \in {x \in DOMAIN alphabet : BitOf(x, m, k) = b}})
    IN  [i \in 0 .. Size(syms) * m - 1 |->
            LET y == syms[i \div m]
                k == i % m
            IN  nearestWith(y, k, 1) - nearestWith(y, k, 0)]

=============================================================================
