-------------------------------- MODULE Ofdm --------------------------------
(***************************************************************************)
(* src/fft.cpp and src/ofdm.cpp: the transform as its loops run, and the    *)
(* cyclic prefix. naive_dft of src/educational is the definition it is held *)
(* against.                                                                 *)
(***************************************************************************)
EXTENDS Complex

\* The inner loop of the permutation: carries ripple down from the highest bit.
RECURSIVE NextReversed(_, _)
NextReversed(j, bit) ==
    IF (j \div bit) % 2 = 1 THEN NextReversed(j - bit, bit \div 2) ELSE j + bit

RECURSIVE Permuted(_, _, _)
Permuted(a, i, j) ==
    IF i >= Size(a) THEN a
    ELSE LET r == NextReversed(j, Size(a) \div 2)
         IN  Permuted(IF i < r THEN [a EXCEPT ![i] = a[r], ![r] = a[i]] ELSE a, i + 1, r)

\* Mutant: the factor turns the wrong way in the forward transform.
Twiddle_Swapped(len, j, inverse) == Root((IF inverse THEN -1 ELSE 1) * (8 \div len) * j)

\* w after j factors wlen.
Twiddle(len, j, inverse) == Root((IF inverse THEN 1 ELSE -1) * (8 \div len) * j)

\* All butterflies of one length.
Butterflies(a, len, inverse) ==
    [k \in DOMAIN a |->
        LET half == len \div 2
            j == k % len
            w == Twiddle(len, j % half, inverse)
        IN  IF j < half THEN Add(a[k], Mul(a[k + half], w))
            ELSE Sub(a[k - half], Mul(a[k], w))]

RECURSIVE Stages(_, _, _)
Stages(a, len, inverse) ==
    IF len > Size(a) THEN a ELSE Stages(Butterflies(a, len, inverse), 2 * len, inverse)

fft_radix2(in, inverse) ==
    LET a == Stages(Permuted(in, 1, 0), 2, inverse)
    IN  IF inverse THEN [k \in DOMAIN a |-> Over(a[k], Size(a))] ELSE a

naive_dft(in, inverse) ==
    LET n == Size(in)
        Turn(k, i) == Root((IF inverse THEN 1 ELSE -1) * (8 \div n) * k * i)
        sum(k) == Total([i \in DOMAIN in |-> Mul(in[i], Turn(k, i))])
    IN  [k \in DOMAIN in |-> IF inverse THEN Over(sum(k), n) ELSE sum(k)]

\* Mutant: the prefix repeats the beginning of the symbol.
Prefix_Front(time, cp) == Slice(time, 0, cp)

Prefix(time, cp) == Slice(time, Size(time) - cp, cp)

ofdm_modulate(freq, cp) ==
    LET time == fft_radix2(freq, TRUE) IN Joined(Prefix(time, cp), time)

ofdm_demodulate(signal, fft_size, cp) == fft_radix2(Slice(signal, cp, fft_size), FALSE)

=============================================================================
