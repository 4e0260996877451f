------------------------------- MODULE Kernels -------------------------------
(***************************************************************************)
(* The kernels of src/cuda/baseband_kernels.cu and their counterparts in    *)
(* src/src/cuda_cpu_ref.cpp. A cell is an array's name and an index; x      *)
(* holds the arguments of a launch, i is the global number of a thread, and *)
(* the body says what that thread writes. Floats are exact; the 1e-12f      *)
(* under a quotient counts only where everything else is zero.              *)
(***************************************************************************)
EXTENDS Scrambling, RateMatching, Modulation, ChannelEstimation, TLC

CONSTANT Threads \* per block: 256 in the code

Nothing == <<>>

\* Mutant: the last block is not launched unless it is full.
Blocks_Floor(n) == n \div Threads

Blocks(n) == (n + Threads - 1) \div Threads

\* blockIdx.x * blockDim.x + threadIdx.x
Launched(n) == {b * Threads + t : b \in 0 .. Blocks(n) - 1, t \in 0 .. Threads - 1}

scramble_kernel(x, i) == IF i < x.n THEN <<"out", i>> :> XorBit(x.in[i], x.gold[i]) ELSE Nothing

rate_match_kernel(x, i) ==
    IF i < x.e_bits THEN <<"out", i>> :> x.coded[i % x.n_coded] ELSE Nothing

Sign(bit) == IF bit = 0 THEN COne ELSE Neg(COne)

qpsk_mod_kernel(x, s) ==
    IF s < x.n_bits \div 2
    THEN (<<"iq", 2 * s>> :> Sign(x.bits[2 * s])) @@ (<<"iq", 2 * s + 1>> :> Sign(x.bits[2 * s + 1]))
    ELSE Nothing

qpsk_llr_kernel(x, s) ==
    LET scale == Times(x.inv_noise, 2)
    IN  IF s < x.n_sym
        THEN (<<"llr", 2 * s>> :> Mul(scale, x.iq[2 * s])) @@
             (<<"llr", 2 * s + 1>> :> Mul(scale, x.iq[2 * s + 1]))
        ELSE Nothing

Quotient(a, den) == IF den = CZero THEN CZero ELSE Div(a, den)

\* The three kernels that divide a by b tone by tone: a conj(b) over |b|^2 and more.
Divided(a_re, a_im, b_re, b_im, more) ==
    LET den == Add(Add(Mul(b_re, b_re), Mul(b_im, b_im)), more)
    IN  [re |-> Quotient(Add(Mul(a_re, b_re), Mul(a_im, b_im)), den),
         im |-> Quotient(Sub(Mul(a_im, b_re), Mul(a_re, b_im)), den)]

tone_kernel(x, i, more) ==
    LET q == Divided(x.y_re[i], x.y_im[i], x.h_re[i], x.h_im[i], more)
    IN  (<<"x_re", i>> :> q.re) @@ (<<"x_im", i>> :> q.im)

zf_tone_kernel(x, i) == IF i < x.n THEN tone_kernel(x, i, CZero) ELSE Nothing

mmse_tone_kernel(x, i) == IF i < x.n THEN tone_kernel(x, i, x.noise) ELSE Nothing

ls_channel_est_kernel(x, i) ==
    IF i < x.n
    THEN LET q == Divided(x.y_re[i], x.y_im[i], x.p_re[i], x.p_im[i], CZero)
         IN  (<<"h_re", i>> :> q.re) @@ (<<"h_im", i>> :> q.im)
    ELSE Nothing

-----------------------------------------------------------------------------
(* The references return arrays.                                           *)

scramble_bits(bits, c_init) == scramble(bits, c_init)

rate_match_bits(coded, e_bits) ==
    LET c == [n |-> Size(coded), e_bits |-> e_bits, n_cb |-> 0, zc |-> 0,
              bg |-> "BG2", puncture_first_2z |-> TRUE]
    IN  [i \in 0 .. e_bits - 1 |-> coded[Carried(c, 0, i)]]

modulate_qpsk_f32(bits) ==
    LET sym == modulate(bits, "QPSK")
    IN  [i \in 0 .. 2 * Size(sym) - 1 |->
            IF i % 2 = 0 THEN RealPart(sym[i \div 2]) ELSE ImagPart(sym[i \div 2])]

qpsk_llr_f32(iq, noise) == LET scale == Div(Gauss(2, 0), noise) IN [i \in DOMAIN iq |-> Mul(scale, iq[i])]

zf_tone_f32(y, h) ==
    [i \in DOMAIN y |-> Quotient(Mul(y[i], Conj(h[i])), Norm(h[i]))]

mmse_tone_f32(y, h, noise) ==
    [i \in DOMAIN y |-> Quotient(Mul(y[i], Conj(h[i])), Add(Norm(h[i]), noise))]

=============================================================================
