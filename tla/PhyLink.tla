------------------------------- MODULE PhyLink -------------------------------
(***************************************************************************)
(* The physical layer from coded bits to received bits: the functions of    *)
(* nr_bb called one after the other, as a caller composes them, a stage per *)
(* step. The air is either an OFDM symbol of pilots and one of data through *)
(* a channel that delays (src/ofdm.cpp, src/channel.cpp), or layers through *)
(* a flat MIMO channel (src/mimo.cpp). With the backend "cuda" a stage that *)
(* has a kernel is a launch: its threads run in any order, one per step.    *)
(***************************************************************************)
EXTENDS Kernels, Ofdm, Mimo

CONSTANTS
    Configs,          \* what a caller sets up: see MCPhy for the fields
    Delays(_),        \* timing_offset_samples of the channel
    Disturbances(_)   \* noise: what is added where, or to nothing

VARIABLES
    cfg,
    pc,      \* the stage to come
    val,     \* stage -> what it has returned
    launch   \* the kernel under way: its arguments, threads to run, and cells written

vars == <<cfg, pc, val, launch>>

Idle == [on |-> FALSE]

Init == cfg \in Configs /\ pc = "match" /\ val = <<>> /\ launch = Idle

\* A stage that runs on the host.
Do(stage, result, next) ==
    /\ pc = stage
    /\ val' = (stage :> result) @@ val
    /\ pc' = next
    /\ UNCHANGED <<cfg, launch>>

Fail(stage) == pc = stage /\ pc' = "failed" /\ UNCHANGED <<cfg, val, launch>>

Cpu == cfg.backend = "cpu"
OnOfdm == cfg.path = "ofdm"

After(stage) ==
    CASE stage = "match" -> "scramble"
      [] stage = "scramble" -> "modulate"
      [] stage = "modulate" -> IF OnOfdm THEN "frame" ELSE "layers"
      [] stage = "estimate" -> "equalize"
      [] stage = "equalize" -> "demodulate"
      [] stage = "demodulate" -> "descramble"
      [] stage = "descramble" -> "done"

-----------------------------------------------------------------------------
(* Sender.                                                                 *)

Match == Cpu /\ Do("match", rate_match_bits(cfg.coded, cfg.e_bits), "scramble")

Scramble == Cpu /\ Do("scramble", scramble(val["match"], cfg.c_init), "modulate")

Modulate == Cpu /\ Do("modulate", modulate(val["scramble"], cfg.order), After("modulate"))

\* The caller puts the data into the symbol the pilots leave free.
Grid ==
    LET g == generate_dmrs(cfg.fft_size, 2, cfg.dmrs_symb, cfg.c_init)
    IN  [g EXCEPT ![1 - cfg.dmrs_symb] = val["modulate"]]

Frame ==
    Do("frame", Joined(ofdm_modulate(Grid[0], cfg.cp_len), ofdm_modulate(Grid[1], cfg.cp_len)), "air")

-----------------------------------------------------------------------------
(* The channel, and the receiver up to equalized symbols.                  *)

Disturbed(a, w) == [n \in DOMAIN a |-> IF n = w.at THEN Add(a[n], w.e) ELSE a[n]]

\* Zeros in front, or samples dropped.
Delayed(tx, d) == IF d >= 0 THEN Joined(Fill(d, CZero), tx) ELSE Slice(tx, -d, Size(tx) + d)

apply_siso_channel ==
    /\ pc = "air"
    /\ \E d \in Delays(cfg), w \in Disturbances(cfg) :
        /\ -d < Size(val["frame"])
        /\ Do("air", [rx |-> Disturbed(Delayed(val["frame"], d), w), delay |-> d, noise |-> w], "window")

DropsAll == pc = "air" /\ (\E d \in Delays(cfg) : -d >= Size(val["frame"])) /\ Fail("air")

SymbolSize == cfg.cp_len + cfg.fft_size

\* The receiver starts at the first sample; one that comes too early has lost the
\* end, which ofdm_demodulate refuses.
Window ==
    LET rx == val["air"].rx
        tones(l) == ofdm_demodulate(Slice(rx, l * SymbolSize, SymbolSize), cfg.fft_size, cfg.cp_len)
    IN  /\ pc = "window" /\ Size(rx) >= 2 * SymbolSize
        /\ Do("window", [l \in 0 .. 1 |-> tones(l)], "estimate")

WindowShort == pc = "window" /\ Size(val["air"].rx) < 2 * SymbolSize /\ Fail("window")

RxPilots == val["window"][cfg.dmrs_symb]
RxData == val["window"][1 - cfg.dmrs_symb]
TxPilots == dmrs_sequence(cfg.fft_size, cfg.c_init)

LeastSquares == ls_channel_estimate(RxPilots, TxPilots)

\* From all tones, or only from some.
Spread(h) ==
    IF cfg.pilots = <<>> THEN hold_interpolate(h, 2)[1 - cfg.dmrs_symb]
    ELSE interpolate_frequency([i \in DOMAIN cfg.pilots |-> h[cfg.pilots[i]]], cfg.pilots, cfg.fft_size)

Estimate == Cpu /\ Do("estimate", Spread(LeastSquares), "equalize")

Equalize ==
    LET h == val["estimate"] IN
    /\ pc = "equalize" /\ Cpu
    /\ \/ cfg.eq = "ZF" /\ ~ZeroChannel(h) /\ Do("equalize", equalize_zf_tones(RxData, h), "demodulate")
       \/ cfg.eq = "MMSE" /\ Do("equalize", equalize_mmse_tones(RxData, h, cfg.noise), "demodulate")

EqualizeZero ==
    /\ pc = "equalize" /\ Cpu
    /\ cfg.eq = "ZF" /\ ZeroChannel(val["estimate"])
    /\ Fail("equalize")

Layers == Do("layers", layer_map(val["modulate"], cfg.n_tx), "propagate")

\* The noise meets one sample of the first antenna.
Propagate ==
    LET y == apply_mimo_channel(val["layers"], cfg.H, cfg.n_rx, cfg.n_tx)
    IN  /\ pc = "propagate"
        /\ \E w \in Disturbances(cfg) :
            Do("propagate", [rx |-> [y EXCEPT ![0] = Disturbed(y[0], w)], noise |-> w], "gram")

\* equalize_sample up to the inversion; then a column of mat_inv per step.
EqualizeSample ==
    Do("gram", [aug |-> Augmented(Gram(cfg.H, cfg.n_rx, cfg.n_tx, cfg.reg), cfg.n_tx), col |-> 0], "invert")

PivotRow == LET a == val["gram"] IN Pivot(a.aug, cfg.n_tx, a.col)
PivotEntry == val["gram"].aug[PivotRow, val["gram"].col]

mat_inv ==
    LET a == val["gram"] IN
    /\ pc = "invert" /\ a.col < cfg.n_tx /\ PivotEntry # CZero
    /\ val' = [val EXCEPT !["gram"] =
                [aug |-> Cleared(RowsSwapped(a.aug, cfg.n_tx, a.col, PivotRow), cfg.n_tx, a.col),
                 col |-> a.col + 1]]
    /\ UNCHANGED <<cfg, pc, launch>>

SingularGram == pc = "invert" /\ val["gram"].col < cfg.n_tx /\ PivotEntry = CZero /\ Fail("invert")

EqualizeStream ==
    LET a == val["gram"]
        W == Weights(RightHalf(a.aug, cfg.n_tx), cfg.H, cfg.n_rx, cfg.n_tx)
    IN  /\ pc = "invert" /\ a.col = cfg.n_tx
        /\ Do("invert", equalize_stream(val["propagate"].rx, W, cfg.n_rx, cfg.n_tx), "demap")

Demap ==
    /\ pc = "demap"
    /\ val' = ("equalize" :> layer_demap(val["invert"])) @@ val
    /\ pc' = "demodulate"
    /\ UNCHANGED <<cfg, launch>>

-----------------------------------------------------------------------------
(* Bits again.                                                             *)

Demodulate ==
    /\ Cpu
    /\ Do("demodulate", [hard |-> demodulate_hard(val["equalize"], cfg.order),
                         llr |-> demodulate_llr(val["equalize"], cfg.order)], "descramble")

Descramble == Cpu /\ Do("descramble", descramble(val["demodulate"].hard, cfg.c_init), "done")

-----------------------------------------------------------------------------
(* The same stages as launches.                                            *)

Offloaded == {"match", "scramble", "modulate", "estimate", "equalize", "demodulate", "descramble"}

Complexes(re, im) == [i \in DOMAIN re |-> Add(re[i], Mul(im[i], CI))]
RealParts(a) == [i \in DOMAIN a |-> RealPart(a[i])]
ImagParts(a) == [i \in DOMAIN a |-> ImagPart(a[i])]
Interleaved(a) ==
    [i \in 0 .. 2 * Size(a) - 1 |-> IF i % 2 = 0 THEN RealPart(a[i \div 2]) ELSE ImagPart(a[i \div 2])]
DeInterleaved(a) == [s \in 0 .. (Size(a) \div 2) - 1 |-> Add(a[2 * s], Mul(a[2 * s + 1], CI))]

ScrambleArguments(bits) == [in |-> bits, gold |-> gold_sequence(Size(bits), cfg.c_init), n |-> Size(bits)]

Arguments(stage) ==
    CASE stage = "match" -> [coded |-> cfg.coded, n_coded |-> Size(cfg.coded), e_bits |-> cfg.e_bits]
      [] stage = "scramble" -> ScrambleArguments(val["match"])
      [] stage = "modulate" -> [bits |-> val["scramble"], n_bits |-> Size(val["scramble"])]
      [] stage = "estimate" ->
            [y_re |-> RealParts(RxPilots), y_im |-> ImagParts(RxPilots),
             p_re |-> RealParts(TxPilots), p_im |-> ImagParts(TxPilots), n |-> cfg.fft_size]
      [] stage = "equalize" ->
            [y_re |-> RealParts(RxData), y_im |-> ImagParts(RxData), h_re |-> RealParts(val["estimate"]),
             h_im |-> ImagParts(val["estimate"]), noise |-> cfg.noise, n |-> cfg.fft_size]
      [] stage = "demodulate" ->
            [iq |-> Interleaved(val["equalize"]), inv_noise |-> Inv(cfg.noise), n_sym |-> Size(val["equalize"])]
      [] stage = "descramble" -> ScrambleArguments(val["demodulate"].hard)

\* What the launch functions make the grid for.
Elements(stage, x) ==
    CASE stage = "match" -> x.e_bits
      [] stage = "modulate" -> x.n_bits \div 2
      [] stage = "demodulate" -> x.n_sym
      [] OTHER -> x.n

Body(stage, x, i) ==
    CASE stage = "match" -> rate_match_kernel(x, i)
      [] stage \in {"scramble", "descramble"} -> scramble_kernel(x, i)
      [] stage = "modulate" -> qpsk_mod_kernel(x, i)
      [] stage = "estimate" -> ls_channel_est_kernel(x, i)
      [] stage = "equalize" -> IF cfg.eq = "ZF" THEN zf_tone_kernel(x, i) ELSE mmse_tone_kernel(x, i)
      [] stage = "demodulate" -> qpsk_llr_kernel(x, i)

Launch ==
    /\ ~Cpu /\ ~launch.on /\ pc \in Offloaded
    /\ LET x == Arguments(pc)
       IN  launch' = [on |-> TRUE, x |-> x, todo |-> Launched(Elements(pc, x)), cells |-> Nothing]
    /\ UNCHANGED <<cfg, pc, val>>

Thread ==
    /\ launch.on
    /\ \E i \in launch.todo :
        launch' = [launch EXCEPT !.todo = @ \ {i}, !.cells = Body(pc, launch.x, i) @@ @]
    /\ UNCHANGED <<cfg, pc, val>>

Cells(array, a) == [c \in {<<array, i>> : i \in DOMAIN a} |-> a[c[2]]]
ArrayOf(cells, array) ==
    [i \in {c[2] : c \in {d \in DOMAIN cells : d[1] = array}} |-> cells[<<array, i>>]]

\* A bit is 1 where its LLR is negative.
SignBits(llr) == [i \in DOMAIN llr |-> IF llr[i].n[1] < 0 THEN 1 ELSE 0]

Copied(stage, cells) ==
    CASE stage \in {"match", "scramble", "descramble"} -> ArrayOf(cells, "out")
      [] stage = "modulate" -> DeInterleaved(ArrayOf(cells, "iq"))
      [] stage = "estimate" -> Spread(Complexes(ArrayOf(cells, "h_re"), ArrayOf(cells, "h_im")))
      [] stage = "equalize" -> Complexes(ArrayOf(cells, "x_re"), ArrayOf(cells, "x_im"))
      [] stage = "demodulate" ->
            LET llr == ArrayOf(cells, "llr")
            IN  [hard |-> SignBits(llr), llr |-> [i \in DOMAIN llr |-> llr[i].n[1]]]

\* The caller waits for all threads and takes the results.
Synchronize ==
    /\ launch.on /\ launch.todo = {}
    /\ val' = (pc :> Copied(pc, launch.cells)) @@ val
    /\ pc' = After(pc)
    /\ launch' = Idle
    /\ UNCHANGED cfg

Kernel == Launch \/ Thread \/ Synchronize

Next ==
    \/ Match \/ Scramble \/ Modulate
    \/ Frame \/ apply_siso_channel \/ DropsAll \/ Window \/ WindowShort
    \/ Estimate \/ Equalize \/ EqualizeZero
    \/ Layers \/ Propagate \/ EqualizeSample \/ mat_inv \/ SingularGram \/ EqualizeStream \/ Demap
    \/ Demodulate \/ Descramble
    \/ Kernel

Spec == Init /\ [][Next]_vars

-----------------------------------------------------------------------------

\* What the references make of the arguments of a launch.
Reference(stage) ==
    CASE stage = "match" -> Cells("out", rate_match_bits(cfg.coded, cfg.e_bits))
      [] stage = "scramble" -> Cells("out", scramble_bits(val["match"], cfg.c_init))
      [] stage = "descramble" -> Cells("out", scramble_bits(val["demodulate"].hard, cfg.c_init))
      [] stage = "modulate" -> Cells("iq", modulate_qpsk_f32(val["scramble"]))
      [] stage = "estimate" ->
            Cells("h_re", RealParts(LeastSquares)) @@ Cells("h_im", ImagParts(LeastSquares))
      [] stage = "equalize" ->
            LET x == IF cfg.eq = "ZF" THEN zf_tone_f32(RxData, val["estimate"])
                     ELSE mmse_tone_f32(RxData, val["estimate"], cfg.noise)
            IN  Cells("x_re", RealParts(x)) @@ Cells("x_im", ImagParts(x))
      [] stage = "demodulate" -> Cells("llr", qpsk_llr_f32(Interleaved(val["equalize"]), cfg.noise))

\* When the last thread of a launch is through, whatever their order, the cells the
\* reference fills are written, no others are, and they hold what it computes
\* (cuda_cpu_ref.hpp:4, "CPU reference implementations mirroring CUDA baseband
\* kernels"; baseband_kernels.cu:11-127).
KernelsMirror == launch.on /\ launch.todo = {} => launch.cells = Reference(pc)

\* The channel leaves what the receiver is built for: a delay the cyclic prefix
\* covers, the same on all tones if only some carry pilots; noise below half the
\* distance of two amplitudes; no noise term that shrinks symbols whose amplitude
\* carries bits.
Covered ==
    IF OnOfdm
    THEN /\ val["air"].delay \in 0 .. cfg.cp_len
         /\ cfg.eq = "MMSE" => cfg.order = "QPSK"
         /\ cfg.pilots # <<>> => val["air"].delay = 0
         /\ val["air"].noise.small
    ELSE cfg.reg = CZero /\ val["propagate"].noise.small

\* Then the bits sent are the bits received, on the host and on the GPU, for every
\* transform size, prefix, constellation, pilot position and antenna count.
BitsSurvive == pc = "done" /\ Covered => val["descramble"] = val["match"]

\* Where the soft demodulator is sure of a bit, the hard one decides the same, on
\* whatever the equalizer left of a symbol (modulation.cpp:93-144).
DemodulatorsAgree ==
    pc = "descramble" =>
        LET hard == demodulate_hard(val["equalize"], cfg.order)
            llr == val["demodulate"].llr
        IN  \A i \in DOMAIN hard : (llr[i] > 0 => hard[i] = 0) /\ (llr[i] < 0 => hard[i] = 1)

\* The transform in stages is the discrete Fourier transform, both ways
\* (fft.cpp:9-42, naive_dft.cpp:9-26).
FftIsDft ==
    pc = "air" => \A l \in 0 .. 1, inverse \in BOOLEAN :
                    fft_radix2(Grid[l], inverse) = naive_dft(Grid[l], inverse)

\* The estimate passes through the pilots, is a straight line between two that have
\* none between them, and is flat outside (channel_estimation.cpp:22-51).
FollowsPilots ==
    pc = "equalize" /\ OnOfdm /\ cfg.pilots # <<>> =>
        LET h == val["estimate"]
            at == {cfg.pilots[i] : i \in DOMAIN cfg.pilots}
        IN  /\ \A k \in at : h[k] = LeastSquares[k]
            /\ \A k \in DOMAIN h \ at :
                LET below == {j \in at : j < k}
                    above == {j \in at : j > k}
                IN  IF below = {} THEN h[k] = h[Min(above)]
                    ELSE IF above = {} THEN h[k] = h[Max(below)]
                    ELSE Times(Sub(h[k], h[Max(below)]), Min(above) - Max(below)) =
                            Times(Sub(h[Min(above)], h[Max(below)]), k - Max(below))

\* By the formula over permutations, which shares nothing with the elimination.
Determinant(A, n) ==
    LET I == 0 .. n - 1
        perms == {p \in [I -> I] : \A i, j \in I : p[i] = p[j] => i = j}
        inversions(p) == Cardinality({ij \in I \X I : ij[1] < ij[2] /\ p[ij[1]] > p[ij[2]]})
        term(p) == FoldFunction(Mul, COne, [i \in I |-> A[i, p[i]]])
    IN  Total([p \in perms |-> IF inversions(p) % 2 = 0 THEN term(p) ELSE Neg(term(p))])

\* The equalizer solves the normal equations (H* H + reg) x = H* y, and refuses
\* exactly the channels for which they have no single solution (equalizer.cpp:36-100).
EqualizerSolves ==
    /\ pc = "demap" =>
        LET y == val["propagate"].rx
            x == val["invert"]
            column(a, t) == [i \in DOMAIN a |-> a[i][t]]
            herm == [ij \in (0 .. cfg.n_tx - 1) \X (0 .. cfg.n_rx - 1) |-> Conj(cfg.H[ij[2], ij[1]])]
        IN  \A t \in DOMAIN x[0] :
                LET Hx == mat_vec(cfg.H, cfg.n_rx, cfg.n_tx, column(x, t))
                    lhs == mat_vec(herm, cfg.n_tx, cfg.n_rx, Hx)
                    rhs == mat_vec(herm, cfg.n_tx, cfg.n_rx, column(y, t))
                IN  \A i \in DOMAIN lhs : Add(lhs[i], Mul(cfg.reg, x[i][t])) = rhs[i]
    /\ pc \in {"demap", "failed"} /\ ~OnOfdm => 
        (pc = "demap") = (Determinant(Gram(cfg.H, cfg.n_rx, cfg.n_tx, cfg.reg), cfg.n_tx) # CZero)

=============================================================================
