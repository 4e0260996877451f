-------------------------- MODULE ChannelEstimation --------------------------
(***************************************************************************)
(* src/channel_estimation.cpp: the channel at the pilots, spread over time  *)
(* or frequency, and the equalizers of single tones.                        *)
(***************************************************************************)
EXTENDS Complex

ls_channel_estimate(rx_dmrs, tx_dmrs) == [i \in DOMAIN rx_dmrs |-> Div(rx_dmrs[i], tx_dmrs[i])]

hold_interpolate(h_sc, n_symb) == Fill(n_symb, h_sc)

\* The binary search for the pilots lo and hi = lo + 1 a subcarrier lies between.
RECURSIVE Search(_, _, _, _)
Search(pilot_idx, sc, lo, hi) ==
    IF hi - lo <= 1 THEN lo
    ELSE LET mid == (lo + hi) \div 2
         IN  IF pilot_idx[mid] <= sc THEN Search(pilot_idx, sc, mid, hi)
             ELSE Search(pilot_idx, sc, lo, mid)

\* Mutant: a pilot met exactly counts as above the subcarrier, and the weights are
\* those of the pilots the other way round.
Between_Swapped(h0, h1, x0, x1, sc) ==
    Over(Add(Times(h0, sc - x0), Times(h1, x1 - sc)), x1 - x0)

Between(h0, h1, x0, x1, sc) == Over(Add(Times(h0, x1 - sc), Times(h1, sc - x0)), x1 - x0)

\* Constant before the first pilot and after the last.
interpolate_frequency(h_pilots, pilot_idx, n_sc) ==
    LET last == Size(pilot_idx) - 1
    IN  [sc \in 0 .. n_sc - 1 |->
            IF sc <= pilot_idx[0] THEN h_pilots[0]
            ELSE IF sc >= pilot_idx[last] THEN h_pilots[last]
            ELSE LET lo == Search(pilot_idx, sc, 0, last)
                 IN  Between(h_pilots[lo], h_pilots[lo + 1], pilot_idx[lo], pilot_idx[lo + 1], sc)]

\* Both refuse nothing but a channel that is zero, and the second not even that if
\* there is noise.
ZeroChannel(H) == \E i \in DOMAIN H : H[i] = CZero

equalize_zf_tones(y, H) == [i \in DOMAIN y |-> Div(y[i], H[i])]

equalize_mmse_tones(y, H, noise) ==
    [i \in DOMAIN y |-> Div(Mul(y[i], Conj(H[i])), Add(Norm(H[i]), noise))]

=============================================================================
