----------------------------- MODULE MCFronthaul -----------------------------
(***************************************************************************)
(* Instances of Fronthaul for TLC.                                          *)
(***************************************************************************)
EXTENDS Fronthaul

Settings(l, c, r, d) == [loss_prob |-> l, corrupt_prob |-> c, reorder_prob |-> r,
                         delay_packets |-> d]

\* A draw is low or high. Probabilities of 0, a half and 1; delays of none, some,
\* a whole batch and more than a batch.
MCImpairments ==
    {Settings(1, 1, 1, d) : d \in {0, 1, 6}} \cup {Settings(1, 1, 0, d) : d \in {-1, 2, 3}}
    \cup {Settings(0, 2, 2, 5), Settings(0, 1, 2, 0), Settings(0, 0, 0, 0), Settings(2, 1, 1, 1)}

\* A batch of four takes up to nine draws.
MCStreams == [0 .. Period - 1 -> 0 .. Levels - 1]

MCBatches ==
    {b \in [size : 0 .. 4, empty : {{}, {1}, {1, 3}}] : b.empty \subseteq 1 .. b.size}

=============================================================================
